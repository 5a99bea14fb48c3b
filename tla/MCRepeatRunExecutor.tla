-------------------------- MODULE MCRepeatRunExecutor --------------------------
(***************************************************************************)
(* Responses that differ in the hash, or in a code and a write set.         *)
(***************************************************************************)
EXTENDS RepeatRunExecutor

Response(h, c, w) == [appHash |-> h, codes |-> <<0, c>>, ws |-> <<{1}, {w}>>]

SomeResponses == {Response("h", 0, 2), Response("g", 0, 2), Response("h", 5, 3)}
================================================================================
