------------------------------- MODULE NonDetSink -------------------------------
(***************************************************************************)
(* simharness.nonDetSink, the process-global buffer of non-deterministic    *)
(* calls.  A call carries the tx index in force when it was recorded; src   *)
(* is not in the code: it remembers which run really made the call, so that *)
(* properties can compare attribution with the truth.                       *)
(***************************************************************************)
EXTENDS Integers, Sequences

NewSink == [txIndex |-> -1, calls |-> <<>>]

Record(s, src) == [s EXCEPT !.calls = Append(@, [txIndex |-> s.txIndex, src |-> src])]

SinkSetCurrentTx(s, i) == [s EXCEPT !.txIndex = i]

\* Mutant: NonDetCalls resets the index only.
Drained_KeepsCalls(s) == SinkSetCurrentTx(s, -1)

\* NonDetCalls returns s.calls and leaves this behind.
Drained(s) == NewSink
================================================================================
