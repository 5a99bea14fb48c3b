----------------------------- MODULE MCCanaryCodec -----------------------------
(***************************************************************************)
(* Bytes and numbers for the runs of CanaryCodec: string bytes that look    *)
(* like tags, numbers at the edges of one and two varint bytes, unknown     *)
(* fields of every wire type with number 4 and 5.                           *)
(***************************************************************************)
EXTENDS CanaryCodec

TagLikeStrings == {<<>>, <<24>>, <<18, 10>>}
EdgeInts == {0, 1, 127, 128, 130, 200, 16383, -16384, -1}
SmallInts == {0, 127, 128}
LaterFields == {<<32, 133, 1>>, <<34, 2, 10, 24>>, <<37, 1, 2, 3, 4>>, <<33, 8, 7, 6, 5, 4, 3, 2, 1>>,
                <<40, 5, 34, 1, 12>>, <<32, 244, 255, 1>>}
NoFields == {<<>>}
================================================================================
