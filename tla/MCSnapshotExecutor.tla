-------------------------- MODULE MCSnapshotExecutor --------------------------
(***************************************************************************)
(* A snapshot of a node that keeps the versions 3 to 8.                     *)
(***************************************************************************)
EXTENDS SnapshotExecutor

\* Ranges inside the snapshot, before it, from genesis, and an invalid one.
ManyStarts == {0, 1, 2, 5, 6, 8}
TwoStarts == {5, 7}
Held == 3 .. 8

\* Inferred from range.json, nothing to roll back, inside the snapshot.
ManyTargets == {-1, 0, 4, 6}
================================================================================
