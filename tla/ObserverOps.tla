------------------------------ MODULE ObserverOps ------------------------------
(***************************************************************************)
(* compare.BlockObserver as operators on a record: the callbacks an SDK     *)
(* runner invokes while it executes a block (OnTxStart, OnKVWrite, OnTxEnd) *)
(* and the calls the executors make around FinalizeBlock.                   *)
(*                                                                         *)
(* An observer covers txCount transactions, numbered from 0 as in the code. *)
(* A snapshot (a []byte) is a sequence: <<>> is nil, <<v>> the serialised   *)
(* state v.  A write set is a set of keys: storeKey "/" hex(key) is         *)
(* injective, since hex digits contain no "/", and TxWriteSet sorts it.     *)
(***************************************************************************)
EXTENDS Integers, Sequences, SequencesExt

TxIndices(n) == 0 .. n - 1

\* ntrackers is the length of the trackers argument.
NewBlockObserver(txCount, ntrackers) ==
  [txCount   |-> txCount,
   ntrackers |-> ntrackers,
   writeSets |-> [i \in TxIndices(txCount) |-> {}],
   snapshots |-> [i \in TxIndices(txCount) |-> [t \in 1 .. ntrackers |-> <<>>]],
   blockSnapshots |-> [t \in 1 .. ntrackers |-> <<>>],
   mutSets   |-> [i \in TxIndices(txCount) |-> <<>>]]

MutationRecord(t, before, after) == [tracker |-> t, before |-> before[t], after |-> after[t]]

\* Mutant: the first tracker is not compared.
MutationRecords_SkipsFirst(before, after) ==
  FlattenSeq([t \in DOMAIN after |->
    IF t > 1 /\ before[t] # after[t] THEN <<MutationRecord(t, before, after)>> ELSE <<>>])

\* The MutationRecords of the trackers whose snapshot changed, in tracker order.
MutationRecords(before, after) ==
  FlattenSeq([t \in DOMAIN after |->
    IF before[t] # after[t] THEN <<MutationRecord(t, before, after)>> ELSE <<>>])

\* Mutant: the callback takes the block's baseline anew as well.
OnTxStart_Baseline(o, txIndex, snaps) ==
  IF txIndex < o.txCount
    THEN [o EXCEPT !.writeSets[txIndex] = {}, !.snapshots[txIndex] = snaps, !.blockSnapshots = snaps]
    ELSE o

\* snaps: what SnapshotOutOfKVStoreState returns for each tracker at this moment.
OnTxStart(o, txIndex, snaps) ==
  IF txIndex < o.txCount
    THEN [o EXCEPT !.writeSets[txIndex] = {}, !.snapshots[txIndex] = snaps]
    ELSE o

\* Mutant: bounds check off by one.
OnKVWrite_OffByOne(o, keys, txIndex) ==
  IF txIndex < o.txCount - 1 THEN [o EXCEPT !.writeSets[txIndex] = @ \cup keys] ELSE o

OnKVWrite(o, keys, txIndex) ==
  IF txIndex < o.txCount
    THEN [o EXCEPT !.writeSets[txIndex] = @ \cup keys]
    ELSE o

OnTxEnd(o, txIndex, snaps) ==
  IF txIndex >= o.txCount \/ o.ntrackers = 0
    THEN o
    ELSE [o EXCEPT !.mutSets[txIndex] =
                     @ \o MutationRecords(o.snapshots[txIndex], snaps)]

TxWriteSet(o, txIndex) ==
  IF txIndex < o.txCount THEN o.writeSets[txIndex] ELSE {}

TxMutations(o, txIndex) ==
  IF txIndex < o.txCount THEN o.mutSets[txIndex] ELSE <<>>

\* One call per element of ms; a block without transactions has no slot for them.
AddBlockMutations(o, ms) ==
  IF o.txCount > 0 THEN [o EXCEPT !.mutSets[0] = @ \o ms] ELSE o

CaptureBeforeBlock(o, snaps) ==
  IF o.ntrackers = 0 THEN o ELSE [o EXCEPT !.blockSnapshots = snaps]

CaptureAfterBlock(o, snaps) ==
  IF o.ntrackers = 0 \/ o.txCount = 0
    THEN o
    ELSE [o EXCEPT !.mutSets[0] = @ \o MutationRecords(o.blockSnapshots, snaps)]

(***************************************************************************)
(* The loop the SDK's executeTxsWithExecutor runs after txRunner.Run has    *)
(* returned: OnTxStart(i); OnTxEnd(i) for every i in order.  Nothing        *)
(* executes in between, so every OnTxEnd compares equal snapshots and the   *)
(* loop's net effect is that of its OnTxStart calls.                        *)
(***************************************************************************)
PostHocLoop(o, snaps) ==
  [o EXCEPT !.writeSets = [i \in DOMAIN @ |-> {}],
            !.snapshots = [i \in DOMAIN @ |-> snaps]]
================================================================================
