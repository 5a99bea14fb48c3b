------------------------------ MODULE ConflictSink ------------------------------
(***************************************************************************)
(* compare.ConflictSink and AggregateHotKeys.  A record is [store, key, tx].*)
(* Stores and keys are numbers here, ordered as the code orders strings.    *)
(***************************************************************************)
EXTENDS Integers, Sequences, FiniteSets, SequencesExt

NoStats == [blockSize |-> 0, executed |-> 0]

NewConflictSink == [records |-> <<>>, stats |-> NoStats]

RecordConflicts(s, rs) == [s EXCEPT !.records = @ \o rs]

RecordStats(s, st) == [s EXCEPT !.stats = st]

\* ExecutionStats.Ratio as an exact fraction: <<0, 1>> when there is no block.
Ratio(st) == IF st.blockSize = 0 THEN <<0, 1>> ELSE <<st.executed, st.blockSize>>

HotKeyStat(records, g) ==
  LET own == {n \in DOMAIN records : <<records[n].store, records[n].key>> = g}
  IN  [store |-> g[1], key |-> g[2], conflicts |-> Cardinality(own),
       txs   |-> {records[n].tx : n \in own}]

HotterThan(a, b) ==
  \/ a.conflicts > b.conflicts
  \/ a.conflicts = b.conflicts /\ a.store < b.store
  \/ a.conflicts = b.conflicts /\ a.store = b.store /\ a.key < b.key

\* txs is a set: the code sorts the distinct indices.
AggregateHotKeys(records) ==
  LET groups == {<<records[n].store, records[n].key>> : n \in DOMAIN records}
  IN  SetToSortSeq({HotKeyStat(records, g) : g \in groups}, HotterThan)
================================================================================
