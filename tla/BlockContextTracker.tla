-------------------------- MODULE BlockContextTracker --------------------------
(***************************************************************************)
(* compare.BlockContextTracker as operators on a record.  fields maps the   *)
(* names the tracker knows to their value and the readers since the last    *)
(* write; currentTx is -1 outside a transaction.  Every method holds the    *)
(* tracker's mutex, so each is one atomic step.                             *)
(***************************************************************************)
EXTENDS Integers, Sequences, TLC

NoValue == ""

Reset(initial) ==
  [fields    |-> [f \in DOMAIN initial |-> [value |-> initial[f], readers |-> <<>>]],
   currentTx |-> -1,
   mutations |-> <<>>]

SetCurrentTx(t, txIndex) == [t EXCEPT !.currentTx = txIndex]

\* The value read plays no role.  A reader is noted once per run of consecutive reads, and only inside a tx.
ReadField(t, name) ==
  LET rs == t.fields[name].readers
  IN  IF /\ name \in DOMAIN t.fields
         /\ t.currentTx >= 0
         /\ rs = <<>> \/ rs[Len(rs)] # t.currentTx
        THEN [t EXCEPT !.fields[name].readers = Append(@, t.currentTx)]
        ELSE t

\* Mutant: the readers are not cleared by a write.
WriteField_KeepsReaders(t, name, value) ==
  [t EXCEPT
     !.mutations = Append(@, [field    |-> name, before |-> t.fields[name].value,
                              after    |-> value, writerTx |-> t.currentTx,
                              readerTxs |-> t.fields[name].readers]),
     !.fields[name].value = value]

WriteField(t, name, value) ==
  LET old == IF name \in DOMAIN t.fields THEN t.fields[name]
                                         ELSE [value |-> NoValue, readers |-> <<>>]
  IN  [t EXCEPT
         !.mutations = Append(@, [field    |-> name, before |-> old.value,
                                  after    |-> value, writerTx |-> t.currentTx,
                                  readerTxs |-> old.readers]),
         !.fields = [f \in DOMAIN @ \cup {name} |->
                       IF f = name THEN [value |-> value, readers |-> <<>>] ELSE @[f]]]
================================================================================
