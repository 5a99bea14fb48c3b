----------------------------- MODULE CompareProofs -----------------------------
(***************************************************************************)
(* What the comparison loops of compare.Run and of repeatCompareResponses   *)
(* report, and what the callbacks of a BlockObserver do to it, for blocks   *)
(* of any length and with any values in them.                               *)
(***************************************************************************)
EXTENDS CompareOps, DataLemmas

\* The loop over a column: exactly the positions at which the columns differ are reported.
LEMMA TxFindingsExact ==
  ASSUME NEW n \in Nat, NEW os, DOMAIN os = 1 .. n, NEW ps,
         NEW height, NEW dim, NEW probe
  PROVE  /\ ASequence(TxFindings(height, dim, probe, os, ps))
         /\ \A x : Occurs(x, TxFindings(height, dim, probe, os, ps)) <=>
              \E i \in 1 .. n : os[i] # ps[i] /\ x = NewFinding(height, dim, i - 1, probe, <<os[i], ps[i]>>)
<1> DEFINE f(i) == NewFinding(height, dim, i - 1, probe, <<os[i], ps[i]>>)
           part(i) == IF os[i] # ps[i] THEN <<f(i)>> ELSE <<>>
           parts == [i \in 1 .. n |-> part(i)]
<1>1. \A i \in 1 .. n : ASequence(part(i)) /\ \A x : Occurs(x, part(i)) <=> os[i] # ps[i] /\ x = f(i)
  <2> HIDE DEF f
  <2> QED  BY ASequenceOne
<1>2. /\ ASequence(FlattenSeq(parts))
      /\ \A x : Occurs(x, FlattenSeq(parts)) <=> \E i \in 1 .. n : Occurs(x, parts[i])
  <2> HIDE DEF part
  <2>1. parts = [i \in 1 .. n |-> parts[i]] /\ \A i \in 1 .. n : ASequence(parts[i])  BY <1>1
  <2> HIDE DEF parts
  <2>2. QED  BY <2>1, ASequenceFlatten
<1>3. \A i \in 1 .. n : parts[i] = part(i)  OBVIOUS
<1>4. TxFindings(height, dim, probe, os, ps) = FlattenSeq(parts)
  BY DEF TxFindings
<1>5. QED
  <2> HIDE DEF part, parts
  <2> QED  BY <1>1, <1>2, <1>3, <1>4

\* A value for each of n transactions.
IsColumn(s, n) == s = [k \in 1 .. n |-> s[k]]

\* Nothing is reported of two columns exactly if they are equal.
LEMMA ColumnCompared ==
  ASSUME NEW n \in Nat, NEW os, NEW ps, IsColumn(os, n), IsColumn(ps, n),
         NEW height, NEW dim, NEW probe
  PROVE  /\ ASequence(TxFindings(height, dim, probe, os, ps))
         /\ \A x : Occurs(x, TxFindings(height, dim, probe, os, ps)) => x.dim = dim /\ x.probe = probe
         /\ (\E x : Occurs(x, TxFindings(height, dim, probe, os, ps))) <=> os # ps
<1> DEFINE s == TxFindings(height, dim, probe, os, ps)
           f(k) == NewFinding(height, dim, k - 1, probe, <<os[k], ps[k]>>)
<1>0. DOMAIN os = 1 .. n  BY DEF IsColumn
<1>1. ASequence(s) /\ \A x : Occurs(x, s) <=> \E k \in 1 .. n : os[k] # ps[k] /\ x = f(k)
  BY <1>0, TxFindingsExact
<1>2. \A k : f(k).dim = dim /\ f(k).probe = probe  BY DEF NewFinding
<1>3. os # ps <=> \E k \in 1 .. n : os[k] # ps[k]  BY DEF IsColumn
<1>4. QED
  <2> HIDE DEF s, f
  <2>1. \A x : Occurs(x, s) => x.dim = dim /\ x.probe = probe  BY <1>1, <1>2
  <2>2. (\E x : Occurs(x, s)) <=> os # ps  BY <1>1, <1>3
  <2>3. QED  BY <1>1, <2>1, <2>2 DEF s

-------------------------------------------------------------------------------
(* The observer of a block of n transactions.                                *)

IsObs(o, n) ==
  /\ DOMAIN o = {"txCount", "ntrackers", "writeSets", "snapshots", "blockSnapshots", "mutSets"}
  /\ o = [x \in DOMAIN o |-> o[x]]
  /\ o.txCount = n
  /\ o.writeSets = [i \in TxIndices(n) |-> o.writeSets[i]]
  /\ o.snapshots = [i \in TxIndices(n) |-> o.snapshots[i]]
  /\ o.mutSets = [i \in TxIndices(n) |-> o.mutSets[i]]

\* NewBlockObserver has one empty slot per transaction.
LEMMA NewObs ==
  ASSUME NEW n \in Nat, NEW k
  PROVE  /\ IsObs(NewBlockObserver(n, k), n)
         /\ \A i \in TxIndices(n) : NewBlockObserver(n, k).mutSets[i] = <<>>
BY DEF IsObs, NewBlockObserver

\* OnTxStart empties the write set and takes the snapshot of its own transaction only.
LEMMA OnTxStartObs ==
  ASSUME NEW n \in Nat, NEW o, IsObs(o, n), NEW i \in TxIndices(n), NEW snaps
  PROVE  /\ IsObs(OnTxStart(o, i, snaps), n)
         /\ OnTxStart(o, i, snaps).mutSets = o.mutSets
         /\ OnTxStart(o, i, snaps).writeSets[i] = {}
         /\ OnTxStart(o, i, snaps).snapshots[i] = snaps
         /\ \A j \in TxIndices(n) \ {i} :
              /\ OnTxStart(o, i, snaps).writeSets[j] = o.writeSets[j]
              /\ OnTxStart(o, i, snaps).snapshots[j] = o.snapshots[j]
<1>1. OnTxStart(o, i, snaps) = [o EXCEPT !.writeSets[i] = {}, !.snapshots[i] = snaps]
  BY DEF OnTxStart, IsObs, TxIndices
<1> DEFINE p == OnTxStart(o, i, snaps)
<1>2. /\ IsObs(p, n) /\ p.mutSets = o.mutSets
      /\ p.writeSets = [o.writeSets EXCEPT ![i] = {}] /\ p.snapshots = [o.snapshots EXCEPT ![i] = snaps]
  BY <1>1 DEF IsObs
<1>3. DOMAIN o.writeSets = TxIndices(n) /\ DOMAIN o.snapshots = TxIndices(n)  BY DEF IsObs
<1> HIDE DEF p
<1>4. p.writeSets[i] = {} /\ \A j \in TxIndices(n) \ {i} : p.writeSets[j] = o.writeSets[j]
  BY <1>2, <1>3
<1>5. p.snapshots[i] = snaps /\ \A j \in TxIndices(n) \ {i} : p.snapshots[j] = o.snapshots[j]
  BY <1>2, <1>3
<1>6. QED  BY <1>2, <1>4, <1>5 DEF p

\* OnKVWrite adds keys to the write set of its own transaction only.
LEMMA OnKVWriteObs ==
  ASSUME NEW n \in Nat, NEW o, IsObs(o, n), NEW i \in TxIndices(n), NEW keys
  PROVE  /\ IsObs(OnKVWrite(o, keys, i), n)
         /\ OnKVWrite(o, keys, i).mutSets = o.mutSets
         /\ OnKVWrite(o, keys, i).snapshots = o.snapshots
         /\ OnKVWrite(o, keys, i).writeSets[i] = o.writeSets[i] \cup keys
         /\ \A j \in TxIndices(n) \ {i} : OnKVWrite(o, keys, i).writeSets[j] = o.writeSets[j]
<1>1. OnKVWrite(o, keys, i) = [o EXCEPT !.writeSets[i] = @ \cup keys]
  BY DEF OnKVWrite, IsObs, TxIndices
<1> DEFINE p == OnKVWrite(o, keys, i)
<1>2. /\ IsObs(p, n) /\ p.mutSets = o.mutSets /\ p.snapshots = o.snapshots
      /\ p.writeSets = [o.writeSets EXCEPT ![i] = @ \cup keys]
  BY <1>1 DEF IsObs
<1>3. DOMAIN o.writeSets = TxIndices(n)  BY DEF IsObs
<1> HIDE DEF p
<1>4. p.writeSets[i] = o.writeSets[i] \cup keys /\ \A j \in TxIndices(n) \ {i} : p.writeSets[j] = o.writeSets[j]
  BY <1>2, <1>3
<1>5. QED  BY <1>2, <1>4 DEF p

\* The loop over the trackers: exactly those whose snapshot changed are recorded.
LEMMA MutationRecordsExact ==
  ASSUME NEW n \in Nat, NEW before, NEW after, DOMAIN after = 1 .. n
  PROVE  /\ ASequence(MutationRecords(before, after))
         /\ \A x : Occurs(x, MutationRecords(before, after)) <=>
              \E t \in 1 .. n : before[t] # after[t] /\ x = MutationRecord(t, before, after)
<1> DEFINE part(t) == IF before[t] # after[t] THEN <<MutationRecord(t, before, after)>> ELSE <<>>
           parts == [t \in 1 .. n |-> part(t)]
<1>1. \A t \in 1 .. n : /\ ASequence(part(t))
                       /\ \A x : Occurs(x, part(t)) <=> before[t] # after[t] /\ x = MutationRecord(t, before, after)
  BY ASequenceOne
<1>2. /\ ASequence(FlattenSeq(parts))
      /\ \A x : Occurs(x, FlattenSeq(parts)) <=> \E t \in 1 .. n : Occurs(x, parts[t])
  <2> HIDE DEF part
  <2>1. parts = [t \in 1 .. n |-> parts[t]] /\ \A t \in 1 .. n : ASequence(parts[t])  BY <1>1
  <2> HIDE DEF parts
  <2>2. QED  BY <2>1, ASequenceFlatten
<1>3. \A t \in 1 .. n : parts[t] = part(t)  OBVIOUS
<1>4. MutationRecords(before, after) = FlattenSeq(parts)
  BY DEF MutationRecords
<1>5. QED
  <2> HIDE DEF part, parts
  <2> QED  BY <1>1, <1>2, <1>3, <1>4

\* ms are added to the mutations of transaction i, and nothing else changes.
Extended(o, p, i, ms) ==
  /\ p.writeSets = o.writeSets /\ p.snapshots = o.snapshots
  /\ p.mutSets = [o.mutSets EXCEPT ![i] = @ \o ms]

\* OnTxEnd adds to its own slot what changed since the snapshot, or does nothing.
LEMMA OnTxEndObs ==
  ASSUME NEW n \in Nat, NEW o, IsObs(o, n), NEW i \in TxIndices(n), NEW snaps
  PROVE  /\ IsObs(OnTxEnd(o, i, snaps), n)
         /\ \/ OnTxEnd(o, i, snaps) = o
            \/ Extended(o, OnTxEnd(o, i, snaps), i, MutationRecords(o.snapshots[i], snaps))
<1>1. CASE o.ntrackers = 0
  BY <1>1 DEF OnTxEnd
<1>2. CASE o.ntrackers # 0
  <2> DEFINE ms == MutationRecords(o.snapshots[i], snaps)
  <2>1. OnTxEnd(o, i, snaps) = [o EXCEPT !.mutSets[i] = @ \o ms]
    BY <1>2 DEF OnTxEnd, IsObs, TxIndices
  <2> HIDE DEF ms
  <2>2. QED  BY <2>1 DEF IsObs, Extended, ms
<1>3. QED  BY <1>1, <1>2

\* Block-level mutations go to slot 0; a block without transactions drops them.
LEMMA AddBlockMutationsObs ==
  ASSUME NEW n \in Nat, NEW o, IsObs(o, n), NEW ms
  PROVE  /\ IsObs(AddBlockMutations(o, ms), n)
         /\ n = 0 => AddBlockMutations(o, ms) = o
         /\ n > 0 => Extended(o, AddBlockMutations(o, ms), 0, ms)
<1>1. CASE n = 0
  <2>1. o.txCount = 0  BY <1>1 DEF IsObs
  <2>2. AddBlockMutations(o, ms) = o  BY <2>1 DEF AddBlockMutations
  <2>3. IsObs(AddBlockMutations(o, ms), n)  BY <2>2
  <2>4. ~(n > 0)  BY <1>1
  <2>5. QED  BY <2>2, <2>3, <2>4
<1>2. CASE n > 0
  <2>1. AddBlockMutations(o, ms) = [o EXCEPT !.mutSets[0] = @ \o ms] /\ 0 \in TxIndices(n)
    BY <1>2 DEF AddBlockMutations, IsObs, TxIndices
  <2>2. IsObs(AddBlockMutations(o, ms), n) /\ Extended(o, AddBlockMutations(o, ms), 0, ms)
    BY <2>1 DEF IsObs, Extended
  <2>3. n # 0  BY <1>2
  <2>4. QED  BY <2>2, <2>3
<1>3. QED  BY <1>1, <1>2

\* The callbacks that are fired after the block leave the write sets empty and report no
\* mutation.
LEMMA PostHocLoopObs ==
  ASSUME NEW n \in Nat, NEW o, IsObs(o, n), NEW snaps
  PROVE  /\ IsObs(PostHocLoop(o, snaps), n) /\ PostHocLoop(o, snaps).mutSets = o.mutSets
         /\ \A i \in TxIndices(n) : PostHocLoop(o, snaps).writeSets[i] = {}
BY DEF PostHocLoop, IsObs

-------------------------------------------------------------------------------
(* The findings of a block.                                                  *)

\* The mutations of a block: a finding for each, under its transaction.
LEMMA MutationFindingsExact ==
  ASSUME NEW n \in Nat, NEW m \in Nat, m <= n, NEW o, IsObs(o, n),
         \A i \in TxIndices(n) : ASequence(o.mutSets[i]), NEW height
  PROVE  /\ ASequence(MutationFindings(height, m, n, o))
         /\ \A x : Occurs(x, MutationFindings(height, m, n, o)) <=>
              \E i \in TxIndices(n) : \E y : /\ Occurs(y, o.mutSets[i])
                                           /\ x = NewFinding(height, "out_of_kvstore", i, 0, y)
<1> DEFINE F(i, y) == NewFinding(height, "out_of_kvstore", i, 0, y)
           part(i) == [k \in DOMAIN o.mutSets[i] |-> F(i, o.mutSets[i][k])]
           parts == [i \in 1 .. n |-> part(i - 1)]
<1>1. Max({m, n}) = n
  <2>1. {m, n} \subseteq Int /\ {m, n} # {} /\ IsFiniteSet({m, n})
    <3>1. {m, n} = {m} \cup {n}  OBVIOUS
    <3>2. IsFiniteSet({m}) /\ IsFiniteSet({n})  BY FS_Singleton
    <3>3. IsFiniteSet({m} \cup {n})  BY <3>2, FS_Union
    <3>4. IsFiniteSet({m, n})  BY <3>1, <3>3
    <3>5. QED  BY <3>4
  <2>2. Max({m, n}) \in {m, n} /\ \A y \in {m, n} : y <= Max({m, n})  BY <2>1, MaxOfFinite
  <2>3. QED  BY <2>2
<1>2. \A i \in 1 .. n : i - 1 \in TxIndices(n) /\ TxMutations(o, i - 1) = o.mutSets[i - 1]
  BY DEF TxMutations, TxIndices, IsObs
<1>3. MutationFindings(height, m, n, o) = FlattenSeq(parts)
  BY <1>1, <1>2 DEF MutationFindings
<1>4. ASSUME NEW i \in TxIndices(n)
      PROVE  ASequence(part(i)) /\ \A x : Occurs(x, part(i)) <=> \E y : Occurs(y, o.mutSets[i]) /\ x = F(i, y)
  <2> DEFINE s == o.mutSets[i]
  <2>1. s \in Seq(Range(s))  BY <1>4 DEF ASequence
  <2> HIDE DEF s, F
  <2>2. [k \in DOMAIN s |-> F(i, s[k])] \in Seq({F(i, y) : y \in Range(s)})
    <3>1. Len(s) \in Nat /\ DOMAIN s = 1 .. Len(s) /\ \A k \in DOMAIN s : s[k] \in Range(s)
      <4> HIDE DEF Range
      <4> QED  BY <2>1
    <3>2. [k \in 1 .. Len(s) |-> F(i, s[k])] \in [1 .. Len(s) -> {F(i, y) : y \in Range(s)}]
      <4> HIDE DEF Range
      <4> QED  BY <3>1
    <3>3. QED
      <4> HIDE DEF Range
      <4> QED  BY <3>1, <3>2
  <2>3. ASequence([k \in DOMAIN s |-> F(i, s[k])])  BY <2>2, SeqIsASequence
  <2>4. \A x : Occurs(x, [k \in DOMAIN s |-> F(i, s[k])]) <=> \E y : Occurs(y, s) /\ x = F(i, y)
    BY DEF Occurs
  <2>5. part(i) = [k \in DOMAIN s |-> F(i, s[k])]  BY DEF s
  <2> HIDE DEF part
  <2>6. QED  BY <2>3, <2>4, <2>5 DEF s
<1> HIDE DEF F, part
<1>5. /\ parts = [i \in 1 .. n |-> parts[i]]
      /\ \A i \in 1 .. n : parts[i] = part(i - 1)
  OBVIOUS
<1> HIDE DEF parts
<1>6. \A i \in 1 .. n : ASequence(parts[i])  BY <1>2, <1>4, <1>5
<1>7. /\ ASequence(FlattenSeq(parts))
      /\ \A x : Occurs(x, FlattenSeq(parts)) <=> \E i \in 1 .. n : Occurs(x, parts[i])
  BY <1>5, <1>6, ASequenceFlatten
<1>8. \A x : (\E i \in 1 .. n : Occurs(x, parts[i])) <=> \E i \in TxIndices(n) : Occurs(x, part(i))
  <2>1. ASSUME NEW x, NEW i \in TxIndices(n), Occurs(x, part(i)) PROVE \E j \in 1 .. n : Occurs(x, parts[j])
    <3>1. i + 1 \in 1 .. n /\ (i + 1) - 1 = i  BY DEF TxIndices
    <3>2. parts[i + 1] = part(i)  BY <1>5, <3>1
    <3>3. QED  BY <2>1, <3>1, <3>2
  <2>2. QED  BY <1>2, <1>5, <2>1
<1>9. QED  BY <1>3, <1>4, <1>7, <1>8 DEF F

\* A response with n transaction results.
HasResults(r, n) == r.txResults = [k \in 1 .. n |-> r.txResults[k]]

\* Two observed blocks with n results each are compared over n transactions.
LEMMA ResultCount ==
  ASSUME NEW n \in Nat, NEW o, NEW p, HasResults(o, n), HasResults(p, n)
  PROVE  TxCount(o, p) = n
<1>1. Len(o.txResults) = n /\ Len(p.txResults) = n
  <2>1. DOMAIN o.txResults = 1 .. n /\ DOMAIN p.txResults = 1 .. n  BY DEF HasResults
  <2>2. ASSUME NEW r, HasResults(r, n) PROVE Len(r.txResults) = n
    <3>1. r.txResults \in [1 .. n -> Range(r.txResults)]
      <4>1. \A k \in 1 .. n : r.txResults[k] \in Range(r.txResults)  BY <2>2 DEF HasResults, Range
      <4> HIDE DEF Range
      <4> QED  BY <2>2, <4>1 DEF HasResults
    <3>2. QED
      <4> HIDE DEF Range
      <4> QED  BY <3>1
  <2>3. QED  BY <2>2
<1>2. QED  BY <1>1 DEF TxCount

\* The columns compare.Run compares.
Codes(r, n) == [i \in 1 .. n |-> r.txResults[i].code]
Gas(r, n) == [i \in 1 .. n |-> r.txResults[i].gas]
Events(r, n) == [i \in 1 .. n |-> FormatEvents(r.txResults[i].events)]
WriteSets(obs, n) == [i \in 1 .. n |-> TxWriteSet(obs, i - 1)]

\* x is the finding of a position at which two columns differ.
ReportsDiff(x, height, dim, os, ps, n) ==
  \E i \in 1 .. n : os[i] # ps[i] /\ x = NewFinding(height, dim, i - 1, 0, <<os[i], ps[i]>>)

\* The findings about the responses and the keepers, which come first.
StateFindings(height, o, p, n, oObs, pObs) ==
  ResponseFindings(height, o, p, oObs, pObs) \o MutationFindings(height, TxCount(o, p), n, oObs)

\* They are those of the loops of compare.Run, each under its own dimension.
LEMMA StateFindingsExact ==
  ASSUME NEW n \in Nat, NEW o, NEW p, HasResults(o, n), HasResults(p, n),
         NEW oObs, NEW pObs, IsObs(oObs, n),
         \A i \in TxIndices(n) : ASequence(oObs.mutSets[i]),
         NEW height
  PROVE  /\ ASequence(StateFindings(height, o, p, n, oObs, pObs))
         /\ \A x : Occurs(x, StateFindings(height, o, p, n, oObs, pObs)) <=>
              \/ Occurs(x, AppHashFindings(height, o, p))
              \/ ReportsDiff(x, height, "error_code", Codes(o, n), Codes(p, n), n)
              \/ ReportsDiff(x, height, "gas", Gas(o, n), Gas(p, n), n)
              \/ ReportsDiff(x, height, "events", Events(o, n), Events(p, n), n)
              \/ ReportsDiff(x, height, "write_set", WriteSets(oObs, n), WriteSets(pObs, n), n)
              \/ Occurs(x, MutationFindings(height, n, n, oObs))
<1> DEFINE A == AppHashFindings(height, o, p)
           C == TxFindings(height, "error_code", 0, Codes(o, n), Codes(p, n))
           G == TxFindings(height, "gas", 0, Gas(o, n), Gas(p, n))
           V == TxFindings(height, "events", 0, Events(o, n), Events(p, n))
           W == TxFindings(height, "write_set", 0, WriteSets(oObs, n), WriteSets(pObs, n))
           M == MutationFindings(height, n, n, oObs)
<1>1. TxCount(o, p) = n  BY ResultCount
<1>2. StateFindings(height, o, p, n, oObs, pObs) = ((((A \o C) \o G) \o V) \o W) \o M
  BY <1>1 DEF StateFindings, ResponseFindings, Codes, Gas, Events, WriteSets
<1>3. ASequence(A)  BY ASequenceOne DEF AppHashFindings
<1>4. ASequence(C) /\ \A x : Occurs(x, C) <=> ReportsDiff(x, height, "error_code", Codes(o, n), Codes(p, n), n)
  <2>1. DOMAIN Codes(o, n) = 1 .. n  BY DEF Codes
  <2>2. QED  BY <2>1, TxFindingsExact DEF ReportsDiff
<1>5. ASequence(G) /\ \A x : Occurs(x, G) <=> ReportsDiff(x, height, "gas", Gas(o, n), Gas(p, n), n)
  <2>1. DOMAIN Gas(o, n) = 1 .. n  BY DEF Gas
  <2>2. QED  BY <2>1, TxFindingsExact DEF ReportsDiff
<1>6. ASequence(V) /\ \A x : Occurs(x, V) <=> ReportsDiff(x, height, "events", Events(o, n), Events(p, n), n)
  <2>1. DOMAIN Events(o, n) = 1 .. n  BY DEF Events
  <2>2. QED  BY <2>1, TxFindingsExact DEF ReportsDiff
<1>7. /\ ASequence(W)
      /\ \A x : Occurs(x, W) <=> ReportsDiff(x, height, "write_set", WriteSets(oObs, n), WriteSets(pObs, n), n)
  <2>1. DOMAIN WriteSets(oObs, n) = 1 .. n  BY DEF WriteSets
  <2>2. QED  BY <2>1, TxFindingsExact DEF ReportsDiff
<1>8. ASequence(M)
  BY MutationFindingsExact, n <= n
<1> HIDE DEF A, C, G, V, W, M
<1>9. ASequence(A \o C) /\ \A x : Occurs(x, A \o C) <=> Occurs(x, A) \/ Occurs(x, C)
  BY <1>3, <1>4, ASequenceConcat
<1> DEFINE AC == A \o C
<1> HIDE DEF AC
<1>10. ASequence(AC \o G) /\ \A x : Occurs(x, AC \o G) <=> Occurs(x, A) \/ Occurs(x, C) \/ Occurs(x, G)
  BY <1>5, <1>9, ASequenceConcat DEF AC
<1> DEFINE ACG == AC \o G
<1> HIDE DEF ACG
<1>11. /\ ASequence(ACG \o V)
       /\ \A x : Occurs(x, ACG \o V) <=> Occurs(x, A) \/ Occurs(x, C) \/ Occurs(x, G) \/ Occurs(x, V)
  BY <1>6, <1>10, ASequenceConcat DEF ACG
<1> DEFINE ACGV == ACG \o V
<1> HIDE DEF ACGV
<1>12. /\ ASequence(ACGV \o W)
       /\ \A x : Occurs(x, ACGV \o W) <=>
            Occurs(x, A) \/ Occurs(x, C) \/ Occurs(x, G) \/ Occurs(x, V) \/ Occurs(x, W)
  BY <1>7, <1>11, ASequenceConcat DEF ACGV
<1> DEFINE R == ACGV \o W
<1> HIDE DEF R
<1>13. ASequence(R \o M) /\ \A x : Occurs(x, R \o M) <=> Occurs(x, R) \/ Occurs(x, M)
  BY <1>8, <1>12, ASequenceConcat DEF R
<1>14. StateFindings(height, o, p, n, oObs, pObs) = R \o M  BY <1>2 DEF AC, ACG, ACGV, R
<1>15. QED
  BY <1>4, <1>5, <1>6, <1>7, <1>12, <1>13, <1>14 DEF R, A, M

\* The findings about the block context and about non-deterministic calls, which follow.
LEMMA LaterFindings ==
  ASSUME NEW muts, NEW calls, ASequence(muts), ASequence(calls), NEW height
  PROVE  ASequence(BlockContextFindings(height, muts)) /\ ASequence(NonDetFindings(height, calls))
<1> DEFINE B == BlockContextFindings(height, muts)
           D == NonDetFindings(height, calls)
<1>1. ASequence(B)
  <2>1. B = [k \in DOMAIN muts |-> B[k]]  BY DEF BlockContextFindings
  <2> HIDE DEF B
  <2>2. QED  BY <2>1, ASequenceMap
<1>2. ASequence(D)
  <2>1. D = [k \in DOMAIN calls |-> D[k]]  BY DEF NonDetFindings
  <2> HIDE DEF D
  <2>2. QED  BY <2>1, ASequenceMap
<1>3. QED  BY <1>1, <1>2

\* The findings of compare.Run are those of its loops, each under its own dimension.
LEMMA RunFindingsExact ==
  ASSUME NEW n \in Nat, NEW o, NEW p, HasResults(o, n), HasResults(p, n),
         NEW oObs, NEW pObs, IsObs(oObs, n),
         \A i \in TxIndices(n) : ASequence(oObs.mutSets[i]),
         NEW muts, NEW calls, ASequence(muts), ASequence(calls), NEW height
  PROVE  /\ ASequence(RunFindings(height, o, p, n, oObs, pObs, muts, calls))
         /\ \A x : Occurs(x, RunFindings(height, o, p, n, oObs, pObs, muts, calls)) <=>
              \/ Occurs(x, AppHashFindings(height, o, p))
              \/ ReportsDiff(x, height, "error_code", Codes(o, n), Codes(p, n), n)
              \/ ReportsDiff(x, height, "gas", Gas(o, n), Gas(p, n), n)
              \/ ReportsDiff(x, height, "events", Events(o, n), Events(p, n), n)
              \/ ReportsDiff(x, height, "write_set", WriteSets(oObs, n), WriteSets(pObs, n), n)
              \/ Occurs(x, MutationFindings(height, n, n, oObs))
              \/ Occurs(x, BlockContextFindings(height, muts))
              \/ Occurs(x, NonDetFindings(height, calls))
<1> DEFINE X == StateFindings(height, o, p, n, oObs, pObs)
           B == BlockContextFindings(height, muts)
           D == NonDetFindings(height, calls)
           F == RunFindings(height, o, p, n, oObs, pObs, muts, calls)
<1>1. /\ ASequence(X)
      /\ \A x : Occurs(x, X) <=>
              \/ Occurs(x, AppHashFindings(height, o, p))
              \/ ReportsDiff(x, height, "error_code", Codes(o, n), Codes(p, n), n)
              \/ ReportsDiff(x, height, "gas", Gas(o, n), Gas(p, n), n)
              \/ ReportsDiff(x, height, "events", Events(o, n), Events(p, n), n)
              \/ ReportsDiff(x, height, "write_set", WriteSets(oObs, n), WriteSets(pObs, n), n)
              \/ Occurs(x, MutationFindings(height, n, n, oObs))
  BY StateFindingsExact
<1>2. ASequence(B) /\ ASequence(D) /\ F = (X \o B) \o D
  <2>1. ASequence(B) /\ ASequence(D)  BY LaterFindings
  <2>2. F = (X \o B) \o D  BY DEF RunFindings, StateFindings
  <2>3. QED  BY <2>1, <2>2
<1> HIDE DEF X, B, D, F
<1>3. ASequence(X \o B) /\ \A x : Occurs(x, X \o B) <=> Occurs(x, X) \/ Occurs(x, B)
  BY <1>1, <1>2, ASequenceConcat
<1> DEFINE XB == X \o B
<1> HIDE DEF XB
<1>4. ASequence(XB \o D) /\ \A x : Occurs(x, XB \o D) <=> Occurs(x, X) \/ Occurs(x, B) \/ Occurs(x, D)
  BY <1>2, <1>3, ASequenceConcat DEF XB
<1>5. ASequence(F) /\ \A x : Occurs(x, F) <=> Occurs(x, X) \/ Occurs(x, B) \/ Occurs(x, D)
  BY <1>2, <1>4 DEF XB
<1>6. QED  BY <1>1, <1>5 DEF F, B, D

\* After position d of the findings F come those of muts, and no other is about the block
\* context.
CtxAfter(F, d, muts) ==
  /\ \A k \in DOMAIN muts : /\ d + k \in DOMAIN F /\ F[d + k].dim = "block_context"
                            /\ F[d + k].tx = muts[k].writerTx /\ F[d + k].item = muts[k]
  /\ \A k \in DOMAIN F : k \in Nat /\ (F[k].dim = "block_context" => k - d \in DOMAIN muts)

\* The block-context findings are one per mutation, in a row.
LEMMA CtxFindingsAt ==
  ASSUME NEW n \in Nat, NEW o, NEW p, HasResults(o, n), HasResults(p, n),
         NEW oObs, NEW pObs, IsObs(oObs, n),
         \A i \in TxIndices(n) : ASequence(oObs.mutSets[i]),
         NEW muts, NEW calls, ASequence(muts), ASequence(calls), NEW height,
         NEW F, F = RunFindings(height, o, p, n, oObs, pObs, muts, calls)
  PROVE  \E d \in Nat : CtxAfter(F, d, muts)
<1> DEFINE X == StateFindings(height, o, p, n, oObs, pObs)
           B == BlockContextFindings(height, muts)
           D == NonDetFindings(height, calls)
<1>1. ASequence(X) /\ ASequence(B) /\ ASequence(D) /\ F = (X \o B) \o D
  <2>1. ASequence(X)  BY StateFindingsExact
  <2>2. ASequence(B) /\ ASequence(D)  BY LaterFindings
  <2>3. F = (X \o B) \o D  BY DEF RunFindings, StateFindings
  <2>4. QED  BY <2>1, <2>2, <2>3
<1>2. \A x : Occurs(x, X) => x.dim # "block_context"
  <2>1. ASSUME NEW x, Occurs(x, X) PROVE x.dim # "block_context"
    <3>1. \/ Occurs(x, AppHashFindings(height, o, p))
          \/ \E dim \in {"error_code", "gas", "events", "write_set"} : \E os, ps : ReportsDiff(x, height, dim, os, ps, n)
          \/ Occurs(x, MutationFindings(height, n, n, oObs))
      BY <2>1, StateFindingsExact
    <3>2. CASE Occurs(x, AppHashFindings(height, o, p))
      BY <3>2 DEF Occurs, AppHashFindings, NewFinding
    <3>3. ASSUME NEW dim \in {"error_code", "gas", "events", "write_set"}, NEW os, NEW ps,
                 ReportsDiff(x, height, dim, os, ps, n)
          PROVE  x.dim # "block_context"
      BY <3>3 DEF ReportsDiff, NewFinding
    <3>4. CASE Occurs(x, MutationFindings(height, n, n, oObs))
      <4>1. PICK i \in TxIndices(n) : \E y : x = NewFinding(height, "out_of_kvstore", i, 0, y)
        BY <3>4, MutationFindingsExact, n <= n
      <4>2. QED  BY <4>1 DEF NewFinding
    <3>5. QED  BY <3>1, <3>2, <3>3, <3>4
  <2>2. QED  BY <2>1
<1>3. DOMAIN B = DOMAIN muts /\ \A k \in DOMAIN muts : B[k] = NewFinding(height, "block_context", muts[k].writerTx, 0, muts[k])
  BY DEF BlockContextFindings
<1>4. \A k \in DOMAIN D : D[k].dim # "block_context"  BY DEF NonDetFindings, NewFinding
<1> HIDE DEF X, B, D
<1>5. /\ Len(X) \in Nat /\ Len(B) \in Nat /\ Len(D) \in Nat
      /\ DOMAIN X = 1 .. Len(X) /\ DOMAIN B = 1 .. Len(B) /\ DOMAIN D = 1 .. Len(D)
      /\ DOMAIN F = 1 .. (Len(X) + Len(B)) + Len(D)
      /\ \A k \in 1 .. Len(X) : F[k] = X[k]
      /\ \A k \in 1 .. Len(B) : F[Len(X) + k] = B[k]
      /\ \A k \in 1 .. Len(D) : F[(Len(X) + Len(B)) + k] = D[k]
  <2> DEFINE Y == X \o B
  <2>1. ASequence(Y)  BY <1>1, ASequenceConcat
  <2>2. /\ Len(X) \in Nat /\ Len(B) \in Nat /\ DOMAIN X = 1 .. Len(X) /\ DOMAIN B = 1 .. Len(B)
        /\ Len(Y) = Len(X) + Len(B)
        /\ (\A k \in 1 .. Len(X) : Y[k] = X[k]) /\ (\A k \in 1 .. Len(B) : Y[Len(X) + k] = B[k])
    BY <1>1, ASequenceAt
  <2> HIDE DEF Y
  <2>3. /\ Len(D) \in Nat /\ DOMAIN D = 1 .. Len(D) /\ DOMAIN (Y \o D) = 1 .. Len(Y) + Len(D)
        /\ (\A k \in 1 .. Len(Y) : (Y \o D)[k] = Y[k]) /\ (\A k \in 1 .. Len(D) : (Y \o D)[Len(Y) + k] = D[k])
    BY <1>1, <2>1, ASequenceAt
  <2>4. F = Y \o D  BY <1>1 DEF Y
  <2>5. \A k \in 1 .. Len(X) : k \in 1 .. Len(Y)  BY <2>2
  <2>6. \A k \in 1 .. Len(B) : Len(X) + k \in 1 .. Len(Y)  BY <2>2
  <2>7. QED  BY <2>2, <2>3, <2>4, <2>5, <2>6
<1>6. ASSUME NEW k \in DOMAIN F, F[k].dim = "block_context" PROVE k - Len(X) \in DOMAIN muts
  <2>1. ~(k <= Len(X))  BY <1>2, <1>5, <1>6 DEF Occurs
  <2>2. ASSUME k > Len(X) + Len(B) PROVE FALSE
    <3>1. k - (Len(X) + Len(B)) \in 1 .. Len(D)  BY <1>5, <2>2
    <3>2. F[(Len(X) + Len(B)) + (k - (Len(X) + Len(B)))] = D[k - (Len(X) + Len(B))]  BY <1>5, <3>1
    <3>3. (Len(X) + Len(B)) + (k - (Len(X) + Len(B))) = k  BY <1>5
    <3>4. QED  BY <1>4, <1>5, <1>6, <3>1, <3>2, <3>3
  <2>3. QED  BY <1>3, <1>5, <2>1, <2>2
<1>7. ASSUME NEW k \in DOMAIN muts
      PROVE  /\ Len(X) + k \in DOMAIN F /\ F[Len(X) + k].dim = "block_context"
             /\ F[Len(X) + k].tx = muts[k].writerTx /\ F[Len(X) + k].item = muts[k]
  <2>1. Len(X) + k \in DOMAIN F /\ F[Len(X) + k] = B[k]  BY <1>3, <1>5
  <2>2. QED  BY <1>3, <2>1 DEF NewFinding
<1>8. \A k \in DOMAIN F : k \in Nat  BY <1>5
<1>9. CtxAfter(F, Len(X), muts)  BY <1>6, <1>7, <1>8 DEF CtxAfter
<1>10. QED  BY <1>5, <1>9
================================================================================
