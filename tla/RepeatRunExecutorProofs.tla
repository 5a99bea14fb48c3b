------------------------ MODULE RepeatRunExecutorProofs ------------------------
(***************************************************************************)
(* Proofs about RepeatRunExecutor, for every number of probes, block size   *)
(* and set of responses, and any number of calls and faults.                *)
(***************************************************************************)
EXTENDS RepeatRunExecutor, CompareProofs

Outcomes == {Match, Divergence, "error"}

ControlOK ==
  /\ pc \in {"closed", "idle", "run"} /\ app \in 0 .. N + 1
  /\ height \in [Apps -> Nat] /\ accSeq \in [Apps -> Nat]
  /\ sequences \in Nat /\ signed \in Nat
  /\ DOMAIN res = Apps
  /\ results \in Seq(Outcomes)

\* The heights: the last app is behind for good once a call has failed, so that no later
\* block reaches the comparison.
HeightInv ==
  /\ AppsSettled
  /\ Failed => height[N] < Len(results)

\* The apps that have run the block were at its parent's height, and returned a response.
RunInv ==
  pc = "run" => \A a \in Apps : a < app => HeightOK(a) /\ IsResponse(res[a])

\* Until a call fails, e.sequences and the accounts of all apps advance together, so that
\* every app accepts the block's transactions.
SeqInv ==
  ~Failed =>
    /\ pc = "idle" => \A a \in Apps : accSeq[a] = sequences
    /\ pc = "run" => /\ sequences = signed + BlockSize
                     /\ \A a \in Apps : accSeq[a] = signed
                     /\ \A a \in Apps : a < app => 32 \notin ToSet(res[a].codes)

IInv ==
  /\ ControlOK /\ HeightInv /\ RunInv /\ SeqInv
  /\ AllPairsCompared /\ BlameIsExact /\ SequencesInStep

-------------------------------------------------------------------------------
(* The comparison.                                                           *)

\* There is an oracle and at least one probe.
LEMMA NumApps == N \in Nat /\ N >= 1 /\ 0 \in Apps /\ 1 \in Apps /\ N \in Apps
<1>1. N \in Nat /\ N >= 1  BY RepeatAssumption DEF N
<1>2. QED  BY <1>1 DEF Apps

\* One pair of apps: every finding carries the pair's index, and there is one exactly if
\* the responses differ.
LEMMA PairCompared ==
  ASSUME NEW left, NEW right, IsResponse(left), IsResponse(right), NEW i
  PROVE  /\ ASequence(repeatCompareResponses(left, right, i))
         /\ \A x : Occurs(x, repeatCompareResponses(left, right, i)) => x.probe = i
         /\ (\E x : Occurs(x, repeatCompareResponses(left, right, i))) <=> left # right
<1> DEFINE hash == IF left.appHash # right.appHash
                     THEN <<NewFinding(BlockHeight, "app_hash", -1, i, <<left.appHash, right.appHash>>)>>
                     ELSE <<>>
           code == TxFindings(BlockHeight, "error_code", i, left.codes, right.codes)
           ws == TxFindings(BlockHeight, "write_set", i, left.ws, right.ws)
<1>0. BlockSize \in Nat  BY RepeatAssumption
<1>1. /\ ASequence(hash) /\ \A x : Occurs(x, hash) => x.probe = i
      /\ (\E x : Occurs(x, hash)) <=> left.appHash # right.appHash
  BY ASequenceOne DEF NewFinding
<1>2. /\ ASequence(code) /\ \A x : Occurs(x, code) => x.probe = i
      /\ (\E x : Occurs(x, code)) <=> left.codes # right.codes
  <2>1. IsColumn(left.codes, BlockSize) /\ IsColumn(right.codes, BlockSize)  BY DEF IsResponse, IsColumn
  <2>2. QED  BY <1>0, <2>1, ColumnCompared
<1>3. /\ ASequence(ws) /\ \A x : Occurs(x, ws) => x.probe = i
      /\ (\E x : Occurs(x, ws)) <=> left.ws # right.ws
  <2>1. IsColumn(left.ws, BlockSize) /\ IsColumn(right.ws, BlockSize)  BY DEF IsResponse, IsColumn
  <2>2. QED  BY <1>0, <2>1, ColumnCompared
<1>4. repeatCompareResponses(left, right, i) = (hash \o code) \o ws
  BY DEF repeatCompareResponses
<1>5. /\ ASequence((hash \o code) \o ws)
      /\ \A x : Occurs(x, (hash \o code) \o ws) <=> Occurs(x, hash) \/ Occurs(x, code) \/ Occurs(x, ws)
  <2> HIDE DEF hash, code, ws
  <2>1. ASequence(hash \o code) /\ \A x : Occurs(x, hash \o code) <=> Occurs(x, hash) \/ Occurs(x, code)
    BY <1>1, <1>2, ASequenceConcat
  <2>2. QED  BY <1>3, <2>1, ASequenceConcat
<1>6. left # right <=> left.appHash # right.appHash \/ left.codes # right.codes \/ left.ws # right.ws
  BY DEF IsResponse
<1>7. QED
  <2> HIDE DEF hash, code, ws
  <2> QED  BY <1>1, <1>2, <1>3, <1>4, <1>5, <1>6

\* The pair that a ProbeIndex stands for.
Differ(r, i) == IF i = 0 THEN r[0] # r[1] ELSE r[1] # r[i + 1]

\* All pairs the executor compares: a finding with index i exactly if that pair differs.
LEMMA AllCompared ==
  ASSUME \A a \in Apps : IsResponse(res[a])
  PROVE  /\ ASequence(AllFindings)
         /\ \A x : Occurs(x, AllFindings) => x.probe \in 0 .. N - 1 /\ Differ(res, x.probe)
         /\ \A i \in 0 .. N - 1 : Differ(res, i) => \E x : Occurs(x, AllFindings) /\ x.probe = i
<1> DEFINE first == repeatCompareResponses(res[0], res[1], 0)
           other(i) == repeatCompareResponses(res[1], res[i + 1], i)
           others == [i \in 1 .. N - 1 |-> other(i)]
<1>0. /\ N \in Nat /\ N - 1 \in Nat /\ 0 \in Apps /\ 1 \in Apps
      /\ \A i \in 1 .. N - 1 : i + 1 \in Apps
  BY NumApps DEF Apps
<1>1. /\ ASequence(first) /\ \A x : Occurs(x, first) => x.probe = 0
      /\ (\E x : Occurs(x, first)) <=> res[0] # res[1]
  BY <1>0, PairCompared
<1>2. ASSUME NEW i \in 1 .. N - 1
      PROVE  /\ ASequence(other(i)) /\ \A x : Occurs(x, other(i)) => x.probe = i
             /\ (\E x : Occurs(x, other(i))) <=> res[1] # res[i + 1]
  BY <1>0, PairCompared
<1>3. /\ ASequence(FlattenSeq(others))
      /\ \A x : Occurs(x, FlattenSeq(others)) <=> \E i \in 1 .. N - 1 : Occurs(x, other(i))
  <2> HIDE DEF other
  <2>1. \A i \in 1 .. N - 1 : ASequence(other(i))  BY <1>2
  <2>2. others = [i \in 1 .. N - 1 |-> others[i]] /\ \A i \in 1 .. N - 1 : others[i] = other(i)
    OBVIOUS
  <2> HIDE DEF others
  <2>3. \A i \in 1 .. N - 1 : ASequence(others[i])  BY <2>1, <2>2
  <2>4. QED  BY <1>0, <2>2, <2>3, ASequenceFlatten
<1>4. AllFindings = first \o FlattenSeq(others)  BY DEF AllFindings
<1>5. /\ ASequence(AllFindings)
      /\ \A x : Occurs(x, AllFindings) <=> Occurs(x, first) \/ \E i \in 1 .. N - 1 : Occurs(x, other(i))
  <2> HIDE DEF first, other, others
  <2> QED  BY <1>1, <1>3, <1>4, ASequenceConcat
<1> HIDE DEF first, other, others
<1>6. ASSUME NEW x, Occurs(x, AllFindings) PROVE x.probe \in 0 .. N - 1 /\ Differ(res, x.probe)
  <2>1. CASE Occurs(x, first)  BY <1>0, <1>1, <2>1 DEF Differ
  <2>2. ASSUME NEW i \in 1 .. N - 1, Occurs(x, other(i)) PROVE x.probe \in 0 .. N - 1 /\ Differ(res, x.probe)
    <3>1. x.probe = i /\ res[1] # res[i + 1]  BY <1>0, <1>2, <2>2
    <3>2. i # 0 /\ i \in 0 .. N - 1  BY <1>0
    <3>3. QED  BY <3>1, <3>2 DEF Differ
  <2>3. QED  BY <1>5, <1>6, <2>1, <2>2
<1>7. ASSUME NEW i \in 0 .. N - 1, Differ(res, i) PROVE \E x : Occurs(x, AllFindings) /\ x.probe = i
  <2>1. CASE i = 0  BY <1>1, <1>5, <1>7, <2>1 DEF Differ
  <2>2. CASE i # 0
    <3>1. i \in 1 .. N - 1 /\ res[1] # res[i + 1]  BY <1>0, <1>7, <2>2 DEF Differ
    <3>2. PICK x : Occurs(x, other(i))  BY <1>2, <3>1
    <3>3. QED  BY <1>2, <1>5, <3>1, <3>2
  <2>3. QED  BY <2>1, <2>2
<1>8. QED  BY <1>5, <1>6, <1>7

\* The comparisons with the first probe settle every pair.
LEMMA PairsByTransitivity ==
  ASSUME NEW r
  PROVE  (\A i \in 0 .. N - 1 : ~Differ(r, i)) <=> \A a, b \in Apps : r[a] = r[b]
<1>0. N \in Nat /\ N >= 1 /\ 0 \in Apps /\ 1 \in Apps /\ 0 \in 0 .. N - 1  BY NumApps
<1>1. ASSUME \A i \in 0 .. N - 1 : ~Differ(r, i), NEW a \in Apps PROVE r[a] = r[1]
  <2>1. CASE a \in {0, 1}  BY <1>0, <1>1, <2>1 DEF Differ
  <2>2. CASE a \notin {0, 1}
    <3>1. a - 1 \in 0 .. N - 1 /\ a - 1 # 0 /\ (a - 1) + 1 = a  BY <1>0, <2>2 DEF Apps
    <3>2. r[1] = r[(a - 1) + 1]  BY <1>1, <3>1 DEF Differ
    <3>3. QED  BY <3>1, <3>2
  <2>3. QED  BY <2>1, <2>2
<1>2. ASSUME \A a, b \in Apps : r[a] = r[b], NEW i \in 0 .. N - 1 PROVE ~Differ(r, i)
  <2>1. i + 1 \in Apps  BY <1>0 DEF Apps
  <2>2. QED  BY <1>0, <1>2, <2>1 DEF Differ
<1>3. QED  BY <1>1, <1>2

\* A result that has just been computed is right about every pair and every index.
LEMMA ResultExact ==
  ASSUME \A a \in Apps : IsResponse(res[a]),
         last' = [verdict |-> Verdict(AllFindings), findings |-> AllFindings, res |-> res]
  PROVE  AllPairsCompared' /\ BlameIsExact'
<1>1. last'.verdict = Verdict(AllFindings) /\ last'.findings = AllFindings /\ last'.res = res  OBVIOUS
<1>2. AllFindings = <<>> <=> \A i \in 0 .. N - 1 : ~Differ(res, i)
  <2>1. AllFindings = <<>> <=> \A x : ~Occurs(x, AllFindings)  BY AllCompared, ASequenceEmpty
  <2>2. (\E x : Occurs(x, AllFindings)) => \E i \in 0 .. N - 1 : Differ(res, i)  BY AllCompared
  <2>3. (\E i \in 0 .. N - 1 : Differ(res, i)) => \E x : Occurs(x, AllFindings)  BY AllCompared
  <2>4. QED  BY <2>1, <2>2, <2>3
<1>3. last'.verdict = Match <=> AllFindings = <<>>  BY <1>1 DEF Verdict, Match, Divergence
<1>4. AllPairsCompared'
  BY <1>1, <1>2, <1>3, PairsByTransitivity DEF AllPairsCompared
<1>5. {AllFindings[n].probe : n \in DOMAIN AllFindings} = {i \in 0 .. N - 1 : Differ(res, i)}
  <2>1. ASSUME NEW n \in DOMAIN AllFindings
        PROVE  AllFindings[n].probe \in {i \in 0 .. N - 1 : Differ(res, i)}
    <3>1. Occurs(AllFindings[n], AllFindings)  BY <2>1 DEF Occurs
    <3>2. QED  BY <3>1, AllCompared
  <2>2. ASSUME NEW i \in 0 .. N - 1, Differ(res, i)
        PROVE  \E n \in DOMAIN AllFindings : AllFindings[n].probe = i
    <3>1. PICK x : Occurs(x, AllFindings) /\ x.probe = i  BY <2>2, AllCompared
    <3>2. PICK n \in DOMAIN AllFindings : AllFindings[n] = x  BY <3>1 DEF Occurs
    <3>3. QED  BY <3>1, <3>2
  <2>3. QED  BY <2>1, <2>2
<1>6. BlameIsExact'
  BY <1>1, <1>5 DEF BlameIsExact, Differ
<1>7. QED  BY <1>4, <1>6

-------------------------------------------------------------------------------
(* The invariant.                                                            *)

\* The outcomes after a RunBlock call: one more, and failed if it or an earlier one is.
LEMMA AppendOutcome ==
  ASSUME results \in Seq(Outcomes), NEW r \in Outcomes, results' = Append(results, r)
  PROVE  /\ results' \in Seq(Outcomes)
         /\ Len(results') = Len(results) + 1 /\ Len(results) \in Nat
         /\ Failed' <=> Failed \/ r = "error"
<1>1. /\ results' \in Seq(Outcomes)
      /\ Len(results') = Len(results) + 1 /\ Len(results) \in Nat
      /\ DOMAIN results = 1 .. Len(results) /\ DOMAIN results' = 1 .. Len(results) + 1
      /\ results'[Len(results) + 1] = r
      /\ \A n \in 1 .. Len(results) : results'[n] = results[n]
  OBVIOUS
<1>2. QED  BY <1>1 DEF Failed

\* Before Init there is no app, no run and no result.
LEMMA InitIInv == Init => IInv
<1> SUFFICES ASSUME Init PROVE IInv  OBVIOUS
<1>0. N \in Nat /\ N >= 1  BY NumApps
<1>1. ControlOK  BY <1>0 DEF Init, ControlOK, Outcomes
<1>2. HeightInv /\ RunInv
  BY <1>0 DEF Init, HeightInv, RunInv, AppsSettled, Failed
<1>3. SeqInv  BY DEF Init, SeqInv
<1>4. ~HasResult  BY DEF Init, HasResult, NoResult
<1>5. QED  BY <1>1, <1>2, <1>3, <1>4 DEF IInv, AllPairsCompared, BlameIsExact, SequencesInStep

\* What the last result says only changes when a block is reported or a store opened.
LEMMA LastKept ==
  ASSUME UNCHANGED last, IInv
  PROVE  AllPairsCompared' /\ BlameIsExact' /\ SequencesInStep'
BY DEF IInv, AllPairsCompared, BlameIsExact, SequencesInStep, HasResult

\* A call that fails before any app commits: the heights stay, the outcome is an error.
LEMMA ErrorKeepsHeights ==
  ASSUME ControlOK, HeightInv, results' = Append(results, "error"), UNCHANGED height,
         attached' = {} \/ UNCHANGED <<attached, pc>>
  PROVE  HeightInv' /\ Failed' /\ results' \in Seq(Outcomes)
<1>1. /\ Failed' /\ Len(results') = Len(results) + 1 /\ Len(results) \in Nat
      /\ results' \in Seq(Outcomes)
  BY AppendOutcome DEF ControlOK, Outcomes
<1>2. height[N] \in Nat /\ height[N] <= Len(results)
  BY <1>1, NumApps DEF ControlOK, HeightInv, AppsSettled
<1>3. QED  BY <1>1, <1>2 DEF HeightInv, AppsSettled

\* One step of Init, RunBlock or Close keeps the invariant.
LEMMA NextIInv == IInv /\ Next => IInv'
<1> SUFFICES ASSUME IInv, Next PROVE IInv'  OBVIOUS
<1>0. /\ ControlOK /\ HeightInv /\ RunInv /\ SeqInv
      /\ N \in Nat /\ N >= 1 /\ 0 \in Apps /\ N \in Apps /\ BlockSize \in Nat
  BY NumApps, RepeatAssumption DEF IInv
<1>1. CASE InitOK
  <2>1. ControlOK'  BY <1>0, <1>1 DEF InitOK, ControlOK
  <2>2. ~Failed' /\ pc' = "idle" /\ UNCHANGED attached  BY <1>1 DEF InitOK, Failed
  <2>3. HeightInv'  BY <1>0, <1>1, <2>2 DEF InitOK, HeightInv, AppsSettled
  <2>4. RunInv' /\ SeqInv'  BY <1>1, <2>2 DEF InitOK, RunInv, SeqInv
  <2>5. ~HasResult'  BY <1>1 DEF InitOK, HasResult, NoResult
  <2>6. QED  BY <2>1, <2>3, <2>4, <2>5 DEF IInv, AllPairsCompared, BlameIsExact, SequencesInStep
<1>2. CASE InitFails \/ Close \/ Done
  <2>1. /\ UNCHANGED <<app, height, accSeq, signed, res, attached, results, last>>
        /\ pc' = "closed" /\ sequences' \in {0, sequences} /\ pc \in {"idle", "closed"}
    BY <1>2 DEF InitFails, Close, Done, vars
  <2>2. ControlOK' /\ RunInv' /\ SeqInv'  BY <1>0, <2>1 DEF ControlOK, RunInv, SeqInv
  <2>3. HeightInv'  BY <1>0, <2>1 DEF HeightInv, AppsSettled, Failed
  <2>4. QED  BY <2>1, <2>2, <2>3, LastKept DEF IInv
<1>3. CASE BeginBlock
  <2>1. /\ UNCHANGED <<height, accSeq, res, results, last>>
        /\ pc = "idle" /\ pc' = "run" /\ app' = 0 /\ signed' = sequences /\ sequences' = sequences + BlockSize
    BY <1>3 DEF BeginBlock, SequencesTaken
  <2>2. ControlOK'  BY <1>0, <2>1 DEF ControlOK
  <2>3. HeightInv'  BY <1>0, <2>1 DEF HeightInv, AppsSettled, Failed
  <2>4. RunInv' /\ SeqInv'
    <3>1. \A a \in Apps : ~(a < 0)  BY <1>0 DEF Apps
    <3>2. QED  BY <1>0, <2>1, <3>1 DEF RunInv, SeqInv, Failed
  <2>5. QED  BY <2>1, <2>2, <2>3, <2>4, LastKept DEF IInv
<1>4. ASSUME NEW n \in 0 .. BlockSize, BuildFails(n) PROVE IInv'
  <2>1. /\ UNCHANGED <<pc, app, height, accSeq, signed, res, attached, last>>
        /\ pc = "idle" /\ sequences' = sequences + n /\ results' = Append(results, "error")
    BY <1>4 DEF BuildFails, SequencesTaken
  <2>2. HeightInv' /\ Failed' /\ results' \in Seq(Outcomes)  BY <1>0, <2>1, ErrorKeepsHeights
  <2>3. ControlOK'  BY <1>0, <2>1, <2>2 DEF ControlOK
  <2>4. RunInv' /\ SeqInv'  BY <2>1, <2>2 DEF RunInv, SeqInv
  <2>5. QED  BY <2>1, <2>2, <2>3, <2>4, LastKept DEF IInv
<1>5. ASSUME NEW r \in Responses, Finalize(r) PROVE IInv'
  <2>1. /\ UNCHANGED <<pc, height, sequences, accSeq, signed, attached, results, last>>
        /\ pc = "run" /\ app \in Apps /\ HeightOK(app) /\ app' = app + 1
        /\ res' = [res EXCEPT ![app] = Accepted(app, r)]
    BY <1>5 DEF Finalize
  <2>2. IsResponse(r) /\ 32 \notin ToSet(r.codes)  BY RepeatAssumption
  <2>3. IsResponse(Accepted(app, r))
    <3>1. CASE accSeq[app] = signed  BY <2>2, <3>1 DEF Accepted
    <3>2. CASE accSeq[app] # signed  BY <3>2 DEF Accepted, IsResponse
    <3>3. QED  BY <3>1, <3>2
  <2>4. ~Failed => 32 \notin ToSet(Accepted(app, r).codes)
    BY <1>0, <2>1, <2>2 DEF Accepted, SeqInv
  <2>5. /\ DOMAIN res' = Apps /\ res'[app] = Accepted(app, r)
        /\ \A a \in Apps : a # app => res'[a] = res[a]
    BY <1>0, <2>1 DEF ControlOK
  <2>6. \A a \in Apps : a < app' <=> a < app \/ a = app
    BY <1>0, <2>1 DEF Apps
  <2>7. \A a \in Apps : a < app => a # app
    BY <1>0, <2>1 DEF Apps
  <2>8. app' \in 0 .. N + 1  BY <1>0, <2>1 DEF Apps
  <2>9. ControlOK'  BY <1>0, <2>1, <2>5, <2>8 DEF ControlOK
  <2>10. HeightInv'  BY <1>0, <2>1 DEF HeightInv, AppsSettled, Failed
  <2>11. \A a \in Apps : HeightOK(a)' <=> HeightOK(a)  BY <2>1 DEF HeightOK, BlockHeight
  <2>12. RunInv'
    BY <1>0, <2>1, <2>3, <2>5, <2>6, <2>7, <2>11 DEF RunInv
  <2>13. Failed' <=> Failed  BY <2>1 DEF Failed
  <2>14. SeqInv'
    BY <1>0, <2>1, <2>4, <2>5, <2>6, <2>7, <2>13 DEF SeqInv
  <2>15. QED  BY <2>1, <2>9, <2>10, <2>12, <2>14, LastKept DEF IInv
<1>6. CASE FinalizeFails
  <2>1. /\ UNCHANGED <<app, height, sequences, accSeq, signed, res, last>>
        /\ attached' = {} /\ pc' = "idle" /\ results' = Append(results, "error")
    BY <1>6 DEF FinalizeFails, unsetObservers
  <2>2. HeightInv' /\ Failed' /\ results' \in Seq(Outcomes)  BY <1>0, <2>1, ErrorKeepsHeights
  <2>3. ControlOK'  BY <1>0, <2>1, <2>2 DEF ControlOK
  <2>4. RunInv' /\ SeqInv'  BY <2>1, <2>2 DEF RunInv, SeqInv
  <2>5. QED  BY <2>1, <2>2, <2>3, <2>4, LastKept DEF IInv
<1>7. ASSUME NEW failing \in 0 .. N + 1, Compare(failing) PROVE IInv'
  <2> DEFINE r == IF failing <= N THEN "error" ELSE Verdict(AllFindings)
  <2>1. /\ pc = "run" /\ app = N + 1 /\ pc' = "idle" /\ attached' = {}
        /\ UNCHANGED <<app, sequences, signed, res>>
        /\ results' = Append(results, r) /\ r \in Outcomes
        /\ height' = [a \in Apps |-> IF a < failing THEN height[a] + 1 ELSE height[a]]
        /\ accSeq' = [a \in Apps |-> IF a < failing /\ accSeq[a] = signed
                                       THEN accSeq[a] + BlockSize ELSE accSeq[a]]
    BY <1>7 DEF Compare, unsetObservers, Committed, Verdict, Outcomes
  <2>2. r = "error" <=> failing <= N  BY DEF Verdict, Match, Divergence
  <2>3. /\ Failed' <=> Failed \/ r = "error"
        /\ Len(results') = Len(results) + 1 /\ Len(results) \in Nat /\ results' \in Seq(Outcomes)
    <3> HIDE DEF r
    <3> QED  BY <1>0, <2>1, AppendOutcome DEF ControlOK
  <2> HIDE DEF r
  <2>4. \A a \in Apps : a \in Int /\ a < app /\ (a < failing \/ failing <= N) /\ (a = N => ~(a < failing) \/ ~(failing <= N))
    BY <1>0, <2>1 DEF Apps
  <2>5. \A a \in Apps : height[a] = Len(results) /\ IsResponse(res[a])
    BY <1>0, <2>1, <2>3, <2>4 DEF RunInv, HeightOK, BlockHeight, ControlOK
  <2>6. ~Failed  BY <1>0, <2>3, <2>5 DEF HeightInv
  <2>7. ControlOK'
    <3>1. \A a \in Apps : /\ height[a] \in Nat /\ height[a] + 1 \in Nat
                         /\ accSeq[a] \in Nat /\ accSeq[a] + BlockSize \in Nat
      BY <1>0 DEF ControlOK
    <3>2. height' \in [Apps -> Nat]  BY <2>1, <3>1
    <3>3. accSeq' \in [Apps -> Nat]  BY <2>1, <3>1
    <3>4. QED  BY <1>0, <2>1, <2>3, <3>2, <3>3 DEF ControlOK
  <2>8. HeightInv'
    <3>1. \A a \in Apps : height'[a] = IF a < failing THEN Len(results) + 1 ELSE Len(results)
      BY <2>1, <2>5
    <3>2. \A a, b \in Apps : a < b => height'[b] <= height'[a] /\ height'[a] <= height'[b] + 1
      BY <2>3, <2>4, <3>1
    <3>3. ~Failed' => \A a \in Apps : height'[a] = Len(results')
      BY <2>2, <2>3, <2>4, <3>1
    <3>4. Failed' => height'[N] < Len(results')
      BY <1>0, <2>2, <2>3, <2>4, <2>6, <3>1
    <3>5. QED  BY <2>1, <3>2, <3>3, <3>4 DEF HeightInv, AppsSettled
  <2>9. RunInv' /\ SeqInv'
    <3>1. \A a \in Apps : accSeq[a] = signed /\ sequences = signed + BlockSize
      BY <1>0, <2>1, <2>6 DEF SeqInv
    <3>2. ~Failed' => \A a \in Apps : accSeq'[a] = sequences'
      BY <2>1, <2>2, <2>3, <2>4, <3>1
    <3>3. QED  BY <2>1, <3>2 DEF RunInv, SeqInv
  <2>10. AllPairsCompared' /\ BlameIsExact' /\ SequencesInStep'
    <3>1. CASE failing <= N
      <4>1. UNCHANGED last  BY <1>7, <3>1 DEF Compare
      <4>2. QED  BY <4>1, LastKept
    <3>2. CASE ~(failing <= N)
      <4>1. last' = [verdict |-> Verdict(AllFindings), findings |-> AllFindings, res |-> res]
        BY <1>7, <3>2 DEF Compare
      <4>2. AllPairsCompared' /\ BlameIsExact'  BY <2>5, <4>1, ResultExact
      <4>3. \A a \in Apps : 32 \notin ToSet(res[a].codes)  BY <1>0, <2>1, <2>4, <2>6 DEF SeqInv
      <4>4. last'.res = res  BY <4>1
      <4>5. SequencesInStep'  BY <4>3, <4>4 DEF SequencesInStep
      <4>6. QED  BY <4>2, <4>5
    <3>3. QED  BY <3>1, <3>2
  <2>11. QED  BY <2>7, <2>8, <2>9, <2>10 DEF IInv
<1>8. QED  BY <1>1, <1>2, <1>3, <1>4, <1>5, <1>6, <1>7 DEF Next

\* IInv is inductive.
LEMMA InductiveInv == Spec => []IInv
<1>1. IInv /\ UNCHANGED vars => IInv'
  <2> SUFFICES ASSUME IInv, UNCHANGED vars PROVE IInv'  OBVIOUS
  <2>1. ControlOK' /\ HeightInv' /\ RunInv' /\ SeqInv'
    BY DEF IInv, vars, ControlOK, HeightInv, AppsSettled, RunInv, SeqInv, Failed, HeightOK, BlockHeight
  <2>2. QED  BY <2>1, LastKept DEF IInv, vars
<1>2. QED  BY <1>1, InitIInv, NextIInv, PTL DEF Spec

-------------------------------------------------------------------------------
\* Comparing the oracle with the first probe and the first probe with each other one is
\* comparing all with all, for every number of probes.
THEOREM EveryPairCompared == Spec => []AllPairsCompared
<1>1. IInv => AllPairsCompared  BY DEF IInv
<1>2. QED  BY <1>1, InductiveInv, PTL

\* The ProbeIndex of the findings names exactly the probes that differ.
THEOREM BlameExact == Spec => []BlameIsExact
<1>1. IInv => BlameIsExact  BY DEF IInv
<1>2. QED  BY <1>1, InductiveInv, PTL

\* No reported block holds a transaction refused for its sequence number: a block that
\* reaches the comparison belongs to a store without a failure, and there e.sequences and
\* all accounts advance together.
THEOREM SequencesStayInStep == Spec => []SequencesInStep
<1>1. IInv => SequencesInStep  BY DEF IInv
<1>2. QED  BY <1>1, InductiveInv, PTL

\* Commits happen in order and observers are detached, whichever call fails.
THEOREM AppsAreSettled == Spec => []AppsSettled
<1>1. IInv => AppsSettled  BY DEF IInv, HeightInv
<1>2. QED  BY <1>1, InductiveInv, PTL

-------------------------------------------------------------------------------
(***************************************************************************)
(* Refinement of ExecutorContract: a verdict needs every app at the parent's *)
(* height, where the last app is only in a store without a failure.          *)
(***************************************************************************)
USE DEF Contract!cvars

\* One call more adds a height; a call that returns adds none.
LEMMA AskedSteps ==
  ASSUME results \in Seq(Outcomes), pc # "closed"
  PROVE  /\ pc = "idle" /\ pc' \in {"run"} /\ UNCHANGED results
              => Len(Asked') > Len(Asked) /\ Asked' = Append(Asked, Asked'[Len(Asked) + 1])
         /\ \A v : pc \in {"run"} /\ pc' = "idle" /\ results' = Append(results, v)
                      => Asked' = Asked
         /\ \A v : pc = "idle" /\ pc' = "idle" /\ results' = Append(results, v)
                      => Len(Asked') > Len(Asked) /\ Asked' = Append(Asked, Asked'[Len(Asked) + 1])
<1> DEFINE L == Len(results)  H(n) == [m \in 1 .. n |-> m - 1]
<1>1. L \in Nat  OBVIOUS
<1>2. \A v : results' = Append(results, v) => Len(results') = L + 1  OBVIOUS
<1>3. \A n \in Nat : Len(H(n + 1)) > Len(H(n)) /\ H(n + 1) = Append(H(n), H(n + 1)[Len(H(n)) + 1])
  <2> SUFFICES ASSUME NEW n \in Nat
               PROVE  Len(H(n + 1)) > Len(H(n)) /\ H(n + 1) = Append(H(n), H(n + 1)[Len(H(n)) + 1])
    OBVIOUS
  <2>1. H(n + 1) \in [1 .. n + 1 -> Int] /\ H(n) = [m \in 1 .. n |-> H(n + 1)[m]]  OBVIOUS
  <2> HIDE DEF H
  <2>2. QED  BY <2>1, FirstAndLast
<1>4. /\ pc = "idle" => Asked = H(L + 1)
      /\ pc \in {"run"} => Asked = H(L + 2)
      /\ pc' = "idle" => Asked' = H(Len(results') + 1)
      /\ pc' \in {"run"} => Asked' = H(Len(results') + 2)
  BY DEF Asked
<1>5. (L + 1) + 1 = L + 2 /\ L + 1 \in Nat  BY <1>1
<1> HIDE DEF H
<1>6. Len(H(L + 2)) > Len(H(L + 1)) /\ H(L + 2) = Append(H(L + 1), H(L + 2)[Len(H(L + 1)) + 1])
  BY <1>3, <1>5
<1> HIDE DEF L
<1>7. QED  BY <1>1, <1>2, <1>4, <1>5, <1>6 DEF L

\* A call on a store without a failure asks for the height after the last verdict's.
LEMMA AcceptedCall ==
  ASSUME results \in Seq(Outcomes), pc \in {"run"}, ~Failed
  PROVE  Contract!Accepts
<1> DEFINE L == Len(results)
<1>1. L \in Nat /\ DOMAIN results = 1 .. L /\ \A n \in 1 .. L : results[n] # "error"
  BY DEF Failed
<1>2. Asked = [m \in 1 .. L + 2 |-> m - 1]  BY DEF Asked
<1>3. {m \in DOMAIN results : results[m] # "error"} = 1 .. L  BY <1>1
<1> HIDE DEF L
<1>4. Asked \in Seq(Int) /\ Len(Asked) = L + 2
  <2>1. Asked \in [1 .. L + 2 -> Int]  BY <1>1, <1>2
  <2>2. QED  BY <1>1, <2>1
<1>5. Contract!Reached = {Asked[1]} \cup {Asked[n + 1] : n \in 1 .. L}  BY <1>3 DEF Contract!Reached
<1>6. Asked[1] = 0 /\ Asked[L + 2] = L + 1 /\ \A n \in 1 .. L : Asked[n + 1] = n
  BY <1>1, <1>2
<1>7. Contract!Reached = 0 .. L
  <2>1. {Asked[n + 1] : n \in 1 .. L} = 1 .. L  BY <1>6
  <2>2. {0} \cup 1 .. L = 0 .. L  BY <1>1
  <2>3. QED  BY <1>5, <1>6, <2>1, <2>2
<1>8. QED  BY <1>1, <1>4, <1>6, <1>7 DEF Contract!Accepts

\* Every step of the executor is a step of the contract, or leaves its view unchanged.
LEMMA ContractStep ==
  ASSUME IInv, [Next]_vars
  PROVE  [Contract!CNext]_(Contract!cvars)
<1>0. ControlOK /\ HeightInv /\ RunInv /\ results \in Seq(Outcomes)  BY DEF IInv, ControlOK
<1>1. CASE InitOK
  <2>1. pc = "closed" /\ pc' = "idle" /\ results' = <<>>  BY <1>1 DEF InitOK
  <2>2. Asked' = [n \in 1 .. 1 |-> n - 1]  BY <2>1 DEF Asked
  <2>3. Asked' = <<Asked'[1]>>  BY <2>2
  <2>4. QED  BY <2>1, <2>3 DEF Contract!CNext, Contract!Open
<1>2. CASE Close
  BY <1>2 DEF Close, Contract!CNext, Contract!Shut, Asked
<1>3. CASE BeginBlock
  <2>1. pc = "idle" /\ pc' = "run" /\ UNCHANGED results  BY <1>3 DEF BeginBlock
  <2>2. QED  BY <1>0, <2>1, AskedSteps DEF Contract!CNext, Contract!Call, Contract!Ask
<1>4. ASSUME NEW n \in 0 .. BlockSize, BuildFails(n) PROVE Contract!CNext
  <2>1. pc = "idle" /\ pc' = "idle" /\ results' = Append(results, "error")  BY <1>4 DEF BuildFails
  <2>2. QED  BY <1>0, <2>1, AskedSteps DEF Contract!CNext, Contract!BuildError, Contract!Ask
<1>5. ASSUME NEW r \in Responses, Finalize(r) PROVE UNCHANGED Contract!cvars
  BY <1>5 DEF Finalize, Asked
<1>6. CASE FinalizeFails
  <2>1. pc = "run" /\ pc' = "idle" /\ results' = Append(results, "error")  BY <1>6 DEF FinalizeFails
  <2>2. QED  BY <1>0, <2>1, AskedSteps DEF Contract!CNext, Contract!ReturnError
<1>7. ASSUME NEW failing \in 0 .. N + 1, Compare(failing) PROVE Contract!CNext
  <2>1. /\ pc = "run" /\ pc' = "idle" /\ app = N + 1
        /\ results' = Append(results, IF failing <= N THEN "error" ELSE Verdict(AllFindings))
    BY <1>7 DEF Compare
  <2>2. ~Failed
    <3>1. N < app /\ N \in Apps /\ Len(results) \in Nat /\ height[N] \in Nat
      BY <1>0, <2>1, NumApps DEF ControlOK
    <3>2. HeightOK(N)  BY <1>0, <2>1, <3>1 DEF RunInv
    <3>3. QED  BY <1>0, <3>1, <3>2 DEF HeightInv, HeightOK, BlockHeight
  <2>3. Asked' = Asked /\ Contract!Accepts  BY <1>0, <2>1, <2>2, AskedSteps, AcceptedCall
  <2>4. Verdict(AllFindings) \in {"MATCH", "DIVERGENCE"}  BY DEF Verdict, Match, Divergence
  <2>5. QED
    BY <2>1, <2>3, <2>4 DEF Contract!CNext, Contract!ReturnVerdict, Contract!ReturnError
<1>8. CASE UNCHANGED vars \/ InitFails \/ Done
  BY <1>8 DEF InitFails, Done, vars, Asked
<1>9. QED
  BY <1>1, <1>2, <1>3, <1>4, <1>5, <1>6, <1>7, <1>8 DEF Next

\* The executor with N probes is the abstract executor RunHarness relies on.
THEOREM ContractImplemented == Spec => ImplementsContract
<1>1. Init => Contract!CInit
  BY DEF Init, Contract!CInit, Asked
<1>2. IInv /\ [Next]_vars => [Contract!CNext]_(Contract!cvars)
  BY ContractStep
<1>3. QED
  BY <1>1, <1>2, InductiveInv, PTL DEF Spec, ImplementsContract, Contract!CSpec
===============================================================================
