------------------------- MODULE FixtureExecutorProofs -------------------------
(***************************************************************************)
(* Proofs about FixtureExecutor, for every set of blocks, number of         *)
(* workers, callback mode and bound, in three parts:                        *)
(*   - the control state, whatever the transactions compute: types, hooks,  *)
(*     heights, and the contract of an executor;                            *)
(*   - what is gathered while a block runs, however its workers interleave: *)
(*     the observers, the block-context tracker, the sinks, and the result  *)
(*     made of them;                                                        *)
(*   - serial execution: what a BlockSTM run of a block returns is what a   *)
(*     serial run of its transactions returns, and the properties that rest *)
(*     on it: sequences stay in step, equal stores give equal responses,    *)
(*     what happens outside the store is reported, and writes of the block  *)
(*     context are attributed to their transactions.                        *)
(***************************************************************************)
EXTENDS FixtureExecutor, CompareProofs

-------------------------------------------------------------------------------
(* The control state.                                                        *)

\* The verdicts compare.Run returns are the two of the Verdict type.
LEMMA VerdictType == \A f : Verdict(f) \in {Match, Divergence}
  BY DEF Verdict

\* Type correctness of the control state: every action of RunBlock, Init and Close keeps it.
THEOREM TypeCorrect == Spec => []TypeOK
<1>1. Init => TypeOK
  BY ConstantsAssumption DEF Init, TypeOK, Apps
<1>2. TypeOK /\ [Next]_vars => TypeOK'
  <2> SUFFICES ASSUME TypeOK, [Next]_vars PROVE TypeOK'
    OBVIOUS
  <2> USE DEF TypeOK
  <2>0. BlockHeight \in Nat
    BY DEF BlockHeight
  <2>1. CASE InitOK
    BY <2>1, ConstantsAssumption DEF InitOK, Apps, globals, blockVars
  <2>2. CASE InitProbeFails
    BY <2>2, ConstantsAssumption DEF InitProbeFails, globals, storeVars, appVars, blockVars
  <2>3. CASE InitOracleFails
    BY <2>3, ConstantsAssumption DEF InitOracleFails, globals, storeVars, appVars, blockVars
  <2>4. CASE Close
    BY <2>4 DEF Close, globals, storeVars, appVars, blockVars
  <2>5. ASSUME NEW b \in Blocks, BeginBlock(b) PROVE TypeOK'
    BY <2>5 DEF BeginBlock, globals, appVars, Apps
  <2>6. ASSUME NEW b \in Blocks, BuildFails(b) PROVE TypeOK'
    BY <2>6 DEF BuildFails, globals, appVars, blockVars, Outcomes
  <2>7. ASSUME NEW i \in TxIdx, StartTx(i) \/ FinishTx(i) \/ AbortTx(i) PROVE TypeOK'
    BY <2>7 DEF StartTx, FinishTx, AbortTx, globals, storeVars, appVars
  <2>8. CASE OracleDone
    BY <2>0, <2>8 DEF OracleDone, Apps
  <2>9. CASE RejectHeight
    BY <2>9 DEF RejectHeight, CleanUp, appVars, Outcomes
  <2>10. CASE FinalizeFails
    BY <2>10, ConstantsAssumption DEF FinalizeFails, CleanUp, appVars, Outcomes
  <2>11. ASSUME NEW failing \in Apps \cup {"none"}, ProbeDone(failing) PROVE TypeOK'
    <3>1. Append(results, IF failing = "none" THEN Verdict(BlockFindings) ELSE "error")
            \in Seq(Outcomes)
      BY VerdictType DEF Outcomes
    <3>2. [a \in Apps |-> IF a \in Committed(failing) THEN height[a] + 1 ELSE height[a]]
            \in [Apps -> Nat]
      OBVIOUS
    <3>3. (IF failing = "none" THEN faults ELSE faults - 1) \in 0 .. MaxFaults
      BY <2>11, ConstantsAssumption DEF ProbeDone
    <3>4. QED
      BY <2>11, <3>1, <3>2, <3>3 DEF ProbeDone, CleanUp
  <2>12. CASE UNCHANGED vars
    BY <2>12 DEF vars
  <2>13. CASE Done
    BY <2>13 DEF Done, vars
  <2>14. QED
    BY <2>1, <2>2, <2>3, <2>4, <2>5, <2>6, <2>7, <2>8, <2>9, <2>10, <2>11, <2>12, <2>13
       DEF Next
<1>3. QED
  BY <1>1, <1>2, PTL DEF Spec

-------------------------------------------------------------------------------
\* The worker steps, whatever the transactions do, leave the control state alone.
ctl == <<pc, gen, trackers, height, attached, conflictObs, statsObs, delay, results, faults>>

\* Worker steps leave the control state alone.
LEMMA WorkerKeepsControl ==
  ASSUME NEW i, StartTx(i) \/ FinishTx(i) \/ AbortTx(i)
  PROVE  UNCHANGED ctl
BY DEF StartTx, FinishTx, AbortTx, ctl, globals, storeVars, appVars

\* The global observers and the canary delay are in force only while the probe executes,
\* and the lifecycle observers only inside compare.Run: HooksScoped is inductive, because
\* every way out of compare.Run goes through CleanUp.
THEOREM HooksAreScoped == Spec => []HooksScoped
<1>1. Init => HooksScoped
  BY DEF Init, HooksScoped, Apps
<1>2. HooksScoped /\ [Next]_vars => HooksScoped'
  <2> SUFFICES ASSUME HooksScoped, [Next]_vars PROVE HooksScoped'
    OBVIOUS
  <2> USE DEF HooksScoped
  <2>1. CASE InitOK \/ InitProbeFails \/ InitOracleFails \/ Close
    BY <2>1 DEF InitOK, InitProbeFails, InitOracleFails, Close, globals, blockVars, Apps
  <2>2. ASSUME NEW b \in Blocks, BeginBlock(b) \/ BuildFails(b) PROVE HooksScoped'
    BY <2>2 DEF BeginBlock, BuildFails, globals, blockVars, Apps
  <2>3. ASSUME NEW i \in TxIdx, StartTx(i) \/ FinishTx(i) \/ AbortTx(i) PROVE HooksScoped'
    BY <2>3, WorkerKeepsControl DEF ctl
  <2>4. CASE OracleDone
    BY <2>4 DEF OracleDone, Apps
  <2>5. CASE RejectHeight \/ FinalizeFails
    BY <2>5 DEF RejectHeight, FinalizeFails, CleanUp, Apps
  <2>6. ASSUME NEW failing \in Apps \cup {"none"}, ProbeDone(failing) PROVE HooksScoped'
    BY <2>6 DEF ProbeDone, CleanUp, Apps
  <2>7. CASE UNCHANGED vars \/ Done
    BY <2>7 DEF Done, vars
  <2>8. QED
    BY <2>1, <2>2, <2>3, <2>4, <2>5, <2>6, <2>7 DEF Next
<1>3. QED
  BY <1>1, <1>2, PTL DEF Spec

-------------------------------------------------------------------------------
(***************************************************************************)
(* Heights and outcomes.  ResultsArePrefix is not inductive: it needs        *)
(* HeightsInStep, which says why no verdict follows a failure.  A verdict    *)
(* needs the probe at the height before the block's, and after the first     *)
(* failure the probe is behind that height for good.                         *)
(***************************************************************************)
StoreInv == TypeOK /\ HeightsInStep /\ ResultsArePrefix

\* Appending an error to the outcomes: the store has failed, and stays a prefix.
LEMMA AppendError ==
  ASSUME results \in Seq(Outcomes), ResultsArePrefix, results' = Append(results, "error")
  PROVE  Failed' /\ ResultsArePrefix' /\ Len(results') = Len(results) + 1
<1>1. Len(results') = Len(results) + 1 /\ results'[Len(results) + 1] = "error"
      /\ \A n \in 1 .. Len(results) : results'[n] = results[n]
  BY DEF Outcomes
<1>2. Failed'
  BY <1>1 DEF Failed, Outcomes
<1>3. ResultsArePrefix'
  BY <1>1 DEF ResultsArePrefix, Outcomes
<1>4. QED
  BY <1>1, <1>2, <1>3

\* Appending a verdict to the outcomes of a store that has not failed.
LEMMA AppendVerdict ==
  ASSUME results \in Seq(Outcomes), ~Failed,
         NEW v \in {Match, Divergence}, results' = Append(results, v)
  PROVE  ~Failed' /\ ResultsArePrefix' /\ Len(results') = Len(results) + 1
<1>1. Len(results') = Len(results) + 1 /\ results'[Len(results) + 1] = v
      /\ \A n \in 1 .. Len(results) : results'[n] = results[n]
  BY DEF Outcomes
<1>2. ~Failed'
  BY <1>1 DEF Failed, Outcomes, Match, Divergence
<1>3. QED
  BY <1>1, <1>2 DEF ResultsArePrefix, Failed

\* The store invariant holds before the first Init.
LEMMA StoreInvInit == Init => StoreInv
<1>1. Init => TypeOK
  BY ConstantsAssumption DEF Init, TypeOK, Apps
<1>2. Init => HeightsInStep /\ ResultsArePrefix
  BY DEF Init, HeightsInStep, ResultsArePrefix, Failed, Apps
<1>3. QED
  BY <1>1, <1>2 DEF StoreInv

\* No step lets the heights drift or a verdict follow a failure.
LEMMA StoreInvNext == StoreInv /\ TypeOK' /\ [Next]_vars => HeightsInStep' /\ ResultsArePrefix'
<1> SUFFICES ASSUME StoreInv, TypeOK', [Next]_vars PROVE HeightsInStep' /\ ResultsArePrefix'
  OBVIOUS
<1>0. /\ results \in Seq(Outcomes) /\ height["oracle"] \in Nat /\ height["probe"] \in Nat
      /\ HeightsInStep /\ ResultsArePrefix
  BY DEF StoreInv, TypeOK, Apps
<1>1. CASE InitOK
  BY <1>1 DEF InitOK, HeightsInStep, ResultsArePrefix, Failed, Apps
<1>2. CASE UNCHANGED <<height, results>>
  BY <1>0, <1>2 DEF HeightsInStep, ResultsArePrefix, Failed
<1>3. CASE UNCHANGED height /\ results' = Append(results, "error")
  <2>1. Failed' /\ ResultsArePrefix' /\ Len(results') = Len(results) + 1
    BY <1>0, <1>3, AppendError
  <2>2. height["probe"] <= Len(results)
    BY <1>0 DEF HeightsInStep
  <2>3. QED
    BY <1>0, <1>3, <2>1, <2>2 DEF HeightsInStep
<1>4. ASSUME NEW failing \in Apps \cup {"none"}, ProbeDone(failing)
      PROVE  HeightsInStep' /\ ResultsArePrefix'
  <2>1. height["probe"] = Len(results) /\ ~Failed /\ height["oracle"] = Len(results)
    BY <1>0, <1>4 DEF ProbeDone, HeightOK, BlockHeight, HeightsInStep
  <2>2. /\ height'["oracle"] = IF "oracle" \in Committed(failing) THEN height["oracle"] + 1
                                                                ELSE height["oracle"]
        /\ height'["probe"] = IF "probe" \in Committed(failing) THEN height["probe"] + 1
                                                              ELSE height["probe"]
    BY <1>4 DEF ProbeDone, Apps
  <2>3. CASE failing = "none"
    <3>1. ~Failed' /\ ResultsArePrefix' /\ Len(results') = Len(results) + 1
      BY <1>0, <1>4, <2>1, <2>3, VerdictType, AppendVerdict DEF ProbeDone
    <3>2. QED
      BY <1>0, <2>1, <2>2, <2>3, <3>1 DEF HeightsInStep, Committed, Apps
  <2>4. CASE failing \in Apps
    <3>1. results' = Append(results, "error")
      BY <1>4, <2>4 DEF ProbeDone, Apps
    <3>2. Failed' /\ ResultsArePrefix' /\ Len(results') = Len(results) + 1
      BY <1>0, <3>1, AppendError
    <3>3. "probe" \notin Committed(failing)
      BY <2>4 DEF Committed, Apps
    <3>4. QED
      BY <1>0, <2>1, <2>2, <3>2, <3>3 DEF HeightsInStep
  <2>5. QED
    BY <2>3, <2>4
<1>5. ASSUME NEW b \in Blocks, BeginBlock(b) \/ BuildFails(b)
      PROVE  UNCHANGED <<height, results>> \/ (UNCHANGED height /\ results' = Append(results, "error"))
  BY <1>5 DEF BeginBlock, BuildFails, appVars
<1>6. ASSUME NEW i \in TxIdx, StartTx(i) \/ FinishTx(i) \/ AbortTx(i)
      PROVE  UNCHANGED <<height, results>>
  BY <1>6, WorkerKeepsControl DEF ctl
<1>7. OracleDone \/ InitProbeFails \/ InitOracleFails \/ Close \/ Done
        => UNCHANGED <<height, results>>
  BY DEF OracleDone, InitProbeFails, InitOracleFails, Close, Done, storeVars, appVars, vars
<1>8. RejectHeight \/ FinalizeFails => UNCHANGED height /\ results' = Append(results, "error")
  BY DEF RejectHeight, FinalizeFails, appVars
<1>9. UNCHANGED vars => UNCHANGED <<height, results>>
  BY DEF vars
<1>10. QED
  BY <1>1, <1>2, <1>3, <1>4, <1>5, <1>6, <1>7, <1>8, <1>9 DEF Next

\* The two apps' heights stay in step, and after a failed RunBlock no block of the store is
\* ever reported again.
THEOREM StoreInvariant == Spec => [](HeightsInStep /\ ResultsArePrefix)
<1>1. StoreInv /\ TypeOK' /\ [Next]_vars => StoreInv'
  BY StoreInvNext DEF StoreInv
<1>2. StoreInv => HeightsInStep /\ ResultsArePrefix
  BY DEF StoreInv
<1>3. QED
  BY <1>1, <1>2, StoreInvInit, TypeCorrect, PTL DEF Spec

-------------------------------------------------------------------------------
(***************************************************************************)
(* Refinement: Init, RunBlock and Close implement ExecutorContract.  Worker  *)
(* steps, OracleDone and failed Inits are stutters; BeginBlock is Call; the  *)
(* ways out of RunBlock are ReturnError or ReturnVerdict, the latter only    *)
(* on a store that has not failed, which is what HeightsInStep gives.        *)
(***************************************************************************)
USE DEF Contract!cvars

\* One call more adds a height; a call that returns adds none.
LEMMA AskedSteps ==
  ASSUME results \in Seq(Outcomes), pc # "closed"
  PROVE  /\ pc = "idle" /\ pc' \in Apps /\ UNCHANGED results
              => Len(Asked') > Len(Asked) /\ Asked' = Append(Asked, Asked'[Len(Asked) + 1])
         /\ \A v : pc \in Apps /\ pc' = "idle" /\ results' = Append(results, v)
                      => Asked' = Asked
         /\ \A v : pc = "idle" /\ pc' = "idle" /\ results' = Append(results, v)
                      => Len(Asked') > Len(Asked) /\ Asked' = Append(Asked, Asked'[Len(Asked) + 1])
<1> DEFINE L == Len(results)  H(n) == [m \in 1 .. n |-> m - 1]
<1>1. L \in Nat  OBVIOUS
<1>2. \A v : results' = Append(results, v) => Len(results') = L + 1  OBVIOUS
<1>3. \A n \in Nat : Len(H(n + 1)) > Len(H(n)) /\ H(n + 1) = Append(H(n), H(n + 1)[Len(H(n)) + 1])
  <2> SUFFICES ASSUME NEW n \in Nat
               PROVE  Len(H(n + 1)) > Len(H(n)) /\ H(n + 1) = Append(H(n), H(n + 1)[Len(H(n)) + 1])
    OBVIOUS
  <2>1. H(n + 1) \in [1 .. n + 1 -> Int] /\ H(n) = [m \in 1 .. n |-> H(n + 1)[m]]  OBVIOUS
  <2> HIDE DEF H
  <2>2. QED  BY <2>1, FirstAndLast
<1>4. /\ pc = "idle" => Asked = H(L + 1)
      /\ pc \in Apps => Asked = H(L + 2)
      /\ pc' = "idle" => Asked' = H(Len(results') + 1)
      /\ pc' \in Apps => Asked' = H(Len(results') + 2)
  BY DEF Asked, Apps
<1>5. (L + 1) + 1 = L + 2 /\ L + 1 \in Nat  BY <1>1
<1> HIDE DEF H
<1>6. Len(H(L + 2)) > Len(H(L + 1)) /\ H(L + 2) = Append(H(L + 1), H(L + 2)[Len(H(L + 1)) + 1])
  BY <1>3, <1>5
<1> HIDE DEF L
<1>7. QED  BY <1>1, <1>2, <1>4, <1>5, <1>6 DEF L

\* A call on a store without a failure asks for the height after the last verdict's.
LEMMA AcceptedCall ==
  ASSUME results \in Seq(Outcomes), pc \in Apps, ~Failed
  PROVE  Contract!Accepts
<1> DEFINE L == Len(results)
<1>1. L \in Nat /\ DOMAIN results = 1 .. L /\ \A n \in 1 .. L : results[n] # "error"
  BY DEF Failed
<1>2. Asked = [m \in 1 .. L + 2 |-> m - 1]  BY DEF Asked, Apps
<1>3. {m \in DOMAIN results : results[m] # "error"} = 1 .. L  BY <1>1
<1> HIDE DEF L
<1>4. Asked \in Seq(Int) /\ Len(Asked) = L + 2
  <2>1. Asked \in [1 .. L + 2 -> Int]  BY <1>1, <1>2
  <2>2. QED  BY <1>1, <2>1
<1>5. Contract!Reached = {Asked[1]} \cup {Asked[n + 1] : n \in 1 .. L}  BY <1>3 DEF Contract!Reached
<1>6. Asked[1] = 0 /\ Asked[L + 2] = L + 1 /\ \A n \in 1 .. L : Asked[n + 1] = n
  BY <1>1, <1>2
<1>7. Contract!Reached = 0 .. L
  <2>1. {Asked[n + 1] : n \in 1 .. L} = 1 .. L  BY <1>6
  <2>2. {0} \cup 1 .. L = 0 .. L  BY <1>1
  <2>3. QED  BY <1>5, <1>6, <2>1, <2>2
<1>8. QED  BY <1>1, <1>4, <1>6, <1>7 DEF Contract!Accepts

\* Every step of the executor is a step of the contract, or leaves its view unchanged.
LEMMA ContractStep ==
  ASSUME StoreInv, [Next]_vars
  PROVE  [Contract!CNext]_(Contract!cvars)
<1>0. /\ results \in Seq(Outcomes) /\ height["probe"] \in Nat /\ HeightsInStep
      /\ pc \in Apps \cup {"closed", "idle"}
  BY DEF StoreInv, TypeOK, Apps
<1>1. CASE InitOK
  <2>1. pc = "closed" /\ pc' = "idle" /\ results' = <<>>  BY <1>1 DEF InitOK
  <2>2. Asked' = [n \in 1 .. 1 |-> n - 1]  BY <2>1 DEF Asked
  <2>3. Asked' = <<Asked'[1]>>  BY <2>2
  <2>4. QED  BY <2>1, <2>3 DEF Contract!CNext, Contract!Open, Apps
<1>2. CASE Close
  BY <1>2 DEF Close, storeVars, Contract!CNext, Contract!Shut, Asked, Apps
<1>3. ASSUME NEW b \in Blocks, BeginBlock(b) PROVE Contract!CNext
  <2>1. pc = "idle" /\ pc' = "oracle" /\ UNCHANGED results  BY <1>3 DEF BeginBlock
  <2>2. QED  BY <1>0, <2>1, AskedSteps DEF Contract!CNext, Contract!Call, Contract!Ask, Apps
<1>4. ASSUME NEW b \in Blocks, BuildFails(b) PROVE Contract!CNext
  <2>1. pc = "idle" /\ pc' = "idle" /\ results' = Append(results, "error")  BY <1>4 DEF BuildFails
  <2>2. QED  BY <1>0, <2>1, AskedSteps DEF Contract!CNext, Contract!BuildError, Contract!Ask, Apps
<1>5. CASE RejectHeight \/ FinalizeFails
  <2>1. pc \in Apps /\ pc' = "idle" /\ results' = Append(results, "error")
    BY <1>5 DEF RejectHeight, FinalizeFails, CleanUp
  <2>2. QED  BY <1>0, <2>1, AskedSteps DEF Contract!CNext, Contract!ReturnError, Apps
<1>6. ASSUME NEW failing \in Apps \cup {"none"}, ProbeDone(failing) PROVE Contract!CNext
  <2>1. /\ ~Failed /\ pc = "probe" /\ pc' = "idle"
        /\ results' = Append(results, IF failing = "none" THEN Verdict(BlockFindings) ELSE "error")
    BY <1>0, <1>6 DEF ProbeDone, CleanUp, HeightOK, BlockHeight, HeightsInStep
  <2>2. Asked' = Asked /\ Contract!Accepts  BY <1>0, <2>1, AskedSteps, AcceptedCall DEF Apps
  <2>3. Verdict(BlockFindings) \in {"MATCH", "DIVERGENCE"}  BY VerdictType DEF Match, Divergence
  <2>4. QED
    BY <2>1, <2>2, <2>3 DEF Contract!CNext, Contract!ReturnVerdict, Contract!ReturnError, Apps
<1>7. ASSUME NEW i \in TxIdx, StartTx(i) \/ FinishTx(i) \/ AbortTx(i)
      PROVE  UNCHANGED Contract!cvars
  BY <1>7, WorkerKeepsControl DEF ctl, Asked
<1>8. OracleDone \/ InitProbeFails \/ InitOracleFails \/ Done => UNCHANGED Contract!cvars
  BY DEF OracleDone, InitProbeFails, InitOracleFails, Done, storeVars, vars, Apps, Asked
<1>9. UNCHANGED vars => UNCHANGED Contract!cvars
  BY DEF vars, Asked
<1>10. QED
  BY <1>1, <1>2, <1>3, <1>4, <1>5, <1>6, <1>7, <1>8, <1>9 DEF Next

\* The executor, with everything BlockSTM's workers and failing apps can do, is the
\* abstract executor RunHarness relies on.
THEOREM ContractImplemented == Spec => ImplementsContract
<1>1. Init => Contract!CInit
  BY DEF Init, Contract!CInit, Apps, Asked
<1>2. StoreInv /\ [Next]_vars => [Contract!CNext]_(Contract!cvars)
  BY ContractStep
<1>3. StoreInv /\ TypeOK' /\ [Next]_vars => StoreInv'
  BY StoreInvNext DEF StoreInv
<1>4. QED
  BY <1>1, <1>2, <1>3, StoreInvInit, TypeCorrect, PTL
     DEF Spec, ImplementsContract, Contract!CSpec

-------------------------------------------------------------------------------
(* The shapes of the data.                                                   *)

\* An execution of n transactions.
IsExec(e, n) ==
  /\ DOMAIN e = {"status", "reads", "memRead", "writes", "code", "runs", "aborted"}
  /\ e = [x \in DOMAIN e |-> e[x]]
  /\ e.status = [i \in TxIndices(n) |-> e.status[i]]
  /\ e.reads = [i \in TxIndices(n) |-> e.reads[i]]
  /\ e.memRead = [i \in TxIndices(n) |-> e.memRead[i]]
  /\ e.writes = [i \in TxIndices(n) |-> e.writes[i]]
  /\ e.code = [i \in TxIndices(n) |-> e.code[i]]

\* A block-context tracker, and a sink of non-deterministic calls.
IsCtx(t) ==
  /\ DOMAIN t = {"fields", "currentTx", "mutations"}
  /\ t = [x \in DOMAIN t |-> t[x]]
  /\ ASequence(t.mutations)

IsSink(s) == s = [txIndex |-> s.txIndex, calls |-> s.calls] /\ ASequence(s.calls)

\* Everything a block gathers has its shape, for the block's number of transactions.
Shapes ==
  /\ NTxs \in Nat
  /\ IsExec(exec, NTxs)
  /\ obs = [a \in Apps |-> obs[a]] /\ \A a \in Apps : IsObs(obs[a], NTxs)
  /\ \A a \in Apps, i \in TxIdx : ASequence(obs[a].mutSets[i])
  /\ IsCtx(bct) /\ IsSink(sink)
  /\ pc = "probe" => HasResults(oracleRes, NTxs)

\* What a RunBlock call gathers.
dataVars == <<block, seqs, exec, obs, preSnaps, oracleRes, bct, sink, csink>>

\* Outside compare.Run nothing is gathered.
LEMMA QuietSteps ==
  ASSUME \/ InitOK \/ InitProbeFails \/ InitOracleFails \/ Close \/ RejectHeight \/ FinalizeFails \/ Done
         \/ \E b \in Blocks : BuildFails(b)
  PROVE  UNCHANGED dataVars /\ pc' \in {"idle", "closed"} /\ (last' = last \/ last' = NoResult)
BY DEF InitOK, InitProbeFails, InitOracleFails, Close, RejectHeight, FinalizeFails, Done, BuildFails,
       CleanUp, blockVars, storeVars, vars, dataVars

\* A fresh execution has one slot per transaction.
LEMMA NewExecShape ==
  ASSUME NEW n \in Nat
  PROVE  IsExec(NewExec(n), n)
BY DEF NewExec, IsExec

\* The execution e after a worker step on transaction i.
Started(e, i, r, m) == [e EXCEPT !.status[i] = "running", !.reads[i] = r, !.memRead[i] = m, !.runs = @ + 1]
Finished(e, i, w, c) == [e EXCEPT !.status[i] = "done", !.writes[i] = w, !.code[i] = c]
Aborted(e, i, c) == [e EXCEPT !.status[i] = "ready", !.writes[i] = NoWrites, !.aborted = @ \o c]

\* What it does to the fields of transaction i; those of the others stay.
LEMMA StartedExec ==
  ASSUME NEW n \in Nat, NEW e, IsExec(e, n), NEW i \in TxIndices(n), NEW r, NEW m,
         NEW f, f = Started(e, i, r, m)
  PROVE  /\ IsExec(f, n) /\ f.status[i] = "running" /\ f.reads[i] = r /\ f.memRead[i] = m
         /\ \A j \in TxIndices(n) \ {i} : /\ f.status[j] = e.status[j] /\ f.reads[j] = e.reads[j]
                                         /\ f.memRead[j] = e.memRead[j]
         /\ f.writes = e.writes /\ f.code = e.code /\ f.aborted = e.aborted
BY DEF IsExec, Started

\* FinishTx changes the slot of its own transaction only.
LEMMA FinishedExec ==
  ASSUME NEW n \in Nat, NEW e, IsExec(e, n), NEW i \in TxIndices(n), NEW w, NEW c,
         NEW f, f = Finished(e, i, w, c)
  PROVE  /\ IsExec(f, n) /\ f.status[i] = "done" /\ f.writes[i] = w /\ f.code[i] = c
         /\ \A j \in TxIndices(n) \ {i} : /\ f.status[j] = e.status[j] /\ f.writes[j] = e.writes[j]
                                         /\ f.code[j] = e.code[j]
         /\ f.reads = e.reads /\ f.memRead = e.memRead /\ f.aborted = e.aborted
BY DEF IsExec, Finished

\* AbortTx makes its own transaction ready again and leaves the others alone.
LEMMA AbortedExec ==
  ASSUME NEW n \in Nat, NEW e, IsExec(e, n), NEW i \in TxIndices(n), NEW c,
         NEW f, f = Aborted(e, i, c)
  PROVE  /\ IsExec(f, n) /\ f.status[i] = "ready"
         /\ \A j \in TxIndices(n) \ {i} : f.status[j] = e.status[j] /\ f.writes[j] = e.writes[j]
         /\ f.reads = e.reads /\ f.memRead = e.memRead /\ f.code = e.code
BY DEF IsExec, Aborted

\* AbortTx notes its conflicts behind the earlier ones.
LEMMA AbortedConflicts ==
  ASSUME NEW n \in Nat, NEW e, IsExec(e, n), NEW i \in TxIndices(n), NEW c
  PROVE  Aborted(e, i, c).aborted = e.aborted \o c
BY DEF IsExec, Aborted

\* The worker steps in these terms.
ReadsOf(i) == [k \in {block.txs[i + 1].signer, Counter} |-> Visible(i, k)]

\* What StartTx, FinishTx and AbortTx do to the execution.
LEMMA WorkerExec ==
  ASSUME NEW i
  PROVE  /\ StartTx(i) => pc \in Apps /\ exec' = Started(exec, i, ReadsOf(i), mem[pc])
         /\ FinishTx(i) => pc \in Apps /\ exec' = Finished(exec, i, Writes(i), Code(i))
         /\ AbortTx(i) => pc \in Apps /\ exec' = Aborted(exec, i, Conflicts(i))
BY DEF StartTx, FinishTx, AbortTx, Started, Finished, Aborted, ReadsOf

\* The tracker's methods keep its mutations a sequence.
LEMMA CtxShape ==
  ASSUME NEW t, IsCtx(t), NEW name, NEW v
  PROVE  IsCtx(SetCurrentTx(t, v)) /\ IsCtx(ReadField(t, name)) /\ IsCtx(WriteField(t, name, v))
<1>1. IsCtx(SetCurrentTx(t, v))  BY DEF IsCtx, SetCurrentTx
<1>2. IsCtx(ReadField(t, name))  BY DEF IsCtx, ReadField
<1>3. IsCtx(WriteField(t, name, v))
  <2> DEFINE u == WriteField(t, name, v)
  <2>1. PICK r : u.mutations = Append(t.mutations, r)  BY DEF IsCtx, WriteField
  <2>2. DOMAIN u = {"fields", "currentTx", "mutations"} /\ u = [x \in DOMAIN u |-> u[x]]
    BY DEF IsCtx, WriteField
  <2>3. ASequence(t.mutations)  BY DEF IsCtx
  <2> HIDE DEF u
  <2>4. Append(t.mutations, r) = t.mutations \o <<r>>
    BY <2>3 DEF ASequence
  <2>5. ASequence(u.mutations)  BY <2>1, <2>3, <2>4, ASequenceOne, ASequenceConcat
  <2>6. QED  BY <2>2, <2>5 DEF IsCtx, u
<1>4. QED  BY <1>1, <1>2, <1>3

\* The sink's methods keep its calls a sequence.
LEMMA SinkShape ==
  ASSUME NEW s, IsSink(s), NEW i
  PROVE  IsSink(SinkSetCurrentTx(s, i)) /\ IsSink(Record(s, i)) /\ IsSink(NewSink)
<1>1. IsSink(SinkSetCurrentTx(s, i))  BY DEF IsSink, SinkSetCurrentTx
<1>2. IsSink(NewSink)  BY ASequenceOne DEF IsSink, NewSink
<1>3. IsSink(Record(s, i))
  <2> DEFINE r == [txIndex |-> s.txIndex, src |-> i]
  <2>1. ASequence(s.calls)  BY DEF IsSink
  <2>2. Record(s, i) = [txIndex |-> s.txIndex, calls |-> Append(s.calls, r)]  BY DEF IsSink, Record
  <2> HIDE DEF r
  <2>3. Append(s.calls, r) = s.calls \o <<r>>  BY <2>1 DEF ASequence
  <2>4. ASequence(Append(s.calls, r))  BY <2>1, <2>3, ASequenceOne, ASequenceConcat
  <2>5. QED  BY <2>2, <2>4 DEF IsSink
<1>4. QED  BY <1>1, <1>2, <1>3

\* The snapshots of the block's trackers.
LEMMA SnapshotsDomain ==
  ASSUME TypeOK, NEW f
  PROVE  /\ Len(trackers) \in Nat
         /\ DOMAIN BlockTrackers = 1 .. Len(trackers) + 1 /\ DOMAIN Snapshots(f) = 1 .. Len(trackers) + 1
BY DEF TypeOK, BlockTrackers, Snapshots

\* A block of the corpus.
LEMMA BlockLen ==
  ASSUME NEW b \in Blocks
  PROVE  Len(b.txs) \in Nat /\ b.txs \in Seq([msg : STRING, signer : Signers, arg : Int])
<1>1. b.txs \in Seq([msg : STRING, signer : Signers, arg : Int])  BY ConstantsAssumption
<1>2. QED  BY <1>1

\* The observers of both apps, when that of the running one becomes o.
LEMMA ObsUpdated ==
  ASSUME Shapes, NEW a \in Apps, NEW o, IsObs(o, NTxs), obs' = [obs EXCEPT ![a] = o],
         \A i \in TxIdx : ASequence(o.mutSets[i])
  PROVE  /\ obs' = [b \in Apps |-> obs'[b]] /\ \A b \in Apps : IsObs(obs'[b], NTxs)
         /\ \A b \in Apps, i \in TxIdx : ASequence(obs'[b].mutSets[i])
         /\ obs'[a] = o /\ \A b \in Apps : b # a => obs'[b] = obs[b]
<1>1. DOMAIN obs = Apps  BY DEF Shapes
<1>2. obs'[a] = o /\ \A b \in Apps : b # a => obs'[b] = obs[b]  BY <1>1
<1>3. obs' = [b \in Apps |-> obs'[b]]  BY <1>1
<1>4. QED  BY <1>2, <1>3 DEF Shapes

\* More mutations of transaction i are still a sequence for every transaction.
LEMMA ExtendedSeqs ==
  ASSUME NEW n \in Nat, NEW o, NEW p, IsObs(o, n), NEW i \in TxIndices(n), NEW ms, Extended(o, p, i, ms),
         ASequence(ms), \A j \in TxIndices(n) : ASequence(o.mutSets[j])
  PROVE  /\ \A j \in TxIndices(n) : ASequence(p.mutSets[j])
         /\ \A j \in TxIndices(n) : \A x : Occurs(x, p.mutSets[j]) <=>
              Occurs(x, o.mutSets[j]) \/ (j = i /\ Occurs(x, ms))
<1>1. DOMAIN o.mutSets = TxIndices(n)  BY DEF IsObs
<1>2. p.mutSets[i] = o.mutSets[i] \o ms /\ \A j \in TxIndices(n) : j # i => p.mutSets[j] = o.mutSets[j]
  BY <1>1, SMTT(60) DEF Extended
<1>3. ASequence(o.mutSets[i] \o ms) /\ \A x : Occurs(x, o.mutSets[i] \o ms) <=> Occurs(x, o.mutSets[i]) \/ Occurs(x, ms)
  BY ASequenceConcat
<1>4. QED  BY <1>2, <1>3

\* The keeper's field after transaction i, which runs in pc.
FieldAfter(i) == IF AnteOK(i) /\ block.txs[i + 1].msg = "map-set" THEN block.txs[i + 1].arg ELSE mem[pc]

\* The callbacks at the end of transaction i.
LEMMA FinishedObs ==
  ASSUME TypeOK, Shapes, NEW i \in TxIdx, FinishTx(i)
  PROVE  /\ pc \in Apps /\ IsObs(obs'[pc], NTxs) /\ \A j \in TxIdx : ASequence(obs'[pc].mutSets[j])
         /\ obs' = [obs EXCEPT ![pc] = obs'[pc]]
         /\ obs'[pc].writeSets[i] = obs[pc].writeSets[i] \cup DOMAIN Writes(i)
         /\ \A j \in TxIdx \ {i} : /\ obs'[pc].writeSets[j] = obs[pc].writeSets[j]
                                  /\ obs'[pc].mutSets[j] = obs[pc].mutSets[j]
         /\ obs'[pc].snapshots = obs[pc].snapshots
         /\ \/ obs'[pc].mutSets[i] = obs[pc].mutSets[i]
            \/ /\ pc = "oracle" /\ HookMode = "inline"
               /\ obs'[pc].mutSets[i] = obs[pc].mutSets[i]
                                         \o MutationRecords(obs[pc].snapshots[i], Snapshots(FieldAfter(i)))
            \/ pc = "probe"
<1> DEFINE q == obs[pc]  keys == DOMAIN Writes(i)  o == OnKVWrite(q, keys, i)
           snaps == IF pc = "oracle" THEN Snapshots(FieldAfter(i)) ELSE <<>>
           p == IF HookMode = "inline" THEN OnTxEnd(o, i, snaps) ELSE o
<1>1. pc \in Apps /\ obs' = [obs EXCEPT ![pc] = p]  BY DEF FinishTx, FieldAfter
<1>2. /\ NTxs \in Nat /\ i \in TxIndices(NTxs) /\ IsObs(q, NTxs) /\ DOMAIN obs = Apps
      /\ \A j \in TxIndices(NTxs) : ASequence(q.mutSets[j])
  BY <1>1 DEF Shapes, TxIdx
<1>3. \E n \in Nat : DOMAIN snaps = 1 .. n
  <2>1. DOMAIN Snapshots(FieldAfter(i)) = 1 .. Len(trackers) + 1 /\ Len(trackers) + 1 \in Nat
    BY SnapshotsDomain
  <2>2. CASE pc = "oracle"
    <3>1. DOMAIN snaps = 1 .. Len(trackers) + 1  BY <2>1, <2>2
    <3> HIDE DEF snaps
    <3>2. QED  BY <2>1, <3>1
  <2>3. CASE pc # "oracle"
    <3>1. DOMAIN snaps = 1 .. 0  BY <2>3
    <3> HIDE DEF snaps
    <3>2. QED  BY <3>1
  <2>4. QED  BY <2>2, <2>3
<1>4. obs'[pc] = p /\ obs' = [obs EXCEPT ![pc] = obs'[pc]]
  <2> HIDE DEF p
  <2> QED  BY <1>1, <1>2
<1> HIDE DEF q, keys
<1>5. /\ IsObs(o, NTxs) /\ o.mutSets = q.mutSets /\ o.snapshots = q.snapshots
      /\ o.writeSets[i] = q.writeSets[i] \cup keys
      /\ \A j \in TxIndices(NTxs) \ {i} : o.writeSets[j] = q.writeSets[j]
  BY <1>2, OnKVWriteObs
<1> HIDE DEF o, snaps
<1>6. /\ IsObs(p, NTxs) /\ p.writeSets = o.writeSets /\ p.snapshots = o.snapshots
      /\ \A j \in TxIndices(NTxs) : ASequence(p.mutSets[j])
      /\ \A j \in TxIndices(NTxs) \ {i} : p.mutSets[j] = o.mutSets[j]
      /\ \/ p.mutSets[i] = o.mutSets[i]
         \/ HookMode = "inline" /\ p.mutSets[i] = o.mutSets[i] \o MutationRecords(o.snapshots[i], snaps)
  <2>1. CASE p = o
    <3>1. p.mutSets = q.mutSets  BY <1>5, <2>1
    <3>2. QED  BY <1>2, <1>5, <2>1, <3>1
  <2>2. CASE p # o
    <3> DEFINE ms == MutationRecords(o.snapshots[i], snaps)
    <3>1. HookMode = "inline" /\ IsObs(p, NTxs) /\ Extended(o, p, i, ms)
      BY <1>2, <1>5, <2>2, OnTxEndObs
    <3>2. ASequence(ms)  BY <1>3, MutationRecordsExact
    <3> HIDE DEF ms, p
    <3>3. \A j \in TxIndices(NTxs) : ASequence(o.mutSets[j])  BY <1>2, <1>5
    <3>4. \A j \in TxIndices(NTxs) : ASequence(p.mutSets[j])
      BY <1>2, <1>5, <3>1, <3>2, <3>3, ExtendedSeqs
    <3>5. p.mutSets[i] = o.mutSets[i] \o ms /\ \A j \in TxIndices(NTxs) \ {i} : p.mutSets[j] = o.mutSets[j]
      <4>1. DOMAIN o.mutSets = TxIndices(NTxs)  BY <1>5 DEF IsObs
      <4>2. QED  BY <1>2, <3>1, <4>1 DEF Extended
    <3>6. p.writeSets = o.writeSets /\ p.snapshots = o.snapshots  BY <3>1 DEF Extended
    <3>7. QED  BY <3>1, <3>4, <3>5, <3>6 DEF ms
  <2>3. QED  BY <2>1, <2>2
<1> HIDE DEF p
<1>7. pc = "oracle" => snaps = Snapshots(FieldAfter(i))  BY DEF snaps
<1>8. pc = "oracle" \/ pc = "probe"  BY <1>1 DEF Apps
<1>9. p.writeSets[i] = q.writeSets[i] \cup keys /\ \A j \in TxIndices(NTxs) \ {i} : p.writeSets[j] = q.writeSets[j]
  BY <1>5, <1>6
<1>10. /\ \A j \in TxIndices(NTxs) \ {i} : p.mutSets[j] = q.mutSets[j]
       /\ \/ p.mutSets[i] = q.mutSets[i]
          \/ pc = "oracle" /\ HookMode = "inline" /\ p.mutSets[i] = q.mutSets[i] \o MutationRecords(q.snapshots[i], Snapshots(FieldAfter(i)))
          \/ pc = "probe"
  BY <1>5, <1>6, <1>7, <1>8
<1>11. obs[pc] = q /\ DOMAIN Writes(i) = keys  BY DEF q, keys
<1>12. QED  BY <1>1, <1>4, <1>5, <1>6, <1>9, <1>10, <1>11, ZenonT(60) DEF TxIdx

\* The callback at the start of transaction i.
LEMMA StartedObs ==
  ASSUME Shapes, NEW i \in TxIdx, StartTx(i)
  PROVE  /\ pc \in Apps /\ IsObs(obs'[pc], NTxs) /\ obs'[pc].mutSets = obs[pc].mutSets
         /\ obs' = [obs EXCEPT ![pc] = obs'[pc]]
         /\ HookMode = "inline" => obs'[pc].writeSets[i] = {} /\ obs'[pc].snapshots[i] = ObsSnapshots
         /\ \A j \in TxIdx \ {i} : /\ obs'[pc].writeSets[j] = obs[pc].writeSets[j]
                                  /\ obs'[pc].snapshots[j] = obs[pc].snapshots[j]
<1>1. pc \in Apps  BY DEF StartTx
<1>2. NTxs \in Nat /\ i \in TxIndices(NTxs) /\ IsObs(obs[pc], NTxs) /\ DOMAIN obs = Apps /\ obs = [a \in Apps |-> obs[a]]
  BY <1>1 DEF Shapes, TxIdx
<1>3. CASE HookMode = "inline"
  <2> DEFINE q == obs[pc]  snaps == ObsSnapshots  p == OnTxStart(q, i, snaps)
  <2>1. obs' = [obs EXCEPT ![pc] = p]  BY <1>3 DEF StartTx
  <2>2. obs'[pc] = p  BY <1>1, <1>2, <2>1
  <2>3. NTxs \in Nat /\ i \in TxIndices(NTxs) /\ IsObs(q, NTxs)  BY <1>2
  <2> HIDE DEF q, snaps
  <2>4. /\ IsObs(p, NTxs) /\ p.mutSets = q.mutSets /\ p.writeSets[i] = {} /\ p.snapshots[i] = snaps
        /\ \A j \in TxIndices(NTxs) \ {i} : p.writeSets[j] = q.writeSets[j] /\ p.snapshots[j] = q.snapshots[j]
    BY <2>3, OnTxStartObs
  <2> HIDE DEF p
  <2>5. obs' = [obs EXCEPT ![pc] = obs'[pc]]  BY <2>1, <2>2
  <2>6. QED  BY <1>1, <1>3, <2>2, <2>4, <2>5 DEF q, snaps, TxIdx
<1>4. CASE HookMode # "inline"
  <2>1. obs' = obs  BY <1>4 DEF StartTx
  <2>2. QED  BY <1>1, <1>2, <1>4, <2>1
<1>5. QED  BY <1>3, <1>4

\* What the runner's loop after the block leaves of an observer.
LEMMA LoopedObs ==
  ASSUME Shapes, NEW a \in Apps, NEW snaps
  PROVE  /\ IsObs(AfterLoop(obs[a], snaps), NTxs) /\ AfterLoop(obs[a], snaps).mutSets = obs[a].mutSets
         /\ HookMode # "posthoc" => AfterLoop(obs[a], snaps) = obs[a]
         /\ HookMode = "posthoc" => \A i \in TxIdx : AfterLoop(obs[a], snaps).writeSets[i] = {}
<1>1. NTxs \in Nat /\ IsObs(obs[a], NTxs)  BY DEF Shapes
<1>2. CASE HookMode = "posthoc"
  BY <1>1, <1>2, PostHocLoopObs DEF AfterLoop, TxIdx
<1>3. CASE HookMode # "posthoc"
  BY <1>1, <1>3 DEF AfterLoop
<1>4. QED  BY <1>2, <1>3

\* The oracle's observer when its FinalizeBlock has returned: the mutations of the whole
\* block are added to those of transaction 0.
LEMMA OracleDoneObs ==
  ASSUME TypeOK, Shapes, OracleDone
  PROVE  /\ obs' = [obs EXCEPT !["oracle"] = obs'["oracle"]]
         /\ IsObs(obs'["oracle"], NTxs) /\ \A j \in TxIdx : ASequence(obs'["oracle"].mutSets[j])
         /\ HookMode # "posthoc" => obs'["oracle"].writeSets = obs["oracle"].writeSets
         /\ HookMode = "posthoc" => \A j \in TxIdx : obs'["oracle"].writeSets[j] = {}
         /\ \A j \in TxIdx \ {0} : obs'["oracle"].mutSets[j] = obs["oracle"].mutSets[j]
         /\ 0 \in TxIdx => /\ ASequence(MutationRecords(preSnaps, Snapshots(EndBlockMem("oracle"))))
                           /\ obs'["oracle"].mutSets[0] = obs["oracle"].mutSets[0]
                                                     \o MutationRecords(preSnaps, Snapshots(EndBlockMem("oracle")))
<1> DEFINE snaps == Snapshots(mem["oracle"])
           o == AfterLoop(obs["oracle"], snaps)
           after == Snapshots(EndBlockMem("oracle"))
           ms == MutationRecords(preSnaps, after)
           p == AddBlockMutations(o, ms)
<1>1. obs' = [obs EXCEPT !["oracle"] = p]  BY DEF OracleDone
<1>2. "oracle" \in Apps /\ NTxs \in Nat /\ DOMAIN obs = Apps /\ \A j \in TxIdx : ASequence(obs["oracle"].mutSets[j])
  BY DEF Shapes, Apps
<1>3. ASequence(ms)
  <2>1. DOMAIN after = 1 .. Len(trackers) + 1 /\ Len(trackers) + 1 \in Nat  BY SnapshotsDomain
  <2> HIDE DEF after
  <2>2. QED  BY <2>1, MutationRecordsExact
<1> HIDE DEF ms, snaps
<1>4. /\ IsObs(o, NTxs) /\ o.mutSets = obs["oracle"].mutSets
      /\ HookMode # "posthoc" => o = obs["oracle"]
      /\ HookMode = "posthoc" => \A j \in TxIdx : o.writeSets[j] = {}
  BY <1>2, LoopedObs
<1> HIDE DEF o
<1>5. obs'["oracle"] = p /\ obs' = [obs EXCEPT !["oracle"] = obs'["oracle"]]
  <2> HIDE DEF p
  <2> QED  BY <1>1, <1>2
<1>6. \A j \in TxIndices(NTxs) : ASequence(o.mutSets[j])  BY <1>2, <1>4 DEF TxIdx
<1>7. /\ IsObs(p, NTxs) /\ p.writeSets = o.writeSets /\ \A j \in TxIdx : ASequence(p.mutSets[j])
      /\ \A j \in TxIdx \ {0} : p.mutSets[j] = o.mutSets[j]
      /\ 0 \in TxIdx => p.mutSets[0] = o.mutSets[0] \o ms
  <2>1. /\ IsObs(p, NTxs)
        /\ NTxs = 0 => p = o
        /\ NTxs > 0 => Extended(o, p, 0, ms)
    BY <1>2, <1>4, AddBlockMutationsObs
  <2> HIDE DEF p
  <2>2. CASE NTxs = 0
    <3>1. 0 \notin TxIdx  BY <2>2 DEF TxIdx, TxIndices
    <3>2. QED  BY <1>4, <1>6, <2>1, <2>2, <3>1 DEF TxIdx
  <2>3. CASE NTxs > 0
    <3>1. 0 \in TxIndices(NTxs)  BY <1>2, <2>3 DEF TxIndices
    <3>2. Extended(o, p, 0, ms) /\ DOMAIN o.mutSets = TxIndices(NTxs)  BY <1>4, <2>1, <2>3 DEF IsObs
    <3>3. \A j \in TxIdx : ASequence(p.mutSets[j])
      BY <1>2, <1>3, <1>4, <1>6, <3>1, <3>2, ExtendedSeqs DEF TxIdx
    <3>4. p.writeSets = o.writeSets  BY <3>2 DEF Extended
    <3>5. p.mutSets[0] = o.mutSets[0] \o ms /\ \A j \in TxIdx \ {0} : p.mutSets[j] = o.mutSets[j]
      BY <3>1, <3>2 DEF Extended, TxIdx
    <3>6. QED  BY <2>1, <3>3, <3>4, <3>5
  <2>4. QED  BY <1>2, <2>2, <2>3
<1> HIDE DEF p
<1>8. ms = MutationRecords(preSnaps, Snapshots(EndBlockMem("oracle")))  BY DEF ms
<1>9. QED  BY <1>3, <1>4, <1>5, <1>7, <1>8

\* The observers, the execution and the sinks start in shape.
LEMMA ShapesInit == Init => Shapes
<1> SUFFICES ASSUME Init PROVE Shapes  OBVIOUS
<1>1. NTxs = 0  BY DEF Init, NTxs, NoBlock
<1>2. TxIdx = {}  BY <1>1 DEF TxIdx, TxIndices
<1>3. obs = [a \in Apps |-> NoObs] /\ exec = NewExec(0) /\ bct = Reset(<<>>) /\ sink = NewSink /\ pc = "closed"
  BY DEF Init
<1>4. IsObs(NoObs, 0) /\ IsExec(exec, 0)  BY <1>3, NewObs, NewExecShape DEF NoObs
<1>5. IsCtx(bct)  BY <1>3, ASequenceOne DEF IsCtx, Reset
<1>6. IsSink(sink)  BY <1>3, ASequenceOne DEF IsSink, NewSink
<1>7. QED  BY <1>1, <1>2, <1>3, <1>4, <1>5, <1>6 DEF Shapes

\* One step keeps the observers, the execution and the sinks in shape.
LEMMA ShapesNext == TypeOK /\ Shapes /\ [Next]_vars => Shapes'
<1> SUFFICES ASSUME TypeOK, Shapes, [Next]_vars PROVE Shapes'  OBVIOUS
<1>0. /\ NTxs \in Nat /\ IsExec(exec, NTxs) /\ DOMAIN obs = Apps
      /\ \A a \in Apps : IsObs(obs[a], NTxs)
      /\ \A a \in Apps, i \in TxIdx : ASequence(obs[a].mutSets[i])
      /\ IsCtx(bct) /\ IsSink(sink)
  BY DEF Shapes
<1>1. CASE UNCHANGED dataVars /\ (pc' = pc \/ pc' \in {"idle", "closed"})
  BY <1>1 DEF Shapes, dataVars, NTxs, TxIdx
<1>2. ASSUME NEW b \in Blocks, BeginBlock(b) PROVE Shapes'
  <2>1. /\ NTxs' = Len(b.txs) /\ Len(b.txs) \in Nat /\ exec' = NewExec(Len(b.txs)) /\ pc' = "oracle"
        /\ UNCHANGED sink /\ bct' = OracleBlockCtxTracker
        /\ obs' = [oracle |-> NewBlockObserver(Len(b.txs), Len(BlockTrackers)),
                   probe  |-> NewBlockObserver(Len(b.txs), 0)]
    BY <1>2, BlockLen DEF BeginBlock, NTxs
  <2>2. obs' = [a \in Apps |-> obs'[a]]  BY <2>1 DEF Apps
  <2>3. \A a \in Apps : /\ IsObs(obs'[a], Len(b.txs))
                       /\ \A i \in TxIndices(Len(b.txs)) : obs'[a].mutSets[i] = <<>>
    <3> DEFINE n == Len(b.txs)  k == Len(BlockTrackers)
    <3>1. obs'["oracle"] = NewBlockObserver(n, k) /\ obs'["probe"] = NewBlockObserver(n, 0)  BY <2>1
    <3>2. n \in Nat  BY <2>1
    <3> HIDE DEF n, k
    <3>3. QED  BY <3>1, <3>2, NewObs DEF Apps, n
  <2>4. IsExec(exec', Len(b.txs))  BY <2>1, NewExecShape
  <2>5. IsCtx(bct')  BY <2>1, ASequenceOne DEF IsCtx, OracleBlockCtxTracker, Reset
  <2>6. TxIdx' = TxIndices(Len(b.txs))  BY <2>1 DEF TxIdx
  <2>7. QED  BY <1>0, <2>1, <2>2, <2>3, <2>4, <2>5, <2>6, ASequenceOne DEF Shapes
<1>3. ASSUME NEW i \in TxIdx, StartTx(i) PROVE Shapes'
  <2>1. pc \in Apps /\ UNCHANGED <<pc, block, oracleRes>>  BY <1>3 DEF StartTx
  <2>2. NTxs' = NTxs /\ TxIdx' = TxIdx /\ i \in TxIndices(NTxs)  BY <2>1 DEF NTxs, TxIdx
  <2>3. IsExec(exec', NTxs)  BY <1>0, <1>3, <2>2, WorkerExec, StartedExec
  <2>4. /\ IsObs(obs'[pc], NTxs) /\ obs'[pc].mutSets = obs[pc].mutSets
        /\ obs' = [obs EXCEPT ![pc] = obs'[pc]]
    BY <1>3, StartedObs
  <2>5. \A j \in TxIdx : ASequence(obs'[pc].mutSets[j])  BY <1>0, <2>1, <2>4
  <2>6. /\ obs' = [a \in Apps |-> obs'[a]] /\ \A a \in Apps : IsObs(obs'[a], NTxs)
        /\ \A a \in Apps, j \in TxIdx : ASequence(obs'[a].mutSets[j])
    BY <2>1, <2>4, <2>5, ObsUpdated
  <2>7. IsCtx(bct') /\ IsSink(sink')  BY <1>0, <1>3, CtxShape, SinkShape DEF StartTx
  <2>8. QED  BY <2>1, <2>2, <2>3, <2>6, <2>7 DEF Shapes
<1>4. ASSUME NEW i \in TxIdx, FinishTx(i) PROVE Shapes'
  <2>1. pc \in Apps /\ UNCHANGED <<pc, block, oracleRes>>  BY <1>4 DEF FinishTx
  <2>2. NTxs' = NTxs /\ TxIdx' = TxIdx /\ i \in TxIndices(NTxs)  BY <2>1 DEF NTxs, TxIdx
  <2>3. IsExec(exec', NTxs)  BY <1>0, <1>4, <2>2, WorkerExec, FinishedExec
  <2>4. /\ obs' = [a \in Apps |-> obs'[a]] /\ \A a \in Apps : IsObs(obs'[a], NTxs)
        /\ \A a \in Apps, j \in TxIdx : ASequence(obs'[a].mutSets[j])
    BY <1>4, <2>1, FinishedObs, ObsUpdated
  <2>5. IsSink(sink')
    <3> DEFINE src == <<gen, BlockHeight, pc, i>>
    <3>1. sink' = sink \/ sink' = Record(sink, src)  BY <1>4 DEF FinishTx
    <3> HIDE DEF src
    <3>2. QED  BY <1>0, <3>1, SinkShape
  <2>6. IsCtx(bct')
    <3>1. bct' = bct \/ bct' = BlockContextHandlers(block.txs[i + 1])  BY <1>4 DEF FinishTx
    <3>2. \A t : IsCtx(BlockContextHandlers(t))  BY <1>0, CtxShape DEF BlockContextHandlers
    <3>3. QED  BY <1>0, <3>1, <3>2
  <2>7. QED  BY <2>1, <2>2, <2>3, <2>4, <2>5, <2>6 DEF Shapes
<1>5. ASSUME NEW i \in TxIdx, AbortTx(i) PROVE Shapes'
  <2>1. pc \in Apps /\ UNCHANGED <<pc, block, oracleRes, obs, bct, sink>>  BY <1>5 DEF AbortTx
  <2>2. NTxs' = NTxs /\ TxIdx' = TxIdx /\ i \in TxIndices(NTxs)  BY <2>1 DEF NTxs, TxIdx
  <2>3. IsExec(exec', NTxs)  BY <1>0, <1>5, <2>2, WorkerExec, AbortedExec
  <2>4. QED  BY <2>1, <2>2, <2>3 DEF Shapes
<1>6. CASE OracleDone
  <2>1. /\ UNCHANGED block /\ exec' = NewExec(NTxs) /\ oracleRes' = Response
        /\ bct' = SetCurrentTx(bct, LastTx(bct.currentTx))
        /\ sink' = SinkSetCurrentTx(sink, LastTx(sink.txIndex))
    BY <1>6 DEF OracleDone
  <2>2. NTxs' = NTxs /\ TxIdx' = TxIdx /\ "oracle" \in Apps  BY <2>1 DEF NTxs, TxIdx, Apps
  <2>3. IsExec(exec', NTxs)  BY <1>0, <2>1, NewExecShape
  <2>4. IsCtx(bct') /\ IsSink(sink')  BY <1>0, <2>1, CtxShape, SinkShape
  <2>5. HasResults(oracleRes', NTxs)  BY <2>1 DEF HasResults, Response
  <2>6. /\ obs' = [a \in Apps |-> obs'[a]] /\ \A a \in Apps : IsObs(obs'[a], NTxs)
        /\ \A a \in Apps, j \in TxIdx : ASequence(obs'[a].mutSets[j])
    BY <1>6, <2>2, OracleDoneObs, ObsUpdated
  <2>7. QED  BY <1>0, <2>1, <2>2, <2>3, <2>4, <2>5, <2>6 DEF Shapes
<1>7. ASSUME NEW failing \in Apps \cup {"none"}, ProbeDone(failing) PROVE Shapes'
  <2>1. /\ UNCHANGED <<block, exec, bct>> /\ obs' = [obs EXCEPT !["probe"] = ProbeObserved]
        /\ sink' = NewSink /\ pc' = "idle"
    BY <1>7 DEF ProbeDone, Drained, CleanUp
  <2>2. NTxs' = NTxs /\ TxIdx' = TxIdx /\ "probe" \in Apps  BY <2>1 DEF NTxs, TxIdx, Apps
  <2>3. IsObs(ProbeObserved, NTxs) /\ ProbeObserved.mutSets = obs["probe"].mutSets
    BY <2>2, LoopedObs DEF ProbeObserved
  <2>4. \A j \in TxIdx : ASequence(ProbeObserved.mutSets[j])  BY <1>0, <2>2, <2>3
  <2>5. IsSink(sink')  BY <2>1, ASequenceOne DEF IsSink, NewSink
  <2>6. QED  BY <1>0, <2>1, <2>2, <2>3, <2>4, <2>5, ObsUpdated DEF Shapes
<1>8. CASE UNCHANGED vars
  BY <1>1, <1>8 DEF vars, dataVars
<1>9. QED
  BY <1>1, <1>2, <1>3, <1>4, <1>5, <1>6, <1>7, <1>8, QuietSteps DEF Next

\* Every state has these shapes.
LEMMA ShapesHold == Spec => [](TypeOK /\ Shapes)
<1>1. TypeOK /\ Shapes /\ [Next]_vars => Shapes'  BY ShapesNext
<1>2. QED  BY <1>1, ShapesInit, TypeCorrect, PTL DEF Spec

-------------------------------------------------------------------------------
(* The findings of a block are those of compare.Run's loops.                 *)

\* x is a finding of the block that ends now.
BlockFound(x) ==
  \/ Occurs(x, AppHashFindings(BlockHeight, oracleRes, Response))
  \/ ReportsDiff(x, BlockHeight, "error_code", Codes(oracleRes, NTxs), Codes(Response, NTxs), NTxs)
  \/ ReportsDiff(x, BlockHeight, "gas", Gas(oracleRes, NTxs), Gas(Response, NTxs), NTxs)
  \/ ReportsDiff(x, BlockHeight, "events", Events(oracleRes, NTxs), Events(Response, NTxs), NTxs)
  \/ ReportsDiff(x, BlockHeight, "write_set", WriteSets(obs["oracle"], NTxs), WriteSets(ProbeObserved, NTxs), NTxs)
  \/ Occurs(x, MutationFindings(BlockHeight, NTxs, NTxs, obs["oracle"]))
  \/ Occurs(x, BlockContextFindings(BlockHeight, bct.mutations))
  \/ Occurs(x, NonDetFindings(BlockHeight, sink.calls))

\* compare.Run finds exactly what BlockFound describes.
LEMMA BlockFindingsExact ==
  ASSUME Shapes, pc = "probe"
  PROVE  ASequence(BlockFindings) /\ \A x : Occurs(x, BlockFindings) <=> BlockFound(x)
<1> DEFINE n == NTxs  p == Response  oObs == obs["oracle"]  pObs == ProbeObserved
           muts == bct.mutations  calls == sink.calls  h == BlockHeight
<1>1. n \in Nat /\ IsObs(oObs, n) /\ HasResults(oracleRes, n)
  BY DEF Shapes, Apps
<1>2. \A i \in TxIndices(n) : ASequence(oObs.mutSets[i])  BY DEF Shapes, Apps, TxIdx
<1>3. ASequence(muts) /\ ASequence(calls)  BY DEF Shapes, IsCtx, IsSink
<1>4. HasResults(p, n)  BY DEF HasResults, Response
<1>5. BlockFindings = RunFindings(h, oracleRes, p, n, oObs, pObs, muts, calls)  BY DEF BlockFindings
<1> HIDE DEF n, p, oObs, pObs, muts, calls, h
<1>6. /\ ASequence(RunFindings(h, oracleRes, p, n, oObs, pObs, muts, calls))
      /\ \A x : Occurs(x, RunFindings(h, oracleRes, p, n, oObs, pObs, muts, calls)) <=>
              \/ Occurs(x, AppHashFindings(h, oracleRes, p))
              \/ ReportsDiff(x, h, "error_code", Codes(oracleRes, n), Codes(p, n), n)
              \/ ReportsDiff(x, h, "gas", Gas(oracleRes, n), Gas(p, n), n)
              \/ ReportsDiff(x, h, "events", Events(oracleRes, n), Events(p, n), n)
              \/ ReportsDiff(x, h, "write_set", WriteSets(oObs, n), WriteSets(pObs, n), n)
              \/ Occurs(x, MutationFindings(h, n, n, oObs))
              \/ Occurs(x, BlockContextFindings(h, muts))
              \/ Occurs(x, NonDetFindings(h, calls))
  BY <1>1, <1>2, <1>3, <1>4, RunFindingsExact
<1>7. QED  BY <1>5, <1>6 DEF BlockFound, n, p, oObs, pObs, muts, calls, h

\* A block whose stores differ is not a match.
LEMMA DriftIsReported ==
  ASSUME Shapes, pc = "probe", oracleRes.appHash # FinalKV
  PROVE  Verdict(BlockFindings) = Divergence
<1>1. Response.appHash = FinalKV  BY DEF Response
<1>2. PICK x : AppHashFindings(BlockHeight, oracleRes, Response) = <<x>>
  BY <1>1 DEF AppHashFindings
<1>3. Occurs(x, BlockFindings)  BY <1>2, ASequenceOne, BlockFindingsExact DEF BlockFound
<1>4. BlockFindings # <<>>  BY <1>3, ASequenceEmpty, BlockFindingsExact
<1>5. QED  BY <1>4 DEF Verdict

\* At every moment, not only between blocks: the stores are equal as long as every block of
\* the store has been a match.
StoresAgree ==
  ~Failed /\ (\A n \in DOMAIN results : results[n] # Divergence) => kv["oracle"] = kv["probe"]

\* The stores cannot drift apart unnoticed.  The commits of a reported block replace both
\* stores by what compare.Run compared, and a difference of those is a finding.
THEOREM DriftNeverSilent == Spec => []NoSilentDrift
<1>1. Init => StoresAgree  BY DEF Init, StoresAgree, Apps
<1>2. TypeOK /\ Shapes /\ StoresAgree /\ [Next]_vars => StoresAgree'
  <2> SUFFICES ASSUME TypeOK, Shapes, StoresAgree, [Next]_vars PROVE StoresAgree'  OBVIOUS
  <2>0. results \in Seq(Outcomes)  BY DEF TypeOK
  <2>1. CASE UNCHANGED <<kv, results>>  BY <2>1 DEF StoresAgree, Failed
  <2>2. CASE InitOK  BY <2>2 DEF InitOK, StoresAgree, Apps
  <2>3. CASE results' = Append(results, "error")
    <3>1. results'[Len(results) + 1] = "error" /\ Len(results) + 1 \in DOMAIN results'
      BY <2>0, <2>3 DEF Outcomes
    <3>2. Failed'  BY <3>1 DEF Failed
    <3>3. QED  BY <3>2 DEF StoresAgree
  <2>4. ASSUME NEW failing \in Apps \cup {"none"}, ProbeDone(failing) PROVE StoresAgree'
    <3>1. CASE failing # "none"  BY <2>3, <2>4, <3>1 DEF ProbeDone
    <3>2. CASE failing = "none"
      <4>1. /\ kv'["oracle"] = oracleRes.appHash /\ kv'["probe"] = FinalKV
            /\ results' = Append(results, Verdict(BlockFindings)) /\ pc = "probe"
        BY <2>4, <3>2 DEF ProbeDone, Committed, Apps
      <4> DEFINE v == Verdict(BlockFindings)
      <4>2. v \in Outcomes  BY VerdictType DEF Outcomes
      <4> HIDE DEF v
      <4>3. Len(results) + 1 \in DOMAIN results' /\ results'[Len(results) + 1] = v
        BY <2>0, <4>1, <4>2 DEF v
      <4>4. QED  BY <4>1, <4>3, DriftIsReported DEF StoresAgree, v
    <3>3. QED  BY <3>1, <3>2
  <2>5. ASSUME NEW b \in Blocks, BeginBlock(b) \/ BuildFails(b) PROVE StoresAgree'
    BY <2>1, <2>3, <2>5 DEF BeginBlock, BuildFails, appVars
  <2>6. ASSUME NEW i \in TxIdx, StartTx(i) \/ FinishTx(i) \/ AbortTx(i) PROVE StoresAgree'
    BY <2>1, <2>6 DEF StartTx, FinishTx, AbortTx, storeVars, appVars
  <2>7. CASE InitProbeFails \/ InitOracleFails \/ Close \/ OracleDone \/ Done \/ UNCHANGED vars
    BY <2>1, <2>7 DEF InitProbeFails, InitOracleFails, Close, OracleDone, Done, vars, storeVars, appVars
  <2>8. CASE RejectHeight \/ FinalizeFails
    BY <2>3, <2>8 DEF RejectHeight, FinalizeFails
  <2>9. QED  BY <2>2, <2>4, <2>5, <2>6, <2>7, <2>8 DEF Next
<1>3. StoresAgree => NoSilentDrift  BY DEF StoresAgree, NoSilentDrift
<1>4. QED  BY <1>1, <1>2, <1>3, ShapesHold, PTL DEF Spec

-------------------------------------------------------------------------------
(***************************************************************************)
(* Trackers.  Only the last tracker of the list belongs to the oracle app    *)
(* that runs; the ones left over snapshot a keeper nobody touches.           *)
(***************************************************************************)
OwnTracker == Len(trackers)

TrackerInv ==
  /\ \A n \in 1 .. Len(trackers) : trackers[n] <= gen
  /\ pc # "closed" => /\ Len(trackers) > 0 /\ trackers[Len(trackers)] = gen
                      /\ \A n \in 1 .. Len(trackers) - 1 : trackers[n] < gen

\* Snapshots that can differ from others only for the oracle's own tracker.
IsSnap(s) ==
  /\ IsColumn(s, Len(trackers) + 1)
  /\ \A t \in 1 .. Len(trackers) + 1 : t # OwnTracker => s[t] = IF t = Len(trackers) + 1 THEN <<>> ELSE <<MemInit>>

\* The mutations in s are all of the oracle's own tracker.
OwnMutations(s) == \A k \in DOMAIN s : s[k].tracker = OwnTracker

SnapInv ==
  pc \in Apps =>
    /\ IsSnap(preSnaps)
    /\ pc = "oracle" /\ HookMode = "inline" =>
         \A i \in TxIdx : exec.status[i] = "running" => IsSnap(obs["oracle"].snapshots[i])
    /\ \A i \in TxIdx : OwnMutations(obs["oracle"].mutSets[i])

\* A column has the length it says.
LEMMA ColumnLen ==
  ASSUME NEW n \in Nat, NEW s, IsColumn(s, n)
  PROVE  Len(s) = n
<1>1. s \in [1 .. n -> Range(s)]
  <2>1. \A k \in 1 .. n : s[k] \in Range(s)  BY DEF IsColumn, Range
  <2> HIDE DEF Range
  <2>2. QED  BY <2>1 DEF IsColumn
<1> HIDE DEF Range
<1>2. QED  BY <1>1

\* Init and Close keep the list right; nothing else touches it.
LEMMA TrackerNext == TypeOK /\ TrackerInv /\ [Next]_vars => TrackerInv'
<1> SUFFICES ASSUME TypeOK, TrackerInv, [Next]_vars PROVE TrackerInv'  OBVIOUS
<1>0. trackers \in Seq(Int) /\ gen \in Nat  BY ConstantsAssumption DEF TypeOK
<1>1. CASE InitOK \/ InitProbeFails
  <2>1. trackers' = Append(trackers, gen + 1) /\ gen' = gen + 1  BY <1>1 DEF InitOK, InitProbeFails
  <2>2. /\ Len(trackers') = Len(trackers) + 1 /\ Len(trackers) \in Nat
        /\ trackers'[Len(trackers) + 1] = gen + 1
        /\ \A n \in 1 .. Len(trackers) : trackers'[n] = trackers[n] /\ trackers[n] \in Int
    BY <1>0, <2>1
  <2>3. \A n \in 1 .. Len(trackers) : trackers[n] <= gen  BY DEF TrackerInv
  <2>4. \A n \in 1 .. Len(trackers) : trackers'[n] < gen'
    BY <1>0, <2>1, <2>2, <2>3
  <2>5. QED  BY <1>0, <2>1, <2>2, <2>4 DEF TrackerInv
<1>2. CASE Close
  BY <1>2 DEF Close, TrackerInv
<1>3. CASE UNCHANGED <<gen, trackers>> /\ (pc = "closed" => pc' = "closed")
  BY <1>3 DEF TrackerInv
<1>4. CASE InitOracleFails \/ Done \/ UNCHANGED vars
  BY <1>3, <1>4 DEF InitOracleFails, Done, vars
<1>5. ASSUME NEW b \in Blocks, BeginBlock(b) \/ BuildFails(b) PROVE TrackerInv'
  BY <1>3, <1>5 DEF BeginBlock, BuildFails
<1>6. ASSUME NEW i \in TxIdx, StartTx(i) \/ FinishTx(i) \/ AbortTx(i) PROVE TrackerInv'
  BY <1>3, <1>6 DEF StartTx, FinishTx, AbortTx
<1>7. CASE OracleDone \/ RejectHeight \/ FinalizeFails
  BY <1>3, <1>7 DEF OracleDone, RejectHeight, FinalizeFails, Apps
<1>8. ASSUME NEW failing \in Apps \cup {"none"}, ProbeDone(failing) PROVE TrackerInv'
  BY <1>3, <1>8 DEF ProbeDone
<1>9. QED  BY <1>1, <1>2, <1>4, <1>5, <1>6, <1>7, <1>8 DEF Next

\* What the trackers of an open store snapshot.
LEMMA SnapshotsAreSnaps ==
  ASSUME TypeOK, TrackerInv, pc # "closed", NEW f
  PROVE  IsSnap(Snapshots(f))
<1>1. trackers \in Seq(1 .. MaxStores) /\ Len(trackers) \in Nat /\ MaxStores \in Nat /\ gen \in Nat
  BY ConstantsAssumption DEF TypeOK
<1>2. /\ DOMAIN BlockTrackers = 1 .. Len(trackers) + 1 /\ BlockTrackers[Len(trackers) + 1] = 0
      /\ \A t \in 1 .. Len(trackers) : BlockTrackers[t] = trackers[t] /\ trackers[t] \in 1 .. MaxStores
  BY <1>1 DEF BlockTrackers
<1>3. \A t \in 1 .. Len(trackers) + 1 : Snapshots(f)[t] = SnapshotOutOfKVStoreState(BlockTrackers[t], f)
  BY <1>2 DEF Snapshots
<1>4. IsColumn(Snapshots(f), Len(trackers) + 1)
  BY <1>2 DEF Snapshots, IsColumn
<1>5. Snapshots(f)[Len(trackers) + 1] = <<>>
  BY <1>1, <1>2, <1>3 DEF SnapshotOutOfKVStoreState
<1>6. ASSUME NEW t \in 1 .. Len(trackers) + 1, t # OwnTracker, t # Len(trackers) + 1
      PROVE  Snapshots(f)[t] = <<MemInit>>
  <2>1. t \in 1 .. Len(trackers) - 1 /\ t \in 1 .. Len(trackers)  BY <1>1, <1>6 DEF OwnTracker
  <2>2. trackers[t] # 0 /\ trackers[t] # gen  BY <1>1, <1>2, <2>1 DEF TrackerInv
  <2>3. QED  BY <1>2, <1>3, <2>1, <2>2 DEF SnapshotOutOfKVStoreState
<1> HIDE DEF IsColumn
<1>7. QED  BY <1>4, <1>5, <1>6 DEF IsSnap

\* Only the own tracker's snapshots can differ.
LEMMA OwnRecords ==
  ASSUME TypeOK, NEW a, NEW b, IsSnap(a), IsSnap(b)
  PROVE  ASequence(MutationRecords(a, b)) /\ OwnMutations(MutationRecords(a, b))
<1> DEFINE n == Len(trackers) + 1
<1>1. n \in Nat /\ DOMAIN b = 1 .. n  BY DEF TypeOK, IsSnap, IsColumn
<1>2. \A t \in 1 .. n : a[t] # b[t] => t = OwnTracker  BY DEF IsSnap
<1>3. \A t : MutationRecord(t, a, b).tracker = t  BY DEF MutationRecord
<1> HIDE DEF n
<1>4. /\ ASequence(MutationRecords(a, b))
      /\ \A x : Occurs(x, MutationRecords(a, b)) => \E t \in 1 .. n : a[t] # b[t] /\ x = MutationRecord(t, a, b)
  BY <1>1, MutationRecordsExact
<1>5. \A x : Occurs(x, MutationRecords(a, b)) => x.tracker = OwnTracker  BY <1>2, <1>3, <1>4
<1>6. QED  BY <1>4, <1>5 DEF OwnMutations, Occurs

\* Mutations of the own keeper, one list after the other.
LEMMA OwnConcat ==
  ASSUME NEW s, NEW t, ASequence(s), ASequence(t), OwnMutations(s), OwnMutations(t)
  PROVE  OwnMutations(s \o t)
<1>1. \A x : Occurs(x, s) \/ Occurs(x, t) => x.tracker = OwnTracker  BY DEF OwnMutations, Occurs
<1>2. \A x : Occurs(x, s \o t) => x.tracker = OwnTracker  BY <1>1, ASequenceConcat
<1>3. QED  BY <1>2 DEF OwnMutations, Occurs

\* The observer of the app that does not run is left alone.
LEMMA OtherObs ==
  ASSUME Shapes, NEW a \in Apps, obs' = [obs EXCEPT ![a] = obs'[a]]
  PROVE  \A b \in Apps : b # a => obs'[b] = obs[b]
BY DEF Shapes

\* One step keeps every snapshot and mutation with the keeper of the current oracle.
LEMMA SnapInvNext == TypeOK /\ Shapes /\ TrackerInv /\ SnapInv /\ [Next]_vars => SnapInv'
<1> SUFFICES ASSUME TypeOK, Shapes, TrackerInv, SnapInv, [Next]_vars PROVE SnapInv'  OBVIOUS
<1>0. NTxs \in Nat /\ IsExec(exec, NTxs) /\ "oracle" \in Apps /\ "probe" \in Apps
  BY DEF Shapes, Apps
<1>1. CASE pc' \notin Apps  BY <1>1 DEF SnapInv
<1>2. CASE UNCHANGED vars
  BY <1>2 DEF vars, SnapInv, IsSnap, OwnMutations, OwnTracker, TxIdx, NTxs
<1>3. ASSUME NEW b \in Blocks, BeginBlock(b) PROVE SnapInv'
  <2>1. /\ UNCHANGED trackers /\ pc = "idle" /\ preSnaps' = Snapshots(mem["oracle"])
        /\ NTxs' = Len(b.txs) /\ exec' = NewExec(Len(b.txs)) /\ Len(b.txs) \in Nat
        /\ obs'["oracle"] = NewBlockObserver(Len(b.txs), Len(BlockTrackers))
    BY <1>3, BlockLen DEF BeginBlock, NTxs
  <2>2. IsSnap(preSnaps')  BY <2>1, SnapshotsAreSnaps
  <2>3. IsSnap(preSnaps)'  BY <2>1, <2>2 DEF IsSnap, OwnTracker
  <2>4. TxIdx' = TxIndices(Len(b.txs))  BY <2>1 DEF TxIdx
  <2>5. \A i \in TxIdx' : exec'.status[i] = "ready"  BY <2>1, <2>4 DEF NewExec
  <2>6. \A i \in TxIdx' : obs'["oracle"].mutSets[i] = <<>>
    <3> DEFINE n == Len(b.txs)  k == Len(BlockTrackers)
    <3> HIDE DEF n, k
    <3>1. n \in Nat /\ obs'["oracle"] = NewBlockObserver(n, k) /\ TxIdx' = TxIndices(n)  BY <2>1, <2>4 DEF n, k
    <3>2. QED  BY <3>1, NewObs
  <2>7. QED  BY <2>3, <2>5, <2>6 DEF SnapInv, OwnMutations
<1>4. ASSUME NEW i \in TxIdx, StartTx(i) \/ FinishTx(i) \/ AbortTx(i), pc = "probe" PROVE SnapInv'
  <2>1. UNCHANGED <<pc, trackers, preSnaps, block>>  BY <1>4 DEF StartTx, FinishTx, AbortTx
  <2>2. obs' = [obs EXCEPT !["probe"] = obs'["probe"]] \/ obs' = obs
    BY <1>4, StartedObs, FinishedObs DEF AbortTx
  <2>3. obs'["oracle"] = obs["oracle"]  BY <1>0, <2>2, OtherObs
  <2>4. QED  BY <1>4, <2>1, <2>3 DEF SnapInv, IsSnap, OwnMutations, OwnTracker, TxIdx, NTxs
<1>5. ASSUME NEW i \in TxIdx, StartTx(i), pc = "oracle" PROVE SnapInv'
  <2>1. UNCHANGED <<pc, trackers, preSnaps, block>>  BY <1>5 DEF StartTx
  <2>2. IsSnap(preSnaps) /\ \A j \in TxIdx : OwnMutations(obs["oracle"].mutSets[j])
    BY <1>5, <1>0 DEF SnapInv
  <2>3. obs'["oracle"].mutSets = obs["oracle"].mutSets  BY <1>5, StartedObs
  <2>4. ASSUME HookMode = "inline", NEW j \in TxIdx, exec'.status[j] = "running"
        PROVE  IsSnap(obs'["oracle"].snapshots[j])
    <3>1. CASE j = i
      <4>1. obs'["oracle"].snapshots[i] = Snapshots(mem["oracle"])
        BY <1>5, <2>4, StartedObs DEF ObsSnapshots
      <4>2. QED  BY <1>5, <3>1, <4>1, SnapshotsAreSnaps
    <3>2. CASE j # i
      <4>1. exec.status[j] = "running"
        BY <1>0, <1>5, <2>4, <3>2, WorkerExec, StartedExec DEF TxIdx
      <4>2. obs'["oracle"].snapshots[j] = obs["oracle"].snapshots[j]  BY <1>5, <3>2, StartedObs
      <4>3. QED  BY <1>0, <1>5, <2>4, <4>1, <4>2 DEF SnapInv
    <3>3. QED  BY <3>1, <3>2
  <2>5. QED  BY <1>5, <2>1, <2>2, <2>3, <2>4 DEF SnapInv, IsSnap, OwnMutations, OwnTracker, TxIdx, NTxs
<1>6. ASSUME NEW i \in TxIdx, FinishTx(i), pc = "oracle" PROVE SnapInv'
  <2>1. UNCHANGED <<pc, trackers, preSnaps, block>>  BY <1>6 DEF FinishTx
  <2>2. IsSnap(preSnaps) /\ \A j \in TxIdx : OwnMutations(obs["oracle"].mutSets[j])
    BY <1>6, <1>0 DEF SnapInv
  <2>3. ASSUME HookMode = "inline", NEW j \in TxIdx, exec'.status[j] = "running"
        PROVE  IsSnap(obs'["oracle"].snapshots[j])
    <3>1. j # i /\ exec.status[j] = "running"
      BY <1>0, <1>6, <2>3, WorkerExec, FinishedExec DEF TxIdx
    <3>2. obs'["oracle"].snapshots = obs["oracle"].snapshots  BY <1>6, FinishedObs
    <3>3. QED  BY <1>0, <1>6, <2>3, <3>1, <3>2 DEF SnapInv
  <2>4. ASSUME NEW j \in TxIdx PROVE OwnMutations(obs'["oracle"].mutSets[j])
    <3>1. CASE obs'["oracle"].mutSets[j] = obs["oracle"].mutSets[j]  BY <2>2, <3>1
    <3>2. CASE obs'["oracle"].mutSets[j] # obs["oracle"].mutSets[j]
      <4> DEFINE a == obs["oracle"].snapshots[i]
                 b == Snapshots(FieldAfter(i))
                 s == obs["oracle"].mutSets[i]
      <4>1. j = i /\ HookMode = "inline" /\ obs'["oracle"].mutSets[i] = s \o MutationRecords(a, b)
        BY <1>6, <3>2, FinishedObs
      <4>2. exec.status[i] = "running"  BY <1>6 DEF FinishTx
      <4>3. IsSnap(a)  BY <1>0, <1>6, <4>1, <4>2 DEF SnapInv
      <4>4. IsSnap(b)  BY <1>6, SnapshotsAreSnaps
      <4>5. ASequence(s) /\ OwnMutations(s)  BY <2>2, <1>0 DEF Shapes
      <4> HIDE DEF a, b, s
      <4>6. ASequence(MutationRecords(a, b)) /\ OwnMutations(MutationRecords(a, b))
        BY <4>3, <4>4, OwnRecords
      <4>7. QED  BY <4>1, <4>5, <4>6, OwnConcat
    <3>3. QED  BY <3>1, <3>2
  <2>5. QED  BY <1>6, <2>1, <2>2, <2>3, <2>4 DEF SnapInv, IsSnap, OwnMutations, OwnTracker, TxIdx, NTxs
<1>7. ASSUME NEW i \in TxIdx, AbortTx(i), pc = "oracle" PROVE SnapInv'
  <2>1. UNCHANGED <<pc, trackers, preSnaps, block, obs>>  BY <1>7 DEF AbortTx
  <2>2. ASSUME NEW j \in TxIdx, exec'.status[j] = "running" PROVE exec.status[j] = "running"
    <3>1. exec' = Aborted(exec, i, Conflicts(i)) /\ i \in TxIndices(NTxs)  BY <1>7, WorkerExec DEF TxIdx
    <3>2. exec'.status[i] = "ready" /\ \A k \in TxIndices(NTxs) \ {i} : exec'.status[k] = exec.status[k]
      BY <1>0, <3>1, AbortedExec
    <3>3. QED  BY <2>2, <3>2 DEF TxIdx
  <2>3. QED  BY <2>1, <2>2 DEF SnapInv, IsSnap, OwnMutations, OwnTracker, TxIdx, NTxs
<1>8. CASE OracleDone
  <2>1. UNCHANGED <<trackers, preSnaps, block>> /\ pc = "oracle" /\ pc' = "probe"  BY <1>8 DEF OracleDone
  <2>2. IsSnap(preSnaps) /\ \A j \in TxIdx : OwnMutations(obs["oracle"].mutSets[j])
    BY <1>0, <2>1 DEF SnapInv
  <2>3. ASSUME NEW j \in TxIdx PROVE OwnMutations(obs'["oracle"].mutSets[j])
    <3>1. CASE j # 0  BY <1>8, <2>2, <3>1, OracleDoneObs
    <3>2. CASE j = 0
      <4> DEFINE b == Snapshots(EndBlockMem("oracle"))
                 s == obs["oracle"].mutSets[0]
      <4>1. obs'["oracle"].mutSets[0] = s \o MutationRecords(preSnaps, b)
        BY <1>8, <3>2, OracleDoneObs
      <4>2. IsSnap(b)  BY <2>1, SnapshotsAreSnaps
      <4>3. ASequence(s) /\ OwnMutations(s)  BY <1>0, <2>2, <3>2 DEF Shapes
      <4> HIDE DEF b, s
      <4>4. ASequence(MutationRecords(preSnaps, b)) /\ OwnMutations(MutationRecords(preSnaps, b))
        BY <2>2, <4>2, OwnRecords
      <4>5. QED  BY <3>2, <4>1, <4>3, <4>4, OwnConcat
    <3>3. QED  BY <3>1, <3>2
  <2>4. QED  BY <2>1, <2>2, <2>3 DEF SnapInv, IsSnap, OwnMutations, OwnTracker, TxIdx, NTxs
<1>9. ASSUME NEW failing \in Apps \cup {"none"}, ProbeDone(failing) PROVE SnapInv'
  BY <1>1, <1>9 DEF ProbeDone, CleanUp, Apps
<1>10. CASE pc' \in {"idle", "closed"}  BY <1>1, <1>10 DEF Apps
<1>11. ASSUME NEW i \in TxIdx, StartTx(i) \/ FinishTx(i) \/ AbortTx(i) PROVE SnapInv'
  <2>1. pc = "oracle" \/ pc = "probe"  BY <1>11 DEF StartTx, FinishTx, AbortTx, Apps
  <2>2. QED  BY <1>4, <1>5, <1>6, <1>7, <1>11, <2>1
<1>12. QED
  BY <1>2, <1>3, <1>8, <1>9, <1>10, <1>11, QuietSteps DEF Next

\* Every out-of-KVStore finding of a block is about the current oracle's keeper.
LEMMA OwnFindings ==
  ASSUME TypeOK, Shapes, SnapInv, pc = "probe", NEW x, Occurs(x, BlockFindings), x.dim = "out_of_kvstore"
  PROVE  x.item.tracker = OwnTracker
<1>0. \A h, d, t, p, y : NewFinding(h, d, t, p, y).dim = d /\ NewFinding(h, d, t, p, y).item = y
  BY DEF NewFinding
<1>1. BlockFound(x)  BY BlockFindingsExact
<1>2. Occurs(x, MutationFindings(BlockHeight, NTxs, NTxs, obs["oracle"]))
  <2>1. ~Occurs(x, AppHashFindings(BlockHeight, oracleRes, Response))
    <3>1. AppHashFindings(BlockHeight, oracleRes, Response) = <<>>
          \/ \E y : AppHashFindings(BlockHeight, oracleRes, Response) = <<NewFinding(BlockHeight, "app_hash", -1, 0, y)>>
      BY DEF AppHashFindings
    <3>2. QED  BY <1>0, <3>1, ASequenceOne
  <2>2. \A d, os, ps : ReportsDiff(x, BlockHeight, d, os, ps, NTxs) => x.dim = d  BY <1>0 DEF ReportsDiff
  <2>3. Occurs(x, BlockContextFindings(BlockHeight, bct.mutations)) => x.dim = "block_context"
    BY <1>0 DEF Occurs, BlockContextFindings
  <2>4. Occurs(x, NonDetFindings(BlockHeight, sink.calls)) => x.dim = "non_deterministic"
    BY <1>0 DEF Occurs, NonDetFindings
  <2>5. QED  BY <1>1, <2>1, <2>2, <2>3, <2>4 DEF BlockFound
<1>3. \A i \in TxIdx : \A y : Occurs(y, obs["oracle"].mutSets[i]) => y.tracker = OwnTracker
  BY DEF SnapInv, Apps, OwnMutations, Occurs
<1> DEFINE n == NTxs  o == obs["oracle"]  h == BlockHeight
<1>4. n \in Nat /\ n <= n /\ IsObs(o, n) /\ \A i \in TxIndices(n) : ASequence(o.mutSets[i])
  BY DEF Shapes, Apps, TxIdx
<1> HIDE DEF n, o, h
<1>5. \A z : Occurs(z, MutationFindings(h, n, n, o)) =>
        \E i \in TxIndices(n) : \E y : Occurs(y, o.mutSets[i]) /\ z = NewFinding(h, "out_of_kvstore", i, 0, y)
  BY <1>4, MutationFindingsExact
<1>6. PICK i \in TxIndices(n) : \E y : Occurs(y, o.mutSets[i]) /\ x = NewFinding(h, "out_of_kvstore", i, 0, y)
  BY <1>2, <1>5 DEF n, o, h
<1>7. QED  BY <1>0, <1>3, <1>6 DEF n, o, TxIdx

\* A result is replaced by none, or by that of the block whose comparison ends.
LEMMA LastSteps ==
  ASSUME [Next]_vars
  PROVE  \/ last' = last \/ last' = NoResult
         \/ last' = BlockResult /\ pc = "probe" /\ HeightOK /\ AllValid
<1>1. ASSUME NEW failing \in Apps \cup {"none"}, ProbeDone(failing)
      PROVE  last' = last \/ (last' = BlockResult /\ pc = "probe" /\ HeightOK /\ AllValid)
  BY <1>1 DEF ProbeDone
<1>2. ASSUME NEW b \in Blocks, BeginBlock(b) PROVE last' = last  BY <1>2 DEF BeginBlock
<1>3. ASSUME NEW i \in TxIdx, StartTx(i) \/ FinishTx(i) \/ AbortTx(i) PROVE last' = last
  BY <1>3 DEF StartTx, FinishTx, AbortTx, storeVars
<1>4. OracleDone \/ UNCHANGED vars => last' = last  BY DEF OracleDone, vars
<1>5. QED  BY <1>1, <1>2, <1>3, <1>4, QuietSteps DEF Next

\* Trackers left over from an Init whose probe setup failed never produce a finding.  The
\* induction: of the trackers in the list only the last one's snapshots ever change, so only
\* it can be in a mutation record, of a transaction or of the block.
THEOREM FindingsAreCurrent == Spec => []FindingsFromCurrentOracle
<1>1. Init => TrackerInv /\ SnapInv /\ FindingsFromCurrentOracle
  BY DEF Init, TrackerInv, SnapInv, FindingsFromCurrentOracle, HasResult, NoResult, Apps
<1>2. TypeOK /\ Shapes /\ SnapInv /\ FindingsFromCurrentOracle /\ [Next]_vars => FindingsFromCurrentOracle'
  <2> SUFFICES ASSUME TypeOK, Shapes, SnapInv, FindingsFromCurrentOracle, [Next]_vars
               PROVE  FindingsFromCurrentOracle'
    OBVIOUS
  <2>1. CASE last' = last  BY <2>1 DEF FindingsFromCurrentOracle, HasResult, ReportedTrackers
  <2>2. CASE last' = NoResult  BY <2>2 DEF FindingsFromCurrentOracle, HasResult, NoResult
  <2>3. CASE last' = BlockResult /\ pc = "probe"
    <3>1. last'.findings = BlockFindings /\ last'.memBefore = preSnaps  BY <2>3 DEF BlockResult
    <3>2. Len(preSnaps) = Len(trackers) + 1 /\ Len(trackers) \in Nat
      <4>1. IsColumn(preSnaps, Len(trackers) + 1) /\ Len(trackers) + 1 \in Nat /\ Len(trackers) \in Nat
        BY <2>3 DEF SnapInv, IsSnap, Apps, TypeOK
      <4>2. QED  BY <4>1, ColumnLen
    <3>3. Len(preSnaps) - 1 = OwnTracker  BY <3>2 DEF OwnTracker
    <3>4. \A m \in DOMAIN BlockFindings : BlockFindings[m].dim = "out_of_kvstore" =>
             BlockFindings[m].item.tracker = OwnTracker
      BY <2>3, OwnFindings DEF Occurs
    <3>5. QED  BY <3>1, <3>3, <3>4 DEF FindingsFromCurrentOracle, ReportedTrackers
  <2>4. QED  BY <2>1, <2>2, <2>3, LastSteps
<1>3. QED  BY <1>1, <1>2, TrackerNext, SnapInvNext, ShapesHold, PTL DEF Spec

-------------------------------------------------------------------------------
(***************************************************************************)
(* Write sets.  With in-line callbacks an observer holds, for a transaction  *)
(* that is done, the keys of its last incarnation, and nothing for one that  *)
(* runs: OnTxStart has cleared what earlier incarnations wrote.              *)
(***************************************************************************)
CapturedInv ==
  HookMode = "inline" =>
    /\ pc \in Apps => \A i \in TxIdx :
         /\ exec.status[i] = "running" => obs[pc].writeSets[i] = {}
         /\ exec.status[i] = "done" => obs[pc].writeSets[i] = DOMAIN exec.writes[i]
    /\ pc = "probe" =>
         oracleRes.written = [n \in 1 .. NTxs |-> obs["oracle"].writeSets[n - 1]]

\* With in-line callbacks, one step keeps the write sets equal to what the transactions
\* wrote.
LEMMA CapturedNext == TypeOK /\ Shapes /\ CapturedInv /\ [Next]_vars => CapturedInv'
<1> SUFFICES ASSUME TypeOK, Shapes, CapturedInv, [Next]_vars, HookMode = "inline" PROVE CapturedInv'
  BY DEF CapturedInv
<1>0. NTxs \in Nat /\ IsExec(exec, NTxs) /\ "oracle" \in Apps /\ "probe" \in Apps
  BY DEF Shapes, Apps
<1>1. CASE pc' \in {"idle", "closed"}  BY <1>1 DEF CapturedInv, Apps
<1>2. CASE UNCHANGED vars  BY <1>2 DEF vars, CapturedInv, TxIdx, NTxs
<1>3. ASSUME NEW b \in Blocks, BeginBlock(b) PROVE CapturedInv'
  <2>1. pc' = "oracle" /\ NTxs' = Len(b.txs) /\ exec' = NewExec(Len(b.txs))  BY <1>3 DEF BeginBlock, NTxs
  <2>2. \A i \in TxIdx' : exec'.status[i] = "ready"  BY <2>1 DEF NewExec, TxIdx
  <2>3. QED  BY <2>1, <2>2 DEF CapturedInv
<1>4. ASSUME NEW i \in TxIdx, StartTx(i) \/ FinishTx(i) \/ AbortTx(i) PROVE CapturedInv'
  <2>1. UNCHANGED <<pc, block, oracleRes>> /\ pc \in Apps /\ i \in TxIndices(NTxs)
    BY <1>4 DEF StartTx, FinishTx, AbortTx, TxIdx
  <2>2. NTxs' = NTxs /\ TxIdx' = TxIdx  BY <2>1 DEF NTxs, TxIdx
  <2>3. ASSUME pc = "probe" PROVE obs'["oracle"] = obs["oracle"]
    <3>1. obs' = [obs EXCEPT !["probe"] = obs'["probe"]] \/ obs' = obs
      BY <1>4, <2>3, StartedObs, FinishedObs DEF AbortTx
    <3>2. QED  BY <1>0, <3>1, OtherObs
  <2>4. ASSUME NEW j \in TxIdx
        PROVE  /\ exec.status[j] = "running" => obs[pc].writeSets[j] = {}
               /\ exec.status[j] = "done" => obs[pc].writeSets[j] = DOMAIN exec.writes[j]
    BY <2>1 DEF CapturedInv
  <2>5. ASSUME NEW j \in TxIdx
        PROVE  /\ exec'.status[j] = "running" => obs'[pc].writeSets[j] = {}
               /\ exec'.status[j] = "done" => obs'[pc].writeSets[j] = DOMAIN exec'.writes[j]
    <3>1. CASE StartTx(i)
      <4>1. /\ exec'.status[i] = "running" /\ exec'.writes = exec.writes
            /\ \A k \in TxIndices(NTxs) \ {i} : exec'.status[k] = exec.status[k]
        BY <1>0, <2>1, <3>1, WorkerExec, StartedExec
      <4>2. /\ obs'[pc].writeSets[i] = {}
            /\ \A k \in TxIdx \ {i} : obs'[pc].writeSets[k] = obs[pc].writeSets[k]
        BY <3>1, StartedObs
      <4>3. QED  BY <2>4, <4>1, <4>2 DEF TxIdx
    <3>2. CASE FinishTx(i)
      <4>1. /\ exec'.status[i] = "done" /\ exec'.writes[i] = Writes(i)
            /\ \A k \in TxIndices(NTxs) \ {i} : exec'.status[k] = exec.status[k] /\ exec'.writes[k] = exec.writes[k]
        BY <1>0, <2>1, <3>2, WorkerExec, FinishedExec
      <4>2. /\ obs'[pc].writeSets[i] = obs[pc].writeSets[i] \cup DOMAIN Writes(i)
            /\ \A k \in TxIdx \ {i} : obs'[pc].writeSets[k] = obs[pc].writeSets[k]
        BY <3>2, FinishedObs
      <4>3. obs[pc].writeSets[i] = {}  BY <2>4, <3>2 DEF FinishTx
      <4>4. QED  BY <2>4, <4>1, <4>2, <4>3 DEF TxIdx
    <3>3. CASE AbortTx(i)
      <4>1. obs' = obs  BY <3>3 DEF AbortTx
      <4>2. /\ exec'.status[i] = "ready"
            /\ \A k \in TxIndices(NTxs) \ {i} : exec'.status[k] = exec.status[k] /\ exec'.writes[k] = exec.writes[k]
        BY <1>0, <2>1, <3>3, WorkerExec, AbortedExec
      <4>3. QED  BY <2>4, <4>1, <4>2 DEF TxIdx
    <3>4. QED  BY <1>4, <3>1, <3>2, <3>3
  <2>6. pc = "probe" => oracleRes = oracleRes' /\ oracleRes.written = [n \in 1 .. NTxs |-> obs["oracle"].writeSets[n - 1]]
    BY <2>1 DEF CapturedInv
  <2>7. QED  BY <2>1, <2>2, <2>3, <2>5, <2>6 DEF CapturedInv
<1>5. CASE OracleDone
  <2>1. /\ UNCHANGED block /\ pc = "oracle" /\ pc' = "probe" /\ exec' = NewExec(NTxs) /\ oracleRes' = Response
        /\ \A i \in TxIdx : exec.status[i] = "done"
    BY <1>5 DEF OracleDone, AllValid
  <2>2. NTxs' = NTxs /\ TxIdx' = TxIdx  BY <2>1 DEF NTxs, TxIdx
  <2>3. \A i \in TxIdx' : exec'.status[i] = "ready"  BY <2>1, <2>2 DEF NewExec, TxIdx
  <2>4. obs'["oracle"].writeSets = obs["oracle"].writeSets  BY <1>5, OracleDoneObs
  <2>5. \A i \in TxIdx : DOMAIN exec.writes[i] = obs'["oracle"].writeSets[i]
    BY <1>0, <2>1, <2>4 DEF CapturedInv
  <2>6. oracleRes'.written = [n \in 1 .. NTxs |-> DOMAIN exec.writes[n - 1]]  BY <2>1 DEF Response
  <2>7. \A n \in 1 .. NTxs : n - 1 \in TxIdx  BY <1>0 DEF TxIdx, TxIndices
  <2>8. oracleRes'.written = [n \in 1 .. NTxs |-> obs'["oracle"].writeSets[n - 1]]  BY <2>5, <2>6, <2>7
  <2>9. QED  BY <2>1, <2>2, <2>3, <2>8 DEF CapturedInv
<1>6. ASSUME NEW failing \in Apps \cup {"none"}, ProbeDone(failing) PROVE CapturedInv'
  BY <1>1, <1>6 DEF ProbeDone, CleanUp
<1>7. QED
  BY <1>1, <1>2, <1>3, <1>4, <1>5, <1>6, QuietSteps DEF Next

\* What the observer of a block returns for a transaction of it.
LEMMA ObsWriteSet ==
  ASSUME Shapes, NEW a \in Apps, NEW i \in TxIdx
  PROVE  TxWriteSet(obs[a], i) = obs[a].writeSets[i]
<1>1. NTxs \in Nat /\ IsObs(obs[a], NTxs)  BY DEF Shapes
<1>2. obs[a].txCount = NTxs  BY <1>1 DEF IsObs
<1>3. i < NTxs  BY <1>1 DEF TxIdx, TxIndices
<1>4. QED  BY <1>2, <1>3 DEF TxWriteSet

\* With in-line callbacks Result.TxWriteSets holds the keys each transaction wrote in the
\* oracle, however often it was re-executed.
THEOREM WriteSetsAreCaptured == Spec => [](HookMode = "inline" => WriteSetsCaptured)
<1> DEFINE P == HookMode = "inline" => WriteSetsCaptured
<1>1. Init => CapturedInv /\ P
  BY DEF Init, CapturedInv, WriteSetsCaptured, HasResult, NoResult, Apps
<1>2. TypeOK /\ Shapes /\ CapturedInv /\ P /\ [Next]_vars => P'
  <2> SUFFICES ASSUME TypeOK, Shapes, CapturedInv, P, [Next]_vars, HookMode = "inline"
               PROVE  WriteSetsCaptured'
    OBVIOUS
  <2>1. CASE last' = last  BY <2>1 DEF WriteSetsCaptured, HasResult
  <2>2. CASE last' = NoResult  BY <2>2 DEF WriteSetsCaptured, HasResult, NoResult
  <2>3. CASE last' = BlockResult /\ pc = "probe"
    <3>1. /\ last'.txWriteSets = [n \in 1 .. NTxs |-> TxWriteSet(obs["oracle"], n - 1)]
          /\ last'.oracle = oracleRes
      BY <2>3 DEF BlockResult
    <3>2. \A n \in 1 .. NTxs : n - 1 \in TxIdx  BY DEF Shapes, TxIdx, TxIndices
    <3>3. \A n \in 1 .. NTxs : TxWriteSet(obs["oracle"], n - 1) = obs["oracle"].writeSets[n - 1]
      BY <3>2, ObsWriteSet DEF Apps
    <3>4. QED  BY <2>3, <3>1, <3>3, ZenonT(60) DEF WriteSetsCaptured, CapturedInv
  <2>4. QED  BY <2>1, <2>2, <2>3, LastSteps
<1>3. QED  BY <1>1, <1>2, CapturedNext, ShapesHold, PTL DEF Spec

-------------------------------------------------------------------------------
(***************************************************************************)
(* The conflict sink.  It is empty while the oracle runs, because the        *)
(* observers are not installed yet, and then holds every conflict of the     *)
(* probe's run so far if conflict detection is on.                           *)
(***************************************************************************)
HotInv ==
  /\ pc = "oracle" => csink = NewConflictSink
  /\ pc = "probe" => /\ csink = [records |-> IF ConflictDetection THEN exec.aborted ELSE <<>>, stats |-> NoStats]
                     /\ statsObs = BlockHeight /\ conflictObs = IF ConflictDetection THEN BlockHeight ELSE 0

\* One step keeps the conflict sink to the aborts of its own block.
LEMMA HotNext == TypeOK /\ HooksScoped /\ Shapes /\ HotInv /\ [Next]_vars => HotInv'
<1> SUFFICES ASSUME TypeOK, HooksScoped, Shapes, HotInv, [Next]_vars PROVE HotInv'  OBVIOUS
<1>0. BlockHeight \in Nat \ {0} /\ NTxs \in Nat /\ IsExec(exec, NTxs)  BY DEF BlockHeight, TypeOK, Shapes
<1>1. CASE pc' \in {"idle", "closed"}  BY <1>1 DEF HotInv
<1>2. CASE UNCHANGED vars  BY <1>2 DEF vars, HotInv, BlockHeight
<1>3. ASSUME NEW b \in Blocks, BeginBlock(b) PROVE HotInv'  BY <1>3 DEF BeginBlock, HotInv
<1>4. ASSUME NEW i \in TxIdx, StartTx(i) \/ FinishTx(i) PROVE HotInv'
  <2>1. UNCHANGED <<pc, csink, results, conflictObs, statsObs>>
    BY <1>4 DEF StartTx, FinishTx, storeVars, globals
  <2>2. exec'.aborted = exec.aborted
    BY <1>0, <1>4, WorkerExec, StartedExec, FinishedExec DEF TxIdx
  <2>3. QED  BY <2>1, <2>2 DEF HotInv, BlockHeight
<1>5. ASSUME NEW i \in TxIdx, AbortTx(i) PROVE HotInv'
  <2> DEFINE c == Conflicts(i)
  <2>1. /\ UNCHANGED <<pc, results, conflictObs, statsObs>> /\ pc \in Apps
        /\ csink' = IF ConflictObserved THEN RecordConflicts(csink, c) ELSE csink
    BY <1>5 DEF AbortTx, storeVars, globals
  <2>2. exec'.aborted = exec.aborted \o c
    <3>1. exec' = Aborted(exec, i, c) /\ i \in TxIndices(NTxs)  BY <1>5, WorkerExec DEF TxIdx
    <3> HIDE DEF c
    <3>2. Aborted(exec, i, c).aborted = exec.aborted \o c  BY <1>0, <3>1, AbortedConflicts
    <3>3. QED  BY <3>1, <3>2
  <2> HIDE DEF c
  <2>3. CASE pc = "oracle"
    <3>1. conflictObs = 0  BY <2>3 DEF HooksScoped
    <3>2. ~ConflictObserved  BY <1>0, <3>1 DEF ConflictObserved
    <3>3. QED  BY <2>1, <2>3, <3>2 DEF HotInv
  <2>4. CASE pc = "probe"
    <3>1. ConflictObserved <=> ConflictDetection  BY <1>0, <2>4, ConstantsAssumption DEF ConflictObserved, HotInv
    <3>2. CASE ConflictDetection
      <4>1. csink = [records |-> exec.aborted, stats |-> NoStats]  BY <2>4, <3>2 DEF HotInv
      <4>2. csink' = [records |-> exec.aborted \o c, stats |-> NoStats]
        BY <2>1, <3>1, <3>2, <4>1 DEF RecordConflicts
      <4>3. csink' = [records |-> exec'.aborted, stats |-> NoStats]  BY <2>2, <4>2
      <4>4. QED  BY <2>1, <2>4, <3>2, <4>3 DEF HotInv, BlockHeight
    <3>3. CASE ~ConflictDetection
      BY <2>1, <2>4, <3>1, <3>3 DEF HotInv, BlockHeight
    <3>4. QED  BY <3>2, <3>3
  <2>5. QED  BY <2>1, <2>3, <2>4 DEF Apps
<1>6. CASE OracleDone
  <2>1. /\ UNCHANGED <<csink, results>> /\ pc = "oracle" /\ pc' = "probe" /\ exec' = NewExec(NTxs)
        /\ conflictObs' = IF ConflictDetection THEN BlockHeight ELSE conflictObs
        /\ statsObs' = BlockHeight
    BY <1>6 DEF OracleDone
  <2>2. conflictObs = 0  BY <2>1 DEF HooksScoped
  <2>3. exec'.aborted = <<>>  BY <2>1 DEF NewExec
  <2>4. QED  BY <2>1, <2>2, <2>3 DEF HotInv, NewConflictSink, BlockHeight
<1>7. ASSUME NEW failing \in Apps \cup {"none"}, ProbeDone(failing) PROVE HotInv'
  BY <1>1, <1>7 DEF ProbeDone, CleanUp
<1>8. QED
  BY <1>1, <1>2, <1>3, <1>4, <1>5, <1>6, <1>7, QuietSteps DEF Next

\* The hot keys and the execution ratio of a result are those of its own probe run.
THEOREM HotKeysAreOwn == Spec => []HotKeysOfOwnProbe
<1>1. Init => HotInv /\ HotKeysOfOwnProbe
  BY DEF Init, HotInv, HotKeysOfOwnProbe, HasResult, NoResult
<1>2. TypeOK /\ Shapes /\ HotInv /\ HotKeysOfOwnProbe /\ [Next]_vars => HotKeysOfOwnProbe'
  <2> SUFFICES ASSUME TypeOK, Shapes, HotInv, HotKeysOfOwnProbe, [Next]_vars PROVE HotKeysOfOwnProbe'
    OBVIOUS
  <2>1. CASE last' = last  BY <2>1 DEF HotKeysOfOwnProbe, HasResult
  <2>2. CASE last' = NoResult  BY <2>2 DEF HotKeysOfOwnProbe, HasResult, NoResult
  <2>3. CASE last' = BlockResult /\ pc = "probe"
    <3>1. /\ last'.hotKeys = AggregateHotKeys(DrainedSink.records) /\ last'.ratio = Ratio(DrainedSink.stats)
          /\ last'.conflicts = exec.aborted /\ last'.runs = exec.runs /\ last'.block = block
      BY <2>3 DEF BlockResult
    <3>2. /\ DrainedSink.records = IF ConflictDetection THEN exec.aborted ELSE <<>>
          /\ DrainedSink.stats = [blockSize |-> NTxs, executed |-> exec.runs]
      BY <2>3 DEF HotInv, DrainedSink, RecordStats
    <3>3. QED  BY <3>1, <3>2 DEF HotKeysOfOwnProbe, NTxs
  <2>4. QED  BY <2>1, <2>2, <2>3, LastSteps
<1>3. QED  BY <1>1, <1>2, HotNext, HooksAreScoped, ShapesHold, PTL DEF Spec

-------------------------------------------------------------------------------
(* Serial execution.                                                         *)

\* What transaction i writes and returns on store s, reading m from the keeper's field.
WritesAt(s, m, i) ==
  LET t == block.txs[i + 1] IN HandlerWrites(t, seqs[i + 1], s[t.signer], s[Counter], m)

CodeAt(s, i) ==
  LET t == block.txs[i + 1] IN HandlerCode(t, seqs[i + 1], s[t.signer], s[Counter])

After(s, w) == [k \in Keys |-> IF k \in DOMAIN w THEN w[k] ELSE s[k]]

\* st[i] is the store before transaction i of the block when the transactions run one after
\* the other from base, ms[i] what transaction i reads from the keeper's field.
IsSerial(st, ms, base) ==
  /\ st[0] = base
  /\ \A i \in TxIdx : st[i + 1] = After(st[i], WritesAt(st[i], ms[i], i))

\* The response of such a run.
SerialResponse(st, ms) ==
  [appHash   |-> st[NTxs],
   txResults |-> [n \in 1 .. NTxs |->
      [code   |-> CodeAt(st[n - 1], n - 1),
       gas    |-> Cardinality(DOMAIN WritesAt(st[n - 1], ms[n - 1], n - 1)),
       events |-> IF CodeAt(st[n - 1], n - 1) = 0
                    THEN <<[type |-> <<block.txs[n].msg>>, attrs |-> <<>>]>> ELSE <<>>]],
   written   |-> [n \in 1 .. NTxs |-> DOMAIN WritesAt(st[n - 1], ms[n - 1], n - 1)]]

\* The stores the transactions of the run in progress see.
Stores == [i \in 0 .. NTxs |-> [k \in Keys |-> Visible(i, k).val]]

\* What an incarnation has written is what the handler does with what it has read.
HandlerInv ==
  pc \in Apps => \A i \in TxIdx :
    /\ exec.status[i] # "ready" => DOMAIN exec.reads[i] = {block.txs[i + 1].signer, Counter}
    /\ exec.status[i] = "done" => exec.writes[i] = Writes(i) /\ exec.code[i] = Code(i)

\* A transaction of a block, and the block, as the corpus gives them.
TxSpecs == [msg : STRING, signer : Signers, arg : Int]

\* The stores have the keys of the model, and the block is one of the corpus or none.
KVInv ==
  /\ block.txs \in Seq(TxSpecs)
  /\ DOMAIN kv = Apps /\ DOMAIN mem = Apps
  /\ \A a \in Apps : kv[a] = [k \in Keys |-> kv[a][k]]
  /\ pc = "probe" => oracleRes.appHash = [k \in Keys |-> oracleRes.appHash[k]]

\* The valid execution is a serial one.
SerialExecution ==
  pc \in Apps /\ AllValid =>
    IsSerial(Stores, exec.memRead, kv[pc]) /\ Response = SerialResponse(Stores, exec.memRead)

\* The handlers depend on what was read and nothing else.
LEMMA HandlersKept ==
  ASSUME NEW i, UNCHANGED <<block, seqs>>, exec'.reads[i] = exec.reads[i], exec'.memRead[i] = exec.memRead[i]
  PROVE  Writes(i)' = Writes(i) /\ Code(i)' = Code(i) /\ AnteOK(i)' = AnteOK(i)
BY DEF Writes, Code, AnteOK

\* One step keeps what a done transaction wrote a function of what it read.
LEMMA HandlerNext == Shapes /\ HandlerInv /\ [Next]_vars => HandlerInv'
<1> SUFFICES ASSUME Shapes, HandlerInv, [Next]_vars PROVE HandlerInv'  OBVIOUS
<1>0. NTxs \in Nat /\ IsExec(exec, NTxs)  BY DEF Shapes
<1>1. CASE pc' \in {"idle", "closed"}  BY <1>1 DEF HandlerInv, Apps
<1>2. CASE UNCHANGED vars  BY <1>2 DEF vars, HandlerInv, TxIdx, NTxs, Writes, Code
<1>3. ASSUME NEW n, NTxs' = n, exec' = NewExec(n) PROVE HandlerInv'
  <2>1. \A i \in TxIdx' : exec'.status[i] = "ready"  BY <1>3 DEF NewExec, TxIdx
  <2>2. QED  BY <2>1 DEF HandlerInv
<1>4. ASSUME NEW i \in TxIdx, StartTx(i) \/ FinishTx(i) \/ AbortTx(i) PROVE HandlerInv'
  <2>1. UNCHANGED <<pc, block, seqs>> /\ pc \in Apps /\ i \in TxIndices(NTxs)
    BY <1>4 DEF StartTx, FinishTx, AbortTx, TxIdx
  <2>2. NTxs' = NTxs /\ TxIdx' = TxIdx  BY <2>1 DEF NTxs, TxIdx
  <2>3. ASSUME NEW j \in TxIdx
        PROVE  /\ exec.status[j] # "ready" => DOMAIN exec.reads[j] = {block.txs[j + 1].signer, Counter}
               /\ exec.status[j] = "done" => exec.writes[j] = Writes(j) /\ exec.code[j] = Code(j)
    BY <2>1 DEF HandlerInv
  <2>4. ASSUME NEW j \in TxIdx
        PROVE  /\ exec'.status[j] # "ready" => DOMAIN exec'.reads[j] = {block.txs[j + 1].signer, Counter}
               /\ exec'.status[j] = "done" => exec'.writes[j] = Writes(j)' /\ exec'.code[j] = Code(j)'
    <3>1. CASE StartTx(i)
      <4>1. /\ exec'.status[i] = "running" /\ exec'.reads[i] = ReadsOf(i)
            /\ exec'.writes = exec.writes /\ exec'.code = exec.code
            /\ \A k \in TxIndices(NTxs) \ {i} : /\ exec'.status[k] = exec.status[k]
                                               /\ exec'.reads[k] = exec.reads[k]
                                               /\ exec'.memRead[k] = exec.memRead[k]
        BY <1>0, <2>1, <3>1, WorkerExec, StartedExec
      <4>2. CASE j = i  BY <4>1, <4>2 DEF ReadsOf
      <4>3. CASE j # i
        <5>1. exec'.reads[j] = exec.reads[j] /\ exec'.memRead[j] = exec.memRead[j] /\ exec'.status[j] = exec.status[j]
          BY <4>1, <4>3 DEF TxIdx
        <5>2. Writes(j)' = Writes(j) /\ Code(j)' = Code(j)  BY <2>1, <5>1, HandlersKept
        <5>3. QED  BY <2>3, <4>1, <5>1, <5>2
      <4>4. QED  BY <4>2, <4>3
    <3>2. CASE FinishTx(i)
      <4>1. /\ exec'.status[i] = "done" /\ exec'.writes[i] = Writes(i) /\ exec'.code[i] = Code(i)
            /\ exec'.reads = exec.reads /\ exec'.memRead = exec.memRead
            /\ \A k \in TxIndices(NTxs) \ {i} : /\ exec'.status[k] = exec.status[k]
                                               /\ exec'.writes[k] = exec.writes[k]
                                               /\ exec'.code[k] = exec.code[k]
        BY <1>0, <2>1, <3>2, WorkerExec, FinishedExec
      <4>2. Writes(j)' = Writes(j) /\ Code(j)' = Code(j)  BY <2>1, <4>1, HandlersKept
      <4>3. CASE j = i
        <5>1. exec.status[i] = "running"  BY <3>2 DEF FinishTx
        <5>2. QED  BY <2>3, <4>1, <4>2, <4>3, <5>1
      <4>4. CASE j # i
        <5>1. exec'.status[j] = exec.status[j] /\ exec'.writes[j] = exec.writes[j] /\ exec'.code[j] = exec.code[j]
          BY <4>1, <4>4 DEF TxIdx
        <5>2. QED  BY <2>3, <4>1, <4>2, <5>1
      <4>5. QED  BY <4>3, <4>4
    <3>3. CASE AbortTx(i)
      <4>1. /\ exec'.status[i] = "ready" /\ exec'.reads = exec.reads /\ exec'.memRead = exec.memRead
            /\ exec'.code = exec.code
            /\ \A k \in TxIndices(NTxs) \ {i} : exec'.status[k] = exec.status[k] /\ exec'.writes[k] = exec.writes[k]
        BY <1>0, <2>1, <3>3, WorkerExec, AbortedExec
      <4>2. Writes(j)' = Writes(j) /\ Code(j)' = Code(j)  BY <2>1, <4>1, HandlersKept
      <4>3. QED  BY <2>3, <4>1, <4>2 DEF TxIdx
    <3>4. QED  BY <1>4, <3>1, <3>2, <3>3
  <2>5. QED  BY <2>1, <2>2, <2>4 DEF HandlerInv
<1>5. ASSUME NEW b \in Blocks, BeginBlock(b) PROVE HandlerInv'
  BY <1>3, <1>5 DEF BeginBlock, NTxs
<1>6. CASE OracleDone  BY <1>3, <1>6 DEF OracleDone, NTxs
<1>7. ASSUME NEW failing \in Apps \cup {"none"}, ProbeDone(failing) PROVE HandlerInv'
  BY <1>1, <1>7 DEF ProbeDone, CleanUp
<1>8. QED  BY <1>1, <1>2, <1>4, <1>5, <1>6, <1>7, QuietSteps DEF Next

\* One step keeps the stores and the keeper state well formed.
LEMMA KVNext == KVInv /\ [Next]_vars => KVInv'
<1> SUFFICES ASSUME KVInv, [Next]_vars PROVE KVInv'  OBVIOUS
<1>1. CASE UNCHANGED <<kv, mem, oracleRes, block>> /\ (pc' = "probe" => pc = "probe")  BY <1>1 DEF KVInv
<1>2. CASE InitOK  BY <1>2 DEF InitOK, KVInv, KVInit, blockVars
<1>3. CASE OracleDone
  <2>1. /\ UNCHANGED <<kv, block>> /\ mem' = [mem EXCEPT !["oracle"] = EndBlockMem("oracle")]
        /\ oracleRes'.appHash = FinalKV
    BY <1>3 DEF OracleDone, Response
  <2>2. FinalKV = [k \in Keys |-> FinalKV[k]]  BY DEF FinalKV
  <2>3. QED  BY <2>1, <2>2 DEF KVInv
<1>4. ASSUME NEW failing \in Apps \cup {"none"}, ProbeDone(failing) PROVE KVInv'
  <2> DEFINE newKV == [oracle |-> oracleRes.appHash, probe |-> FinalKV]
  <2>1. /\ kv' = [a \in Apps |-> IF a \in Committed(failing) THEN newKV[a] ELSE kv[a]]
        /\ mem' = [mem EXCEPT !["probe"] = EndBlockMem("probe")] /\ pc = "probe" /\ pc' = "idle"
        /\ UNCHANGED block
    BY <1>4 DEF ProbeDone, CleanUp
  <2>2. newKV["oracle"] = oracleRes.appHash /\ newKV["probe"] = FinalKV  OBVIOUS
  <2> HIDE DEF newKV
  <2>3. ASSUME NEW a \in Apps PROVE kv'[a] = [k \in Keys |-> kv'[a][k]]
    <3>1. kv'[a] = newKV[a] \/ kv'[a] = kv[a]  BY <2>1
    <3>2. newKV[a] = oracleRes.appHash \/ newKV[a] = FinalKV  BY <2>2 DEF Apps
    <3>3. FinalKV = [k \in Keys |-> FinalKV[k]]  BY DEF FinalKV
    <3>4. QED  BY <2>1, <3>1, <3>2, <3>3 DEF KVInv
  <2>4. QED  BY <2>1, <2>3 DEF KVInv
<1>5. ASSUME NEW i \in TxIdx, StartTx(i) \/ AbortTx(i) PROVE KVInv'
  BY <1>1, <1>5 DEF StartTx, AbortTx, storeVars, appVars
<1>6. ASSUME NEW i \in TxIdx, FinishTx(i) PROVE KVInv'
  <2>1. mem' = [mem EXCEPT ![pc] = FieldAfter(i)] /\ UNCHANGED <<kv, oracleRes, pc, block>>
    BY <1>6 DEF FinishTx, FieldAfter
  <2>2. QED  BY <2>1 DEF KVInv
<1>7. ASSUME NEW b \in Blocks, BeginBlock(b) \/ BuildFails(b) PROVE KVInv'
  <2>1. CASE BuildFails(b)  BY <1>1, <2>1 DEF BuildFails, appVars, blockVars
  <2>2. CASE BeginBlock(b)
    <3>1. block' = b /\ UNCHANGED <<kv, mem, oracleRes>> /\ pc' = "oracle"  BY <2>2 DEF BeginBlock, appVars
    <3>2. b.txs \in Seq(TxSpecs)  BY BlockLen DEF TxSpecs
    <3>3. QED  BY <3>1, <3>2 DEF KVInv
  <2>3. QED  BY <1>7, <2>1, <2>2
<1>8. CASE InitProbeFails \/ InitOracleFails \/ Close \/ RejectHeight \/ FinalizeFails \/ Done \/ UNCHANGED vars
  BY <1>1, <1>8 DEF InitProbeFails, InitOracleFails, Close, RejectHeight, FinalizeFails, Done, CleanUp,
                    vars, storeVars, appVars, blockVars
<1>9. QED  BY <1>2, <1>3, <1>4, <1>5, <1>6, <1>7, <1>8 DEF Next

-------------------------------------------------------------------------------
(* A valid execution is a serial one.                                        *)

\* The transactions before i that wrote k.
LEMMA WritersFinite ==
  ASSUME NEW i \in Nat, NEW k
  PROVE  Writers(i, k) \subseteq Int /\ IsFiniteSet(Writers(i, k))
<1>1. Writers(i, k) \subseteq 0 .. i - 1  BY DEF Writers
<1>2. IsFiniteSet(0 .. i - 1)  BY FS_Interval
<1>3. QED  BY <1>1, <1>2, FS_Subset

\* Transaction i + 1 reads what transaction i wrote, or else what transaction i read.
LEMMA VisibleStep ==
  ASSUME NTxs \in Nat, NEW i \in TxIdx, exec.status[i] = "done", NEW k
  PROVE  Visible(i + 1, k).val = IF k \in DOMAIN exec.writes[i] THEN exec.writes[i][k] ELSE Visible(i, k).val
<1>1. i \in Nat /\ i + 1 \in Nat /\ 0 .. (i + 1) - 1 = (0 .. i - 1) \cup {i}  BY DEF TxIdx, TxIndices
<1>2. CASE k \in DOMAIN exec.writes[i]
  <2>1. i \in Writers(i + 1, k) /\ \A j \in Writers(i + 1, k) : j \in Int /\ j <= i
    BY <1>1, <1>2 DEF Writers
  <2>2. Max(Writers(i + 1, k)) \in Writers(i + 1, k) /\ \A y \in Writers(i + 1, k) : y <= Max(Writers(i + 1, k))
    BY <1>1, <2>1, WritersFinite, MaxOfFinite
  <2> DEFINE m == Max(Writers(i + 1, k))
  <2> HIDE DEF m
  <2>3. m = i  BY <1>1, <2>1, <2>2 DEF m
  <2>4. Visible(i + 1, k) = [from |-> i, val |-> exec.writes[i][k]]
    BY <2>1, <2>3 DEF Visible, m
  <2>5. QED  BY <1>2, <2>4
<1>3. CASE k \notin DOMAIN exec.writes[i]
  <2>1. Writers(i + 1, k) = Writers(i, k)  BY <1>1, <1>3 DEF Writers
  <2>2. QED  BY <1>3, <2>1 DEF Visible
<1>4. QED  BY <1>2, <1>3

\* Where reads reproduce, the handler saw the store before its transaction.
LEMMA ReadsStore ==
  ASSUME Shapes, KVInv, HandlerInv, pc \in Apps, AllValid, NEW i \in TxIdx
  PROVE  /\ Writes(i) = WritesAt(Stores[i], exec.memRead[i], i) /\ exec.writes[i] = Writes(i)
         /\ Code(i) = CodeAt(Stores[i], i) /\ exec.code[i] = Code(i)
<1> DEFINE t == block.txs[i + 1]
<1>1. NTxs \in Nat /\ i \in 0 .. NTxs /\ i + 1 \in 1 .. NTxs  BY DEF Shapes, TxIdx, TxIndices
<1>2. t.signer \in Keys /\ Counter \in Keys
  <2>1. t \in TxSpecs  BY <1>1 DEF NTxs, KVInv
  <2> HIDE DEF t
  <2>2. QED  BY <2>1 DEF Keys, TxSpecs
<1>3. exec.status[i] = "done" /\ Stale(i) = {}  BY DEF AllValid
<1>4. /\ DOMAIN exec.reads[i] = {t.signer, Counter} /\ exec.writes[i] = Writes(i) /\ exec.code[i] = Code(i)
  BY <1>3 DEF HandlerInv
<1> HIDE DEF t
<1>5. exec.reads[i][t.signer] = Visible(i, t.signer) /\ exec.reads[i][Counter] = Visible(i, Counter)
  BY <1>3, <1>4 DEF Stale
<1>6. Stores[i][t.signer] = Visible(i, t.signer).val /\ Stores[i][Counter] = Visible(i, Counter).val
  BY <1>1, <1>2 DEF Stores
<1>7. exec.reads[i][t.signer].val = Stores[i][t.signer] /\ exec.reads[i][Counter].val = Stores[i][Counter]
  BY <1>5, <1>6
<1>8. Writes(i) = WritesAt(Stores[i], exec.memRead[i], i) /\ Code(i) = CodeAt(Stores[i], i)
  BY <1>7 DEF Writes, Code, WritesAt, CodeAt, t
<1>9. QED  BY <1>4, <1>8

\* An execution in which every transaction is done and every read reproduces, whatever the
\* interleaving that led to it, is a serial execution from the committed store, and
\* FinalizeBlock returns what that returns.
LEMMA ValidIsSerial ==
  ASSUME Shapes, KVInv, HandlerInv, pc \in Apps, AllValid
  PROVE  IsSerial(Stores, exec.memRead, kv[pc]) /\ Response = SerialResponse(Stores, exec.memRead)
<1>0. NTxs \in Nat  BY DEF Shapes
<1>1. Stores[0] = kv[pc]
  <2>1. \A k : Writers(0, k) = {}  BY DEF Writers
  <2>2. \A k : Visible(0, k).val = kv[pc][k]  BY <2>1 DEF Visible
  <2>3. Stores[0] = [k \in Keys |-> kv[pc][k]]  BY <1>0, <2>2 DEF Stores
  <2>4. QED  BY <2>3 DEF KVInv
<1>2. ASSUME NEW i \in TxIdx PROVE Stores[i + 1] = After(Stores[i], WritesAt(Stores[i], exec.memRead[i], i))
  <2>1. i \in 0 .. NTxs /\ i + 1 \in 0 .. NTxs  BY <1>0 DEF TxIdx, TxIndices
  <2>2. exec.status[i] = "done"  BY DEF AllValid
  <2>3. exec.writes[i] = WritesAt(Stores[i], exec.memRead[i], i)  BY ReadsStore
  <2> DEFINE w == exec.writes[i]
  <2>4. \A k : Visible(i + 1, k).val = IF k \in DOMAIN w THEN w[k] ELSE Visible(i, k).val
    BY <1>0, <2>2, VisibleStep
  <2>5. Stores[i + 1] = [k \in Keys |-> Visible(i + 1, k).val] /\ \A k \in Keys : Stores[i][k] = Visible(i, k).val
    BY <2>1 DEF Stores
  <2> HIDE DEF w
  <2>6. Stores[i + 1] = [k \in Keys |-> IF k \in DOMAIN w THEN w[k] ELSE Stores[i][k]]  BY <2>4, <2>5
  <2>7. QED  BY <2>3, <2>6 DEF After, w
<1>3. FinalKV = Stores[NTxs]  BY <1>0 DEF FinalKV, Stores
<1>4. \A n \in 1 .. NTxs : n - 1 \in TxIdx  BY <1>0 DEF TxIdx, TxIndices
<1>5. \A n \in 1 .. NTxs : /\ exec.code[n - 1] = CodeAt(Stores[n - 1], n - 1)
                          /\ exec.writes[n - 1] = WritesAt(Stores[n - 1], exec.memRead[n - 1], n - 1)
  BY <1>4, ReadsStore
<1>6. Response = SerialResponse(Stores, exec.memRead)
  BY <1>3, <1>5 DEF Response, SerialResponse
<1>7. QED  BY <1>1, <1>2, <1>6 DEF IsSerial

\* A transaction that does not read the keeper's field does not depend on it.
LEMMA FieldFree ==
  ASSUME NEW t, t.msg # "map-read-write", NEW seq, NEW account, NEW counter, NEW f, NEW g
  PROVE  HandlerWrites(t, seq, account, counter, f) = HandlerWrites(t, seq, account, counter, g)
BY DEF HandlerWrites

\* There is one serial execution of transactions that do not read the keeper's field.
LEMMA SerialUnique ==
  ASSUME NTxs \in Nat, \A i \in TxIdx : block.txs[i + 1].msg # "map-read-write", NEW base,
         NEW st, NEW ms, IsSerial(st, ms, base), NEW su, NEW mu, IsSerial(su, mu, base)
  PROVE  SerialResponse(st, ms) = SerialResponse(su, mu)
<1>1. ASSUME NEW i \in TxIdx, NEW s PROVE WritesAt(s, ms[i], i) = WritesAt(s, mu[i], i)
  BY FieldFree DEF WritesAt
<1> DEFINE I == {n \in Nat : n \in 0 .. NTxs => st[n] = su[n]}
<1>2. 0 \in I  BY DEF IsSerial
<1>3. ASSUME NEW n \in Nat, n \in I PROVE n + 1 \in I
  <2>1. CASE n + 1 \in 0 .. NTxs
    <3>1. n \in TxIdx /\ st[n] = su[n]  BY <1>3, <2>1 DEF TxIdx, TxIndices
    <3>2. st[n + 1] = After(st[n], WritesAt(st[n], ms[n], n)) /\ su[n + 1] = After(su[n], WritesAt(su[n], mu[n], n))
      BY <3>1 DEF IsSerial
    <3>3. st[n + 1] = su[n + 1]  BY <1>1, <3>1, <3>2
    <3>4. QED  BY <3>3
  <2>2. QED  BY <2>1
<1>4. \A n \in Nat : n \in I
  <2> HIDE DEF I
  <2> QED  BY <1>2, <1>3, SetInduction
<1>5. \A n \in 0 .. NTxs : st[n] = su[n]  BY <1>4
<1>6. \A n \in 1 .. NTxs : n - 1 \in TxIdx /\ n - 1 \in 0 .. NTxs  BY DEF TxIdx, TxIndices
<1>7. \A n \in 1 .. NTxs : /\ CodeAt(st[n - 1], n - 1) = CodeAt(su[n - 1], n - 1)
                          /\ WritesAt(st[n - 1], ms[n - 1], n - 1) = WritesAt(su[n - 1], mu[n - 1], n - 1)
  BY <1>1, <1>5, <1>6
<1>8. st[NTxs] = su[NTxs]  BY <1>5
<1>9. QED  BY <1>7, <1>8 DEF SerialResponse

\* These hold in every state.
LEMMA SerialBase == Spec => [](TypeOK /\ Shapes /\ HandlerInv /\ KVInv)
<1>1. Init => HandlerInv /\ KVInv
  BY DEF Init, HandlerInv, KVInv, KVInit, NoBlock, Apps
<1>2. QED  BY <1>1, HandlerNext, KVNext, ShapesHold, PTL DEF Spec

\* FinalizeBlock with BlockSTM is serializable, for any block, any number of workers and any
\* schedule with re-executions: a run that can return is a serial run, and returns what it
\* returns.  (What a transaction reads from the keeper's field, outside the store, is the
\* one thing the schedule can decide.)
THEOREM ExecutionIsSerial == Spec => []SerialExecution
<1>1. Shapes /\ HandlerInv /\ KVInv => SerialExecution  BY ValidIsSerial DEF SerialExecution
<1>2. QED  BY <1>1, SerialBase, PTL

-------------------------------------------------------------------------------
(* Sequences.                                                                *)

\* One more transaction of the block: its signer has signed one more.
LEMMA SignedStep ==
  ASSUME NEW txs, NEW n \in Nat, n > 0, NEW s
  PROVE  /\ SignedBefore(txs, n, s) \in Nat
         /\ SignedBefore(txs, n + 1, s) = IF txs[n].signer = s THEN SignedBefore(txs, n, s) + 1
                                                               ELSE SignedBefore(txs, n, s)
<1> DEFINE A == {m \in 1 .. n - 1 : txs[m].signer = s}
           B == {m \in 1 .. (n + 1) - 1 : txs[m].signer = s}
<1>1. IsFiniteSet(A)
  <2>1. IsFiniteSet(1 .. n - 1) /\ A \subseteq 1 .. n - 1  BY FS_Interval
  <2>2. QED  BY <2>1, FS_Subset
<1>2. 1 .. (n + 1) - 1 = (1 .. n - 1) \cup {n} /\ n \notin 1 .. n - 1  OBVIOUS
<1>3. n \notin A /\ B = IF txs[n].signer = s THEN A \cup {n} ELSE A  BY <1>2
<1>4. SignedBefore(txs, n, s) = Cardinality(A) /\ SignedBefore(txs, n + 1, s) = Cardinality(B)
  BY DEF SignedBefore
<1> HIDE DEF A, B
<1>5. Cardinality(A) \in Nat /\ Cardinality(A \cup {n}) = Cardinality(A) + 1
  BY <1>1, <1>3, FS_CardinalityType, FS_AddElement
<1>6. QED  BY <1>3, <1>4, <1>5

\* Before the first transaction nobody has signed.
LEMMA SignedFirst == \A txs, s : SignedBefore(txs, 1, s) = 0
<1>1. \A txs, s : {m \in 1 .. 1 - 1 : txs[m].signer = s} = {}  OBVIOUS
<1>2. QED  BY <1>1, FS_EmptySet DEF SignedBefore

\* An accepted transaction advances its signer's sequence and no other.
LEMMA AcceptedWrites ==
  ASSUME NEW t \in TxSpecs, NEW seq, NEW counter, NEW f
  PROVE  /\ t.signer \in DOMAIN HandlerWrites(t, seq, seq, counter, f)
         /\ HandlerWrites(t, seq, seq, counter, f)[t.signer] = seq + 1
         /\ \A s \in Signers : s # t.signer => s \notin DOMAIN HandlerWrites(t, seq, seq, counter, f)
         /\ HandlerCode(t, seq, seq, counter) # 32
<1>1. t.signer \in Signers  BY DEF TxSpecs
<1>2. \A s \in Signers : s # Counter /\ s # CanaryKey  BY ConstantsAssumption DEF Counter, CanaryKey
<1>3. QED  BY <1>1, <1>2 DEF HandlerWrites, HandlerCode

\* In a serial run from accounts that agree with what was signed every transaction is
\* accepted, and every account ends where the executor's count is.
LEMMA SerialSequences ==
  ASSUME NTxs \in Nat, block.txs \in Seq(TxSpecs), NEW base, \A s \in Signers : base[s] \in Int,
         \A n \in 1 .. NTxs : seqs[n] = base[block.txs[n].signer] + SignedBefore(block.txs, n, block.txs[n].signer),
         NEW st, NEW ms, IsSerial(st, ms, base)
  PROVE  /\ \A s \in Signers : st[NTxs][s] = base[s] + SignedBefore(block.txs, NTxs + 1, s)
         /\ \A i \in TxIdx : CodeAt(st[i], i) # 32
<1> DEFINE Good(n) == \A s \in Signers : st[n][s] = base[s] + SignedBefore(block.txs, n + 1, s)
           I == {n \in Nat : n \in 0 .. NTxs => Good(n)}
<1>1. 0 \in I
  <2>1. \A s \in Signers : st[0][s] = base[s] /\ SignedBefore(block.txs, 1, s) = 0  BY SignedFirst DEF IsSerial
  <2>2. Good(0)  BY <2>1
  <2> HIDE DEF Good
  <2>3. QED  BY <2>2
<1>2. ASSUME NEW n \in TxIdx, Good(n)
      PROVE  Good(n + 1) /\ CodeAt(st[n], n) # 32
  <2> DEFINE t == block.txs[n + 1]
             seq == seqs[n + 1]
             counter == st[n][Counter]
  <2>1. n \in Nat /\ n + 1 \in 1 .. NTxs  BY DEF TxIdx, TxIndices
  <2>2. t \in TxSpecs  BY <2>1 DEF NTxs
  <2>3. st[n][t.signer] = seq
    <3>1. t.signer \in Signers  BY <2>2 DEF TxSpecs
    <3>2. QED  BY <1>2, <2>1, <3>1
  <2> DEFINE w == WritesAt(st[n], ms[n], n)
             m == ms[n]
  <2>4. w = HandlerWrites(t, seq, seq, counter, m) /\ CodeAt(st[n], n) = HandlerCode(t, seq, seq, counter)
    BY <2>3 DEF WritesAt, CodeAt
  <2>5. st[n + 1] = [k \in Keys |-> IF k \in DOMAIN w THEN w[k] ELSE st[n][k]]  BY DEF IsSerial, After
  <2> HIDE DEF t, seq, counter, w, m
  <2>6. /\ t.signer \in DOMAIN w /\ w[t.signer] = seq + 1
        /\ \A s \in Signers : s # t.signer => s \notin DOMAIN w
        /\ CodeAt(st[n], n) # 32
    BY <2>2, <2>4, AcceptedWrites
  <2>7. ASSUME NEW s \in Signers PROVE st[n + 1][s] = base[s] + SignedBefore(block.txs, (n + 1) + 1, s)
    <3>1. s \in Keys  BY DEF Keys
    <3>2. st[n + 1][s] = IF s = t.signer THEN seq + 1 ELSE st[n][s]  BY <2>5, <2>6, <3>1
    <3>3. st[n][s] = base[s] + SignedBefore(block.txs, n + 1, s)  BY <1>2
    <3>4. /\ SignedBefore(block.txs, n + 1, s) \in Nat
          /\ SignedBefore(block.txs, (n + 1) + 1, s) = IF t.signer = s THEN SignedBefore(block.txs, n + 1, s) + 1
                                                                      ELSE SignedBefore(block.txs, n + 1, s)
      <4>1. n + 1 \in Nat /\ n + 1 > 0  BY <2>1
      <4>2. QED  BY <4>1, SignedStep DEF t
    <3>5. base[s] \in Int  OBVIOUS
    <3>6. QED  BY <2>3, <3>2, <3>3, <3>4, <3>5
  <2>8. QED  BY <2>6, <2>7
<1> HIDE DEF Good
<1>3. ASSUME NEW n \in Nat, n \in I PROVE n + 1 \in I
  <2>1. CASE n + 1 \in 0 .. NTxs
    <3>1. n \in TxIdx /\ n \in 0 .. NTxs  BY <2>1 DEF TxIdx, TxIndices
    <3>2. Good(n)  BY <1>3, <3>1
    <3>3. QED  BY <1>2, <3>1, <3>2
  <2>2. QED  BY <2>1
<1>4. \A n \in Nat : n \in I
  <2> HIDE DEF I
  <2> QED  BY <1>1, <1>3, SetInduction
<1>5. \A n \in 0 .. NTxs : Good(n)  BY <1>4
<1>6. \A i \in TxIdx : CodeAt(st[i], i) # 32
  <2>1. TxIdx \subseteq 0 .. NTxs  BY DEF TxIdx, TxIndices
  <2>2. QED  BY <1>2, <1>5, <2>1
<1>7. Good(NTxs)  BY <1>5
<1>8. QED  BY <1>6, <1>7 DEF Good

\* Between blocks the executor's count of every account is the account's sequence in both
\* stores; while a block runs it is ahead by what the block signs.  Only until a call fails.
SeqInv ==
  ~Failed /\ pc # "closed" =>
    /\ \A s \in Signers : kv["oracle"][s] \in Int /\ kv["probe"][s] = kv["oracle"][s]
    /\ pc = "idle" => \A s \in Signers : sequences[s] = kv["oracle"][s]
    /\ pc \in Apps =>
         /\ \A s \in Signers : sequences[s] = kv["oracle"][s] + SignedBefore(block.txs, NTxs + 1, s)
         /\ \A n \in 1 .. NTxs : seqs[n] = kv["oracle"][block.txs[n].signer]
                                          + SignedBefore(block.txs, n, block.txs[n].signer)
    /\ pc = "probe" =>
         /\ \A s \in Signers : oracleRes.appHash[s] = sequences[s]
         /\ \A n \in 1 .. NTxs : oracleRes.txResults[n].code # 32

\* What a valid run of the app in pc returns while the sequences are in step.
LEMMA ResponseSequences ==
  ASSUME Shapes, KVInv, HandlerInv, SeqInv, ~Failed, pc \in Apps, AllValid
  PROVE  /\ \A s \in Signers : FinalKV[s] = sequences[s]
         /\ Response.appHash = FinalKV
         /\ \A n \in 1 .. NTxs : Response.txResults[n].code # 32
         /\ \A i \in TxIdx : Code(i) # 32
<1>0. NTxs \in Nat /\ block.txs \in Seq(TxSpecs)  BY DEF Shapes, KVInv
<1> DEFINE base == kv[pc]
<1>1. pc # "closed" /\ pc # "idle" /\ (pc = "oracle" \/ pc = "probe")  BY DEF Apps
<1>2. \A s \in Signers : base[s] = kv["oracle"][s] /\ base[s] \in Int  BY <1>1 DEF SeqInv
<1>3. \A s \in Signers : sequences[s] = base[s] + SignedBefore(block.txs, NTxs + 1, s)
  BY <1>1, <1>2 DEF SeqInv
<1>4. \A n \in 1 .. NTxs : block.txs[n].signer \in Signers
  <2>1. \A n \in 1 .. NTxs : block.txs[n] \in TxSpecs  BY <1>0 DEF NTxs
  <2>2. QED  BY <2>1 DEF TxSpecs
<1>5. \A n \in 1 .. NTxs : seqs[n] = base[block.txs[n].signer] + SignedBefore(block.txs, n, block.txs[n].signer)
  <2>1. \A n \in 1 .. NTxs : seqs[n] = kv["oracle"][block.txs[n].signer]
                                          + SignedBefore(block.txs, n, block.txs[n].signer)
    BY <1>1 DEF SeqInv
  <2> HIDE DEF base
  <2>2. QED  BY <1>2, <1>4, <2>1
<1>6. IsSerial(Stores, exec.memRead, base) /\ Response = SerialResponse(Stores, exec.memRead)
  BY ValidIsSerial
<1> HIDE DEF base
<1>7. /\ \A s \in Signers : Stores[NTxs][s] = base[s] + SignedBefore(block.txs, NTxs + 1, s)
      /\ \A i \in TxIdx : CodeAt(Stores[i], i) # 32
  BY <1>0, <1>2, <1>5, <1>6, SerialSequences
<1>8. Response.appHash = FinalKV  BY DEF Response
<1>9. Response.appHash = Stores[NTxs] /\ \A n \in 1 .. NTxs : Response.txResults[n].code = CodeAt(Stores[n - 1], n - 1)
  BY <1>6 DEF SerialResponse
<1>10. \A n \in 1 .. NTxs : n - 1 \in TxIdx  BY <1>0 DEF TxIdx, TxIndices
<1>11. \A i \in TxIdx : Code(i) = CodeAt(Stores[i], i)  BY ReadsStore
<1>12. QED  BY <1>3, <1>7, <1>8, <1>9, <1>10, <1>11

\* A block that can be built takes a sequence number for each of its transactions.
LEMMA BuiltBlock ==
  ASSUME NEW b \in Blocks, FirstBad(b.txs) > Len(b.txs)
  PROVE  /\ \A s \in Signers : SequencesAfter(b.txs)[s] = sequences[s] + SignedBefore(b.txs, Len(b.txs) + 1, s)
         /\ \A n \in 1 .. Len(b.txs) : BuiltSeqs(b.txs)[n] = sequences[b.txs[n].signer]
                                                            + SignedBefore(b.txs, n, b.txs[n].signer)
<1>1. Len(b.txs) \in Nat /\ DOMAIN b.txs = 1 .. Len(b.txs)  BY BlockLen
<1>2. Taken(b.txs) = 1 .. Len(b.txs)
  <2> DEFINE f == FirstBad(b.txs)
  <2>1. CASE {n \in DOMAIN b.txs : b.txs[n].msg \in {BadMsg, BadSign}} = {}
    <3>1. f = Len(b.txs) + 1  BY <2>1 DEF FirstBad
    <3> HIDE DEF f
    <3>2. QED  BY <1>1, <3>1 DEF Taken, f
  <2>2. CASE {n \in DOMAIN b.txs : b.txs[n].msg \in {BadMsg, BadSign}} # {}
    <3> DEFINE bad == {n \in DOMAIN b.txs : b.txs[n].msg \in {BadMsg, BadSign}}
    <3>1. bad \subseteq Nat  BY <1>1
    <3>2. \E n \in bad : \A m \in bad : n <= m
      <4> HIDE DEF bad
      <4> QED  BY <2>2, <3>1, LeastNatural DEF bad
    <3>3. f \in bad  BY <2>2, <3>2 DEF FirstBad
    <3>4. f \in 1 .. Len(b.txs)  BY <1>1, <3>3
    <3> HIDE DEF bad
    <3>5. QED  BY <1>1, <3>4
  <2>3. QED  BY <2>1, <2>2
<1>3. 1 .. Len(b.txs) = 1 .. (Len(b.txs) + 1) - 1  BY <1>1
<1>4. QED  BY <1>1, <1>2, <1>3 DEF SequencesAfter, BuiltSeqs, SignedBefore

\* A call that returns an error leaves a failed store.
LEMMA ErrorFails ==
  ASSUME TypeOK, results' = Append(results, "error")
  PROVE  Failed'
<1>1. results \in Seq(Outcomes) /\ "error" \in Outcomes  BY DEF TypeOK, Outcomes
<1>2. Len(results) + 1 \in DOMAIN results' /\ results'[Len(results) + 1] = "error"  BY <1>1
<1>3. QED  BY <1>2 DEF Failed

\* A call that returns one does not repair a failed store.
LEMMA StillFailed ==
  ASSUME TypeOK, NEW v, results' = Append(results, v), Failed
  PROVE  Failed'
<1>1. results \in Seq(Outcomes)  BY DEF TypeOK
<1>2. PICK n \in DOMAIN results : results[n] = "error"  BY DEF Failed
<1>3. n \in DOMAIN results' /\ results'[n] = "error"  BY <1>1, <1>2
<1>4. QED  BY <1>3 DEF Failed

\* One step keeps e.sequences in step with the accounts' sequence numbers, until a call
\* fails.
LEMMA SeqNext == TypeOK /\ Shapes /\ HandlerInv /\ KVInv /\ SeqInv /\ [Next]_vars => SeqInv'
<1> SUFFICES ASSUME TypeOK, Shapes, HandlerInv, KVInv, SeqInv, [Next]_vars PROVE SeqInv'  OBVIOUS
<1>1. CASE Failed' \/ pc' = "closed"  BY <1>1 DEF SeqInv
<1>2. CASE UNCHANGED <<kv, sequences, seqs, block, oracleRes, results, pc>>
  BY <1>2 DEF SeqInv, Failed, NTxs
<1>3. CASE InitOK
  <2>1. kv' = [a \in Apps |-> KVInit] /\ sequences' = [s \in Signers |-> 0] /\ pc' = "idle"  BY <1>3 DEF InitOK
  <2>2. \A s \in Signers : s \in Keys /\ s # Counter  BY ConstantsAssumption DEF Keys, Counter
  <2>3. \A s \in Signers : KVInit[s] = 0  BY <2>2 DEF KVInit
  <2>4. \A s \in Signers : kv'["oracle"][s] = 0 /\ kv'["probe"][s] = 0 /\ sequences'[s] = 0  BY <2>1, <2>3 DEF Apps
  <2>5. QED  BY <2>1, <2>4 DEF SeqInv, Apps
<1>4. ASSUME NEW b \in Blocks, BeginBlock(b), ~Failed PROVE SeqInv'
  <2>1. /\ UNCHANGED <<kv, results>> /\ pc = "idle" /\ pc' = "oracle" /\ block' = b
        /\ sequences' = SequencesAfter(b.txs) /\ seqs' = BuiltSeqs(b.txs)
        /\ FirstBad(b.txs) > Len(b.txs)
    BY <1>4 DEF BeginBlock, appVars
  <2>2. /\ \A s \in Signers : kv["oracle"][s] \in Int /\ kv["probe"][s] = kv["oracle"][s]
        /\ \A s \in Signers : sequences[s] = kv["oracle"][s]
    BY <1>4, <2>1 DEF SeqInv
  <2>3. NTxs' = Len(b.txs)  BY <2>1 DEF NTxs
  <2>4. /\ \A s \in Signers : sequences'[s] = sequences[s] + SignedBefore(b.txs, Len(b.txs) + 1, s)
        /\ \A n \in 1 .. Len(b.txs) : seqs'[n] = sequences[b.txs[n].signer] + SignedBefore(b.txs, n, b.txs[n].signer)
    BY <2>1, BuiltBlock
  <2>5. \A n \in 1 .. Len(b.txs) : b.txs[n].signer \in Signers
    <3>1. b.txs \in Seq(TxSpecs)  BY BlockLen DEF TxSpecs
    <3>2. \A n \in 1 .. Len(b.txs) : b.txs[n] \in TxSpecs  BY <3>1
    <3>3. QED  BY <3>2 DEF TxSpecs
  <2>6. \A n \in 1 .. Len(b.txs) : seqs'[n] = kv["oracle"][b.txs[n].signer] + SignedBefore(b.txs, n, b.txs[n].signer)
    BY <2>2, <2>4, <2>5
  <2>7. QED  BY <2>1, <2>2, <2>3, <2>4, <2>6 DEF SeqInv
<1>5. CASE OracleDone /\ ~Failed
  <2>1. UNCHANGED <<kv, sequences, seqs, block, results>> /\ pc = "oracle" /\ pc' = "probe" /\ oracleRes' = Response /\ AllValid
    BY <1>5 DEF OracleDone
  <2>2. /\ \A s \in Signers : FinalKV[s] = sequences[s]
        /\ Response.appHash = FinalKV
        /\ \A n \in 1 .. NTxs : Response.txResults[n].code # 32
    BY <1>5, <2>1, ResponseSequences DEF Apps
  <2>3. NTxs' = NTxs  BY <2>1 DEF NTxs
  <2>4. QED  BY <1>5, <2>1, <2>2, <2>3 DEF SeqInv, Apps
<1>6. ASSUME ~Failed, ProbeDone("none") PROVE SeqInv'
  <2>1. /\ kv'["oracle"] = oracleRes.appHash /\ kv'["probe"] = FinalKV
        /\ pc = "probe" /\ pc' = "idle" /\ AllValid /\ UNCHANGED sequences
    BY <1>6 DEF ProbeDone, CleanUp, Committed, Apps
  <2>2. /\ \A s \in Signers : FinalKV[s] = sequences[s]
        /\ \A s \in Signers : oracleRes.appHash[s] = sequences[s]
    BY <1>6, <2>1, ResponseSequences DEF Apps, SeqInv
  <2>3. \A s \in Signers : sequences[s] \in Int
    <3>1. \A s \in Signers : /\ kv["oracle"][s] \in Int
                            /\ sequences[s] = kv["oracle"][s] + SignedBefore(block.txs, NTxs + 1, s)
      BY <1>6, <2>1 DEF SeqInv, Apps
    <3>2. NTxs + 1 \in Nat /\ NTxs + 1 > 0  BY DEF Shapes
    <3>3. \A s \in Signers : SignedBefore(block.txs, NTxs + 1, s) \in Nat  BY <3>2, SignedStep
    <3>4. QED  BY <3>1, <3>3
  <2>4. QED  BY <2>1, <2>2, <2>3 DEF SeqInv, Apps
<1>7. ASSUME NEW failing \in Apps \cup {"none"}, ProbeDone(failing) PROVE SeqInv'
  <2>1. CASE failing # "none"  BY <1>1, <1>7, <2>1, ErrorFails DEF ProbeDone
  <2>2. CASE failing = "none" /\ Failed  BY <1>1, <1>7, <2>2, StillFailed DEF ProbeDone
  <2>3. QED  BY <1>6, <1>7, <2>1, <2>2
<1>8. ASSUME NEW b \in Blocks, BeginBlock(b) \/ BuildFails(b) PROVE SeqInv'
  <2>1. CASE BuildFails(b)  BY <1>1, <2>1, ErrorFails DEF BuildFails
  <2>2. CASE BeginBlock(b) /\ Failed
    <3>1. Failed'  BY <2>2 DEF BeginBlock, Failed
    <3>2. QED  BY <1>1, <3>1
  <2>3. QED  BY <1>4, <1>8, <2>1, <2>2
<1>9. CASE OracleDone
  <2>1. CASE Failed
    <3>1. Failed'  BY <1>9, <2>1 DEF OracleDone, Failed
    <3>2. QED  BY <1>1, <3>1
  <2>2. QED  BY <1>5, <1>9, <2>1
<1>10. ASSUME NEW i \in TxIdx, StartTx(i) \/ FinishTx(i) \/ AbortTx(i) PROVE SeqInv'
  BY <1>2, <1>10 DEF StartTx, FinishTx, AbortTx, storeVars, appVars
<1>11. CASE RejectHeight \/ FinalizeFails
  BY <1>1, <1>11, ErrorFails DEF RejectHeight, FinalizeFails
<1>12. CASE InitProbeFails \/ InitOracleFails \/ Close \/ Done
  BY <1>1, <1>12 DEF InitProbeFails, InitOracleFails, Close, Done, vars
<1>13. CASE UNCHANGED vars  BY <1>2, <1>13 DEF vars
<1>14. QED  BY <1>3, <1>7, <1>8, <1>9, <1>10, <1>11, <1>12, <1>13 DEF Next

\* A verdict is only given on a store none of whose calls has failed.
LEMMA VerdictMeansNoFailure ==
  ASSUME StoreInv, pc = "probe", HeightOK
  PROVE  ~Failed
<1>1. Len(results) \in Nat /\ height["probe"] \in Nat  BY DEF StoreInv, TypeOK, Apps
<1>2. height["probe"] = Len(results)  BY <1>1 DEF HeightOK, BlockHeight
<1>3. QED  BY <1>1, <1>2 DEF StoreInv, HeightsInStep

\* The sequences hold in every state.
LEMMA SeqBase == Spec => [](StoreInv /\ Shapes /\ HandlerInv /\ KVInv /\ SeqInv)
<1>1. Init => SeqInv  BY DEF Init, SeqInv
<1>2. TypeOK /\ HeightsInStep /\ ResultsArePrefix => StoreInv  BY DEF StoreInv
<1>3. QED  BY <1>1, <1>2, SeqNext, SerialBase, StoreInvariant, PTL DEF Spec

\* No transaction of a reported block was refused for its sequence number.
THEOREM SequencesStayInStep == Spec => []SequencesInStep
<1>1. Init => SequencesInStep  BY DEF Init, SequencesInStep, HasResult, NoResult
<1>2. StoreInv /\ Shapes /\ SeqInv /\ SequencesInStep /\ [Next]_vars => SequencesInStep'
  <2> SUFFICES ASSUME StoreInv, Shapes, SeqInv, SequencesInStep, [Next]_vars PROVE SequencesInStep'
    OBVIOUS
  <2>1. CASE last' = last  BY <2>1 DEF SequencesInStep, HasResult
  <2>2. CASE last' = NoResult  BY <2>2 DEF SequencesInStep, HasResult, NoResult
  <2>3. CASE last' = BlockResult /\ pc = "probe" /\ HeightOK
    <3>1. last'.oracle = oracleRes  BY <2>3 DEF BlockResult
    <3>2. DOMAIN oracleRes.txResults = 1 .. NTxs  BY <2>3 DEF Shapes, HasResults
    <3>3. QED  BY <2>3, <3>1, <3>2, VerdictMeansNoFailure DEF SequencesInStep, SeqInv
  <2>4. QED  BY <2>1, <2>2, <2>3, LastSteps
<1>3. QED  BY <1>1, <1>2, SeqBase, PTL DEF Spec

-------------------------------------------------------------------------------
(***************************************************************************)
(* No false divergence.  What the oracle returned is a serial run from its   *)
(* store, and in a block of ordinary transactions nothing is ever recorded   *)
(* outside the store: neither in the oracle's observer nor in the            *)
(* block-context tracker.                                                    *)
(***************************************************************************)
OracleSerialInv ==
  pc = "probe" =>
    \E st, ms : IsSerial(st, ms, kv["oracle"]) /\ oracleRes = SerialResponse(st, ms)

Ordinary == ~block.endBlock /\ \A n \in 1 .. NTxs : block.txs[n].msg \notin Special

QuietInv ==
  Ordinary /\ pc \in Apps =>
    /\ \A i \in TxIdx : obs["oracle"].mutSets[i] = <<>>
    /\ bct.mutations = <<>>
    /\ pc = "oracle" => preSnaps = Snapshots(mem["oracle"])
    /\ pc = "oracle" /\ HookMode = "inline" =>
         \A i \in TxIdx : exec.status[i] = "running" => obs["oracle"].snapshots[i] = Snapshots(mem["oracle"])

\* The runner's loop after the block leaves nothing of the oracle's write sets.
PosthocInv ==
  HookMode = "posthoc" /\ pc = "probe" => \A i \in TxIdx : obs["oracle"].writeSets[i] = {}

\* Being a serial run of the block is a matter of the block alone.
LEMMA SerialKept ==
  ASSUME UNCHANGED <<block, seqs, kv, oracleRes>>, OracleSerialInv, pc = "probe"
  PROVE  OracleSerialInv'
<1>1. PICK st, ms : IsSerial(st, ms, kv["oracle"]) /\ oracleRes = SerialResponse(st, ms)  BY DEF OracleSerialInv
<1>2. IsSerial(st, ms, kv["oracle"])' /\ SerialResponse(st, ms)' = SerialResponse(st, ms)
  BY <1>1 DEF IsSerial, SerialResponse, WritesAt, CodeAt, TxIdx, NTxs
<1>3. QED  BY <1>1, <1>2 DEF OracleSerialInv

\* What the oracle returns is kept while the probe runs.
LEMMA OracleSerialNext ==
  Shapes /\ KVInv /\ HandlerInv /\ OracleSerialInv /\ [Next]_vars => OracleSerialInv'
<1> SUFFICES ASSUME Shapes, KVInv, HandlerInv, OracleSerialInv, [Next]_vars, pc' = "probe" PROVE OracleSerialInv'
  BY DEF OracleSerialInv
<1>1. CASE UNCHANGED vars  BY <1>1, SerialKept DEF vars
<1>2. ASSUME NEW i \in TxIdx, StartTx(i) \/ FinishTx(i) \/ AbortTx(i) PROVE OracleSerialInv'
  <2>1. UNCHANGED <<pc, block, seqs, kv, oracleRes>>  BY <1>2 DEF StartTx, FinishTx, AbortTx, storeVars, appVars
  <2>2. QED  BY <2>1, SerialKept
<1>3. CASE OracleDone
  <2>1. pc = "oracle" /\ AllValid /\ UNCHANGED <<block, seqs, kv>> /\ oracleRes' = Response
    BY <1>3 DEF OracleDone
  <2>2. IsSerial(Stores, exec.memRead, kv["oracle"]) /\ Response = SerialResponse(Stores, exec.memRead)
    BY <2>1, ValidIsSerial DEF Apps
  <2>3. \E st, ms : IsSerial(st, ms, kv["oracle"]) /\ Response = SerialResponse(st, ms)  BY <2>2
  <2>4. PICK st, ms : IsSerial(st, ms, kv["oracle"]) /\ Response = SerialResponse(st, ms)  BY <2>3
  <2>5. IsSerial(st, ms, kv["oracle"])' /\ SerialResponse(st, ms)' = SerialResponse(st, ms)
    BY <2>1, <2>4 DEF IsSerial, SerialResponse, WritesAt, CodeAt, TxIdx, NTxs
  <2>6. QED  BY <2>1, <2>4, <2>5 DEF OracleSerialInv
<1>4. ASSUME NEW b \in Blocks, BeginBlock(b) PROVE FALSE  BY <1>4 DEF BeginBlock
<1>5. ASSUME NEW failing \in Apps \cup {"none"}, ProbeDone(failing) PROVE FALSE  BY <1>5 DEF ProbeDone, CleanUp
<1>6. QED  BY <1>1, <1>2, <1>3, <1>4, <1>5, QuietSteps DEF Next

\* Equal snapshots give no record.
LEMMA NoRecords ==
  ASSUME NEW n \in Nat, NEW s, DOMAIN s = 1 .. n
  PROVE  MutationRecords(s, s) = <<>>
<1>1. ASequence(MutationRecords(s, s)) /\ \A x : ~Occurs(x, MutationRecords(s, s))
  BY MutationRecordsExact
<1>2. QED  BY <1>1, ASequenceEmpty

\* The tracker's mutations change by a write of a field only.
LEMMA CtxMutations ==
  ASSUME NEW t, IsCtx(t), NEW name, NEW v
  PROVE  SetCurrentTx(t, v).mutations = t.mutations /\ ReadField(t, name).mutations = t.mutations
<1>1. SetCurrentTx(t, v).mutations = t.mutations  BY DEF IsCtx, SetCurrentTx
<1>2. ReadField(t, name).mutations = t.mutations  BY DEF IsCtx, ReadField
<1>3. QED  BY <1>1, <1>2

\* An ordinary transaction changes neither the keeper's field nor the block context.
LEMMA OrdinaryFinish ==
  ASSUME Shapes, KVInv, Ordinary, NEW i \in TxIdx, FinishTx(i)
  PROVE  /\ mem'["oracle"] = mem["oracle"] /\ FieldAfter(i) = mem[pc]
         /\ bct'.mutations = bct.mutations
<1>1. i + 1 \in 1 .. NTxs  BY DEF Shapes, TxIdx, TxIndices
<1> DEFINE t == block.txs[i + 1]
<1>2. t.msg # "map-set" /\ t.msg # "ctx-write"  BY <1>1 DEF Ordinary, Special
<1>3. FieldAfter(i) = mem[pc]  BY <1>2 DEF FieldAfter
<1>4. mem' = [mem EXCEPT ![pc] = FieldAfter(i)]  BY DEF FinishTx, FieldAfter
<1>5. mem'["oracle"] = mem["oracle"]  BY <1>3, <1>4 DEF KVInv, Apps
<1>6. bct' = bct \/ bct' = ReadField(bct, "height")
  BY <1>2 DEF FinishTx, BlockContextHandlers
<1>7. IsCtx(bct)  BY DEF Shapes
<1>8. QED  BY <1>3, <1>5, <1>6, <1>7, CtxMutations

\* In a block of ordinary transactions nothing is recorded.
LEMMA QuietNext == TypeOK /\ Shapes /\ KVInv /\ QuietInv /\ [Next]_vars => QuietInv'
<1> SUFFICES ASSUME TypeOK, Shapes, KVInv, QuietInv, [Next]_vars, Ordinary', pc' \in Apps PROVE QuietInv'
  BY DEF QuietInv
<1>0. /\ NTxs \in Nat /\ IsExec(exec, NTxs) /\ IsCtx(bct) /\ "oracle" \in Apps /\ "probe" \in Apps
      /\ DOMAIN obs = Apps
  BY DEF Shapes, Apps
<1>1. CASE UNCHANGED vars
  BY <1>1 DEF vars, QuietInv, Ordinary, TxIdx, NTxs, Snapshots, BlockTrackers, SnapshotOutOfKVStoreState
<1>2. ASSUME NEW b \in Blocks, BeginBlock(b) PROVE QuietInv'
  <2>1. /\ pc' = "oracle" /\ block' = b /\ bct' = OracleBlockCtxTracker /\ exec' = NewExec(Len(b.txs))
        /\ preSnaps' = Snapshots(mem["oracle"]) /\ UNCHANGED <<gen, trackers, mem>>
        /\ obs'["oracle"] = NewBlockObserver(Len(b.txs), Len(BlockTrackers))
    BY <1>2 DEF BeginBlock, appVars
  <2>2. NTxs' = Len(b.txs) /\ NTxs' \in Nat  BY <2>1, BlockLen DEF NTxs
  <2>3. \A i \in TxIdx' : exec'.status[i] = "ready"  BY <2>1, <2>2 DEF NewExec, TxIdx
  <2>4. \A i \in TxIdx' : obs'["oracle"].mutSets[i] = <<>>  BY <2>1, <2>2, NewObs DEF TxIdx
  <2>5. bct'.mutations = <<>>  BY <2>1 DEF OracleBlockCtxTracker, Reset
  <2>6. preSnaps' = Snapshots(mem["oracle"])'
    BY <2>1 DEF Snapshots, BlockTrackers, SnapshotOutOfKVStoreState
  <2>7. QED  BY <2>3, <2>4, <2>5, <2>6 DEF QuietInv
<1>3. ASSUME NEW i \in TxIdx, StartTx(i) \/ FinishTx(i) \/ AbortTx(i) PROVE QuietInv'
  <2>1. UNCHANGED <<pc, block, preSnaps, gen, trackers>> /\ pc \in Apps /\ i \in TxIndices(NTxs)
    BY <1>3 DEF StartTx, FinishTx, AbortTx, TxIdx
  <2>2. NTxs' = NTxs /\ TxIdx' = TxIdx /\ Ordinary  BY <2>1 DEF NTxs, TxIdx, Ordinary
  <2>3. /\ \A j \in TxIdx : obs["oracle"].mutSets[j] = <<>>
        /\ bct.mutations = <<>>
        /\ pc = "oracle" => preSnaps = Snapshots(mem["oracle"])
        /\ pc = "oracle" /\ HookMode = "inline" =>
             \A j \in TxIdx : exec.status[j] = "running" => obs["oracle"].snapshots[j] = Snapshots(mem["oracle"])
    BY <2>1, <2>2 DEF QuietInv
  <2>4. bct'.mutations = <<>> /\ mem'["oracle"] = mem["oracle"]
    <3>1. CASE StartTx(i)
      <4>1. mem' = mem /\ (bct' = bct \/ bct' = SetCurrentTx(bct, i))  BY <3>1 DEF StartTx, storeVars, appVars
      <4>2. QED  BY <1>0, <2>3, <4>1, CtxMutations
    <3>2. CASE FinishTx(i)  BY <2>2, <2>3, <3>2, OrdinaryFinish
    <3>3. CASE AbortTx(i)  BY <2>3, <3>3 DEF AbortTx, storeVars, appVars
    <3>4. QED  BY <1>3, <3>1, <3>2, <3>3
  <2>5. Snapshots(mem["oracle"])' = Snapshots(mem["oracle"])
    BY <2>1, <2>4 DEF Snapshots, BlockTrackers, SnapshotOutOfKVStoreState
  <2>6. CASE pc = "probe"
    <3>1. obs' = [obs EXCEPT !["probe"] = obs'["probe"]] \/ obs' = obs
      BY <1>3, <2>6, StartedObs, FinishedObs DEF AbortTx
    <3>2. obs'["oracle"] = obs["oracle"]  BY <1>0, <3>1, OtherObs
    <3>3. pc' # "oracle"  BY <2>1, <2>6
    <3>4. QED  BY <2>2, <2>3, <2>4, <3>2, <3>3 DEF QuietInv
  <2>7. CASE pc = "oracle"
    <3> DEFINE S == Snapshots(mem["oracle"])
    <3>1. Len(trackers) + 1 \in Nat /\ DOMAIN S = 1 .. Len(trackers) + 1  BY SnapshotsDomain
    <3> HIDE DEF S
    <3>2. MutationRecords(S, S) = <<>>  BY <3>1, NoRecords
    <3>3. ASSUME NEW j \in TxIdx
          PROVE  /\ obs'["oracle"].mutSets[j] = <<>>
                 /\ HookMode = "inline" /\ exec'.status[j] = "running" => obs'["oracle"].snapshots[j] = S
      <4>1. CASE StartTx(i)
        <5>1. /\ obs'["oracle"].mutSets = obs["oracle"].mutSets
              /\ HookMode = "inline" => obs'["oracle"].snapshots[i] = ObsSnapshots
              /\ \A k \in TxIdx \ {i} : obs'["oracle"].snapshots[k] = obs["oracle"].snapshots[k]
          BY <2>7, <4>1, StartedObs
        <5>2. \A k \in TxIndices(NTxs) \ {i} : exec'.status[k] = exec.status[k]
          BY <1>0, <2>1, <4>1, WorkerExec, StartedExec
        <5>3. ObsSnapshots = S  BY <2>7 DEF ObsSnapshots, S
        <5>4. QED  BY <2>3, <2>7, <5>1, <5>2, <5>3 DEF TxIdx, S
      <4>2. CASE FinishTx(i)
        <5>1. Snapshots(FieldAfter(i)) = S  BY <2>2, <2>7, <4>2, OrdinaryFinish DEF S
        <5>2. /\ obs'["oracle"].snapshots = obs["oracle"].snapshots
              /\ \A k \in TxIdx \ {i} : obs'["oracle"].mutSets[k] = obs["oracle"].mutSets[k]
              /\ \/ obs'["oracle"].mutSets[i] = obs["oracle"].mutSets[i]
                 \/ /\ HookMode = "inline"
                    /\ obs'["oracle"].mutSets[i] = obs["oracle"].mutSets[i]
                                                     \o MutationRecords(obs["oracle"].snapshots[i], S)
          <6>1. pc # "probe"  BY <2>7
          <6>2. QED  BY <2>7, <4>2, <5>1, <6>1, FinishedObs
        <5>3. exec.status[i] = "running"  BY <4>2 DEF FinishTx
        <5>4. HookMode = "inline" => obs["oracle"].snapshots[i] = S  BY <2>3, <2>7, <5>3 DEF S
        <5>5. obs'["oracle"].mutSets[i] = <<>>
          <6>1. obs["oracle"].mutSets[i] = <<>>  BY <2>3
          <6>2. obs'["oracle"].mutSets[i] = <<>> \/ obs'["oracle"].mutSets[i] = <<>> \o <<>>
            BY <3>2, <5>2, <5>4, <6>1
          <6>3. QED  BY <6>2
        <5>6. exec'.status[i] = "done" /\ \A k \in TxIndices(NTxs) \ {i} : exec'.status[k] = exec.status[k]
          BY <1>0, <2>1, <4>2, WorkerExec, FinishedExec
        <5>7. QED  BY <2>3, <2>7, <5>2, <5>5, <5>6 DEF TxIdx, S
      <4>3. CASE AbortTx(i)
        <5>1. obs' = obs  BY <4>3 DEF AbortTx
        <5>2. exec'.status[i] = "ready" /\ \A k \in TxIndices(NTxs) \ {i} : exec'.status[k] = exec.status[k]
          BY <1>0, <2>1, <4>3, WorkerExec, AbortedExec
        <5>3. QED  BY <2>3, <2>7, <5>1, <5>2 DEF TxIdx, S
      <4>4. QED  BY <1>3, <4>1, <4>2, <4>3
    <3>4. QED  BY <2>1, <2>2, <2>3, <2>4, <2>5, <2>7, <3>3 DEF QuietInv, S
  <2>8. QED  BY <2>1, <2>6, <2>7 DEF Apps
<1>4. CASE OracleDone
  <2>1. /\ UNCHANGED block /\ pc = "oracle" /\ pc' = "probe"
        /\ bct' = SetCurrentTx(bct, LastTx(bct.currentTx))
    BY <1>4 DEF OracleDone
  <2>2. NTxs' = NTxs /\ TxIdx' = TxIdx /\ Ordinary  BY <2>1 DEF NTxs, TxIdx, Ordinary
  <2>3. /\ \A j \in TxIdx : obs["oracle"].mutSets[j] = <<>>
        /\ bct.mutations = <<>> /\ preSnaps = Snapshots(mem["oracle"])
    BY <1>0, <2>1, <2>2 DEF QuietInv
  <2>4. EndBlockMem("oracle") = mem["oracle"]  BY <2>2 DEF EndBlockMem, Ordinary
  <2>5. MutationRecords(preSnaps, Snapshots(EndBlockMem("oracle"))) = <<>>
    <3> DEFINE S == Snapshots(mem["oracle"])
    <3>1. Len(trackers) + 1 \in Nat /\ DOMAIN S = 1 .. Len(trackers) + 1  BY SnapshotsDomain
    <3>2. preSnaps = S /\ Snapshots(EndBlockMem("oracle")) = S  BY <2>3, <2>4
    <3> HIDE DEF S
    <3>3. QED  BY <3>1, <3>2, NoRecords
  <2>6. /\ \A j \in TxIdx \ {0} : obs'["oracle"].mutSets[j] = obs["oracle"].mutSets[j]
        /\ 0 \in TxIdx => obs'["oracle"].mutSets[0] = obs["oracle"].mutSets[0] \o <<>>
    BY <1>4, <2>5, OracleDoneObs
  <2>7. \A j \in TxIdx : obs'["oracle"].mutSets[j] = <<>>  BY <2>3, <2>6
  <2>8. bct'.mutations = <<>>  BY <1>0, <2>1, <2>3, CtxMutations
  <2>9. QED  BY <2>1, <2>2, <2>7, <2>8 DEF QuietInv
<1>5. ASSUME NEW failing \in Apps \cup {"none"}, ProbeDone(failing) PROVE FALSE
  BY <1>5 DEF ProbeDone, CleanUp, Apps
<1>6. CASE pc' \in {"idle", "closed"}  BY <1>6 DEF Apps
<1>7. QED  BY <1>1, <1>2, <1>3, <1>4, <1>5, <1>6, QuietSteps DEF Next

\* The oracle's write sets are emptied once and stay as they are while the probe runs.
LEMMA PosthocNext == TypeOK /\ Shapes /\ PosthocInv /\ [Next]_vars => PosthocInv'
<1> SUFFICES ASSUME TypeOK, Shapes, PosthocInv, [Next]_vars, HookMode = "posthoc", pc' = "probe" PROVE PosthocInv'
  BY DEF PosthocInv
<1>1. CASE UNCHANGED vars  BY <1>1 DEF vars, PosthocInv, TxIdx, NTxs
<1>2. ASSUME NEW i \in TxIdx, StartTx(i) \/ FinishTx(i) \/ AbortTx(i) PROVE PosthocInv'
  <2>1. UNCHANGED <<pc, block>> /\ pc = "probe"  BY <1>2 DEF StartTx, FinishTx, AbortTx
  <2>2. obs' = [obs EXCEPT !["probe"] = obs'["probe"]] \/ obs' = obs
    BY <1>2, <2>1, StartedObs, FinishedObs DEF AbortTx
  <2>3. obs'["oracle"] = obs["oracle"]
    <3>1. DOMAIN obs = Apps  BY DEF Shapes
    <3>2. QED  BY <2>2, <3>1, OtherObs DEF Apps
  <2>4. QED  BY <2>1, <2>3 DEF PosthocInv, TxIdx, NTxs
<1>3. CASE OracleDone
  <2>1. UNCHANGED block  BY <1>3 DEF OracleDone
  <2>2. \A j \in TxIdx : obs'["oracle"].writeSets[j] = {}  BY <1>3, OracleDoneObs
  <2>3. QED  BY <2>1, <2>2 DEF PosthocInv, TxIdx, NTxs
<1>4. ASSUME NEW b \in Blocks, BeginBlock(b) PROVE FALSE  BY <1>4 DEF BeginBlock
<1>5. ASSUME NEW failing \in Apps \cup {"none"}, ProbeDone(failing) PROVE FALSE  BY <1>5 DEF ProbeDone, CleanUp
<1>6. QED  BY <1>1, <1>2, <1>3, <1>4, <1>5, QuietSteps DEF Next

\* Two runs of an ordinary block from equal stores return the same.
LEMMA SameResponse ==
  ASSUME Shapes, KVInv, HandlerInv, OracleSerialInv, pc = "probe", AllValid, Ordinary, kv["oracle"] = kv["probe"]
  PROVE  Response = oracleRes
<1>1. PICK st, ms : IsSerial(st, ms, kv["oracle"]) /\ oracleRes = SerialResponse(st, ms)  BY DEF OracleSerialInv
<1>2. IsSerial(Stores, exec.memRead, kv["oracle"]) /\ Response = SerialResponse(Stores, exec.memRead)
  BY ValidIsSerial DEF Apps
<1>3. NTxs \in Nat  BY DEF Shapes
<1>4. \A i \in TxIdx : block.txs[i + 1].msg # "map-read-write"
  <2>1. \A i \in TxIdx : i + 1 \in 1 .. NTxs  BY <1>3 DEF TxIdx, TxIndices
  <2>2. QED  BY <2>1 DEF Ordinary, Special
<1> DEFINE su == Stores  mu == exec.memRead
<1>5. IsSerial(su, mu, kv["oracle"]) /\ Response = SerialResponse(su, mu)  BY <1>2
<1> HIDE DEF su, mu
<1>6. SerialResponse(st, ms) = SerialResponse(su, mu)  BY <1>1, <1>3, <1>4, <1>5, SerialUnique
<1>7. QED  BY <1>1, <1>5, <1>6

\* And both observers hold the same write sets, if the runner fires OnTxStart at all.
LEMMA SameWriteSets ==
  ASSUME Shapes, CapturedInv, PosthocInv, pc = "probe", AllValid, Response = oracleRes, HookMode # "never",
         NEW n \in 1 .. NTxs
  PROVE  TxWriteSet(obs["oracle"], n - 1) = TxWriteSet(ProbeObserved, n - 1)
<1>1. /\ NTxs \in Nat /\ n - 1 \in TxIdx /\ n - 1 < NTxs /\ "oracle" \in Apps /\ "probe" \in Apps
      /\ HookMode \in {"inline", "posthoc"}
  BY ConstantsAssumption DEF Shapes, TxIdx, TxIndices, Apps, HookModes
<1>2. TxWriteSet(obs["oracle"], n - 1) = obs["oracle"].writeSets[n - 1]  BY <1>1, ObsWriteSet
<1>3. TxWriteSet(ProbeObserved, n - 1) = ProbeObserved.writeSets[n - 1]
  <2>1. IsObs(ProbeObserved, NTxs)  BY <1>1, LoopedObs DEF ProbeObserved
  <2>2. ProbeObserved.txCount = NTxs  BY <2>1 DEF IsObs
  <2>3. QED  BY <1>1, <2>2 DEF TxWriteSet
<1>4. CASE HookMode = "inline"
  <2>1. ProbeObserved = obs["probe"]  BY <1>1, <1>4, LoopedObs DEF ProbeObserved
  <2>2. obs["probe"].writeSets[n - 1] = DOMAIN exec.writes[n - 1]
    BY <1>1, <1>4 DEF CapturedInv, AllValid
  <2>3. oracleRes.written[n] = DOMAIN exec.writes[n - 1]  BY DEF Response
  <2>4. oracleRes.written[n] = obs["oracle"].writeSets[n - 1]  BY <1>4 DEF CapturedInv
  <2>5. QED  BY <1>2, <1>3, <2>1, <2>2, <2>3, <2>4
<1>5. CASE HookMode = "posthoc"
  <2>1. ProbeObserved.writeSets[n - 1] = {}  BY <1>1, <1>5, LoopedObs DEF ProbeObserved
  <2>2. obs["oracle"].writeSets[n - 1] = {}  BY <1>1, <1>5 DEF PosthocInv
  <2>3. QED  BY <1>2, <1>3, <2>1, <2>2
<1>6. QED  BY <1>1, <1>4, <1>5

\* Nothing of an ordinary block that ran twice from equal stores is a finding, but calls of
\* the clock.
LEMMA OrdinaryFindings ==
  ASSUME Shapes, KVInv, HandlerInv, OracleSerialInv, QuietInv, CapturedInv, PosthocInv,
         pc = "probe", AllValid, Ordinary, kv["oracle"] = kv["probe"], HookMode # "never",
         NEW x, Occurs(x, BlockFindings)
  PROVE  x.dim = "non_deterministic" /\ Occurs(x.item, sink.calls)
<1>1. BlockFound(x)  BY BlockFindingsExact
<1>2. Response = oracleRes  BY SameResponse
<1>3. ~Occurs(x, AppHashFindings(BlockHeight, oracleRes, Response))
  BY <1>2, ASequenceOne DEF AppHashFindings
<1>4. \A d, c : ~ReportsDiff(x, BlockHeight, d, c, c, NTxs)  BY DEF ReportsDiff
<1>5. ~ReportsDiff(x, BlockHeight, "write_set", WriteSets(obs["oracle"], NTxs), WriteSets(ProbeObserved, NTxs), NTxs)
  BY <1>2, SameWriteSets DEF ReportsDiff, WriteSets
<1>6. ~Occurs(x, MutationFindings(BlockHeight, NTxs, NTxs, obs["oracle"]))
  <2> DEFINE n == NTxs  o == obs["oracle"]  h == BlockHeight
  <2>1. n \in Nat /\ n <= n /\ IsObs(o, n) /\ \A i \in TxIndices(n) : ASequence(o.mutSets[i])
    BY DEF Shapes, Apps, TxIdx
  <2>2. \A i \in TxIndices(n) : o.mutSets[i] = <<>>  BY DEF QuietInv, Apps, TxIdx
  <2> HIDE DEF n, o, h
  <2>3. Occurs(x, MutationFindings(h, n, n, o)) => \E i \in TxIndices(n) : \E y : Occurs(y, o.mutSets[i])
    BY <2>1, MutationFindingsExact
  <2>4. ~Occurs(x, MutationFindings(h, n, n, o))  BY <2>2, <2>3, ASequenceOne
  <2>5. QED  BY <2>4 DEF n, o, h
<1>7. ~Occurs(x, BlockContextFindings(BlockHeight, bct.mutations))
  <2>1. bct.mutations = <<>>  BY DEF QuietInv, Apps
  <2>2. QED  BY <2>1 DEF Occurs, BlockContextFindings
<1>8. Occurs(x, NonDetFindings(BlockHeight, sink.calls))
  BY <1>1, <1>2, <1>3, <1>4, <1>5, <1>6, <1>7 DEF BlockFound
<1>9. QED  BY <1>8 DEF Occurs, NonDetFindings, NewFinding

-------------------------------------------------------------------------------
(* The calls in the sink.                                                    *)

\* A record is added to the sink, under the transaction announced last.
LEMMA SinkRecords ==
  ASSUME NEW s, IsSink(s), NEW src, NEW i
  PROVE  /\ SinkSetCurrentTx(s, i).calls = s.calls /\ SinkSetCurrentTx(s, i).txIndex = i
         /\ Record(s, src).txIndex = s.txIndex
         /\ \A c : Occurs(c, s.calls) => Occurs(c, Record(s, src).calls)
         /\ Occurs([txIndex |-> s.txIndex, src |-> src], Record(s, src).calls)
<1>1. SinkSetCurrentTx(s, i).calls = s.calls /\ SinkSetCurrentTx(s, i).txIndex = i  BY DEF IsSink, SinkSetCurrentTx
<1> DEFINE r == [txIndex |-> s.txIndex, src |-> src]
<1>2. ASequence(s.calls)  BY DEF IsSink
<1>3. Record(s, src) = [txIndex |-> s.txIndex, calls |-> Append(s.calls, r)]  BY DEF IsSink, Record
<1> HIDE DEF r
<1>4. Append(s.calls, r) = s.calls \o <<r>>  BY <1>2 DEF ASequence
<1>5. \A c : Occurs(c, s.calls \o <<r>>) <=> Occurs(c, s.calls) \/ c = r
  BY <1>2, ASequenceOne, ASequenceConcat
<1>6. Record(s, src).txIndex = s.txIndex /\ Record(s, src).calls = s.calls \o <<r>>  BY <1>3, <1>4
<1>7. QED  BY <1>1, <1>5, <1>6 DEF r

\* A call of the current store is one of the block that is running.
OwnCall(c) ==
  /\ pc \in Apps
  /\ \E j \in TxIdx : block.txs[j + 1].msg = "clock"

\* Where the calls in the sink come from: none of the future, and of the current store only
\* those of the running block, unless the store has failed.
CallsInv ==
  \A c : Occurs(c, sink.calls) =>
    /\ c.src[1] \in Nat /\ c.src[1] <= gen
    /\ c.src[1] = gen => Failed \/ OwnCall(c)

\* The calls in the sink after a worker's step: those of before, and the clock's.
LEMMA WorkerCalls ==
  ASSUME Shapes, NEW i \in TxIdx, StartTx(i) \/ FinishTx(i) \/ AbortTx(i),
         NEW c, Occurs(c, sink'.calls)
  PROVE  \/ Occurs(c, sink.calls)
         \/ c.src[1] = gen /\ block.txs[i + 1].msg = "clock"
<1>1. IsSink(sink) /\ ASequence(sink.calls)  BY DEF Shapes, IsSink
<1> DEFINE src == <<gen, BlockHeight, pc, i>>  r == [txIndex |-> sink.txIndex, src |-> src]
<1>2. \/ sink' = sink \/ sink' = SinkSetCurrentTx(sink, i)
      \/ sink' = Record(sink, src) /\ block.txs[i + 1].msg = "clock"
  BY DEF StartTx, FinishTx, AbortTx
<1>3. r.src[1] = gen  OBVIOUS
<1>4. SinkSetCurrentTx(sink, i).calls = sink.calls  BY <1>1, SinkRecords
<1>5. Record(sink, src).calls = Append(sink.calls, r)  BY <1>1 DEF IsSink, Record
<1> HIDE DEF r, src
<1>6. Append(sink.calls, r) = sink.calls \o <<r>>  BY <1>1 DEF ASequence
<1>7. Occurs(c, sink.calls \o <<r>>) <=> Occurs(c, sink.calls) \/ c = r
  BY <1>1, ASequenceOne, ASequenceConcat
<1>8. QED  BY <1>2, <1>3, <1>4, <1>5, <1>6, <1>7

\* A step that leaves the sink's calls, and keeps the store open or fails it.
LEMMA CallsKept ==
  ASSUME CallsInv, sink'.calls = sink.calls, gen' = gen, Failed => Failed',
         Failed' \/ (UNCHANGED block /\ pc \in Apps /\ pc' \in Apps) \/ pc \notin Apps
  PROVE  CallsInv'
<1> SUFFICES ASSUME NEW c, Occurs(c, sink'.calls)
             PROVE  /\ c.src[1] \in Nat /\ c.src[1] <= gen'
                    /\ c.src[1] = gen' => Failed' \/ OwnCall(c)'
  BY DEF CallsInv
<1>1. Occurs(c, sink.calls)  BY DEF Occurs
<1>2. /\ c.src[1] \in Nat /\ c.src[1] <= gen
      /\ c.src[1] = gen => Failed \/ OwnCall(c)
  BY <1>1 DEF CallsInv
<1>3. UNCHANGED block => TxIdx' = TxIdx  BY DEF TxIdx, NTxs
<1>4. QED  BY <1>2, <1>3 DEF OwnCall

\* Every step keeps account of where the calls come from.
LEMMA CallsNext == TypeOK /\ Shapes /\ CallsInv /\ [Next]_vars => CallsInv'
<1> SUFFICES ASSUME TypeOK, Shapes, CallsInv, [Next]_vars PROVE CallsInv'  OBVIOUS
<1>0. gen \in Nat /\ IsSink(sink) /\ results \in Seq(Outcomes)  BY ConstantsAssumption DEF TypeOK, Shapes
<1>1. CASE InitOK \/ InitProbeFails
  <2>1. gen' = gen + 1 /\ sink' = sink
    BY <1>1 DEF InitOK, InitProbeFails, blockVars
  <2>2. QED  BY <1>0, <2>1 DEF CallsInv, Occurs
<1>2. CASE InitOracleFails \/ Close \/ Done \/ UNCHANGED vars
  <2>1. UNCHANGED <<gen, sink, results, block>> /\ (pc \notin Apps \/ UNCHANGED pc)
    BY <1>2 DEF InitOracleFails, Close, Done, vars, blockVars, storeVars, Apps
  <2>2. Failed' = Failed  BY <2>1 DEF Failed
  <2>3. QED  BY <2>1, <2>2, CallsKept
<1>3. ASSUME NEW b \in Blocks, BeginBlock(b) PROVE CallsInv'
  <2>1. UNCHANGED <<gen, sink, results>> /\ pc = "idle"  BY <1>3 DEF BeginBlock
  <2>2. Failed' = Failed  BY <2>1 DEF Failed
  <2>3. QED  BY <2>1, <2>2, CallsKept DEF Apps
<1>4. ASSUME \/ \E b \in Blocks : BuildFails(b)
             \/ RejectHeight \/ FinalizeFails
      PROVE  CallsInv'
  <2>1. UNCHANGED <<gen, sink>> /\ results' = Append(results, "error")
    BY <1>4 DEF BuildFails, RejectHeight, FinalizeFails, blockVars
  <2>2. Failed'  BY <1>0, <2>1 DEF Failed, Outcomes
  <2>3. QED  BY <2>1, <2>2, CallsKept
<1>5. ASSUME NEW i \in TxIdx, StartTx(i) \/ FinishTx(i) \/ AbortTx(i) PROVE CallsInv'
  <2>1. UNCHANGED <<gen, results, block, pc>> /\ pc \in Apps
    BY <1>5 DEF StartTx, FinishTx, AbortTx, storeVars
  <2>2. Failed' = Failed /\ TxIdx' = TxIdx  BY <2>1 DEF Failed, TxIdx, NTxs
  <2>3. SUFFICES ASSUME NEW c, Occurs(c, sink'.calls)
                 PROVE  /\ c.src[1] \in Nat /\ c.src[1] <= gen'
                        /\ c.src[1] = gen' => Failed' \/ OwnCall(c)'
    BY DEF CallsInv
  <2>4. Occurs(c, sink.calls) \/ (c.src[1] = gen /\ block.txs[i + 1].msg = "clock")
    BY <1>5, <2>3, WorkerCalls
  <2>5. QED  BY <1>0, <1>5, <2>1, <2>2, <2>4 DEF CallsInv, OwnCall
<1>6. CASE OracleDone
  <2>1. UNCHANGED <<gen, results, block>> /\ pc = "oracle" /\ pc' = "probe"
        /\ sink' = SinkSetCurrentTx(sink, LastTx(sink.txIndex))
    BY <1>6 DEF OracleDone
  <2>2. sink'.calls = sink.calls  BY <1>0, <2>1, SinkRecords
  <2>3. Failed' = Failed  BY <2>1 DEF Failed
  <2>4. QED  BY <2>1, <2>2, <2>3, CallsKept DEF Apps
<1>7. ASSUME NEW failing \in Apps \cup {"none"}, ProbeDone(failing) PROVE CallsInv'
  <2>1. sink'.calls = <<>>  BY <1>7 DEF ProbeDone, Drained, NewSink
  <2>2. QED  BY <2>1 DEF CallsInv, Occurs
<1>8. QED  BY <1>1, <1>2, <1>3, <1>4, <1>5, <1>6, <1>7 DEF Next

\* A block of ordinary transactions that starts from equal stores is a MATCH under any
\* schedule with re-executions, or all its findings are clock calls left over from an earlier
\* store.  The argument is serializability: both responses are those of serial runs from the
\* same store, and there is only one; and a store without a failure has no call in the sink
\* that is not of the running block.
THEOREM NeverFalselyDivergent == Spec => []NoFalseDivergence
<1> DEFINE Inv == /\ TypeOK /\ Shapes /\ HandlerInv /\ KVInv /\ CapturedInv
                  /\ OracleSerialInv /\ QuietInv /\ PosthocInv /\ HeightsInStep /\ CallsInv
<1>1. Init => CapturedInv /\ OracleSerialInv /\ QuietInv /\ PosthocInv /\ CallsInv /\ NoFalseDivergence
  <2>1. Init => CallsInv  BY DEF Init, CallsInv, Occurs, NewSink
  <2>2. QED
    BY <2>1
       DEF Init, CapturedInv, OracleSerialInv, QuietInv, PosthocInv, NoFalseDivergence, HasResult, NoResult, Apps
<1>2. Inv /\ NoFalseDivergence /\ [Next]_vars => NoFalseDivergence'
  <2> SUFFICES ASSUME Inv, NoFalseDivergence, [Next]_vars PROVE NoFalseDivergence'  OBVIOUS
  <2>1. CASE last' = last  BY <2>1 DEF NoFalseDivergence, HasResult, LeftOver
  <2>2. CASE last' = NoResult  BY <2>2 DEF NoFalseDivergence, HasResult, NoResult
  <2>3. CASE last' = BlockResult /\ pc = "probe" /\ HeightOK /\ AllValid
    <3>1. /\ last'.findings = BlockFindings /\ last'.block = block /\ last'.id = <<gen, BlockHeight>>
          /\ last'.sameKV = (kv["oracle"] = kv["probe"]) /\ last'.verdict = Verdict(BlockFindings)
      BY <2>3 DEF BlockResult
    <3>2. DOMAIN block.txs = 1 .. NTxs  BY DEF KVInv, NTxs
    <3>3. ASSUME last'.sameKV, ~last'.block.endBlock, HookMode # "never",
                 \A n \in DOMAIN last'.block.txs : last'.block.txs[n].msg \notin Special
          PROVE  /\ last'.verdict = Match \/ last'.findings # <<>>
                 /\ \A n \in DOMAIN last'.findings : /\ last'.findings[n].dim = "non_deterministic"
                                                     /\ last'.findings[n].item.src[1] < last'.id[1]
      <4>1. Ordinary /\ kv["oracle"] = kv["probe"]  BY <3>1, <3>2, <3>3 DEF Ordinary
      <4>2. ~Failed
        BY <2>3 DEF HeightOK, BlockHeight, HeightsInStep, TypeOK, Apps
      <4>3. ASSUME NEW x, Occurs(x, BlockFindings)
            PROVE  x.dim = "non_deterministic" /\ x.item.src[1] < gen
        <5>1. x.dim = "non_deterministic" /\ Occurs(x.item, sink.calls)
          BY <2>3, <3>3, <4>1, <4>3, OrdinaryFindings
        <5>2. \A j \in TxIdx : block.txs[j + 1].msg # "clock"
          <6>1. NTxs \in Nat  BY DEF Shapes
          <6>2. \A j \in TxIdx : j + 1 \in DOMAIN block.txs  BY <3>2, <6>1 DEF TxIdx, TxIndices
          <6>3. QED  BY <3>1, <3>3, <6>2 DEF Special
        <5>3. x.item.src[1] \in Nat /\ x.item.src[1] <= gen /\ x.item.src[1] # gen
          BY <4>2, <5>1, <5>2 DEF CallsInv, OwnCall
        <5>4. gen \in Nat  BY ConstantsAssumption DEF TypeOK
        <5>5. QED  BY <5>1, <5>3, <5>4
      <4>4. Verdict(BlockFindings) = Match \/ BlockFindings # <<>>  BY DEF Verdict
      <4>5. QED  BY <3>1, <4>3, <4>4 DEF Occurs
    <3>4. QED  BY <3>3 DEF NoFalseDivergence, LeftOver
  <2>4. QED  BY <2>1, <2>2, <2>3, LastSteps
<1>3. QED
  BY <1>1, <1>2, SerialBase, StoreInvariant, CapturedNext, OracleSerialNext, QuietNext, PosthocNext, CallsNext,
     PTL DEF Spec

-------------------------------------------------------------------------------
(***************************************************************************)
(* What happens outside the store is reported.  A keeper that changed over   *)
(* the block is in the block's mutation records.  A clock call is in the     *)
(* sink from the moment its transaction is done, and stays there: the sink   *)
(* is not drained before the comparison.                                     *)
(***************************************************************************)
BlockMutationInv ==
  pc = "probe" /\ 0 \in TxIdx =>
    \A t \in DOMAIN preSnaps : preSnaps[t] # Snapshots(mem["oracle"])[t] =>
      \E y : Occurs(y, obs["oracle"].mutSets[0]) /\ y.tracker = t

\* A sequential runner that announces its transactions before they run.
Attributing == HookMode = "inline" /\ OracleWorkers <= 1

\* The clock call of the oracle's transaction i is in the sink.
Called(i) ==
  \E c : /\ Occurs(c, sink.calls) /\ c.src = <<gen, BlockHeight, "oracle", i>>
         /\ Attributing => c.txIndex = i

ClockInv ==
  /\ pc = "oracle" => \A i \in TxIdx :
       /\ exec.status[i] = "done" /\ AnteOK(i) /\ block.txs[i + 1].msg = "clock" => Called(i)
       /\ Attributing /\ exec.status[i] = "running" => sink.txIndex = i
  /\ pc = "probe" /\ ~Failed => \A i \in TxIdx : block.txs[i + 1].msg = "clock" => Called(i)

\* The keeper of the oracle is left alone while the probe runs.
LEMMA BlockMutationNext == TypeOK /\ Shapes /\ KVInv /\ SnapInv /\ BlockMutationInv /\ [Next]_vars => BlockMutationInv'
<1> SUFFICES ASSUME TypeOK, Shapes, KVInv, SnapInv, BlockMutationInv, [Next]_vars, pc' = "probe", (0 \in TxIdx)'
             PROVE  BlockMutationInv'
  BY DEF BlockMutationInv
<1>0. "oracle" \in Apps /\ "probe" \in Apps /\ "oracle" # "probe" /\ DOMAIN mem = Apps
  BY DEF Apps, KVInv
<1>1. CASE UNCHANGED vars
  BY <1>1 DEF vars, BlockMutationInv, TxIdx, NTxs, Snapshots, BlockTrackers, SnapshotOutOfKVStoreState
<1>2. ASSUME NEW i \in TxIdx, StartTx(i) \/ FinishTx(i) \/ AbortTx(i) PROVE BlockMutationInv'
  <2>1. UNCHANGED <<pc, block, preSnaps, gen, trackers>> /\ pc = "probe"
    BY <1>2 DEF StartTx, FinishTx, AbortTx
  <2>2. obs'["oracle"] = obs["oracle"]
    <3>1. obs' = [obs EXCEPT !["probe"] = obs'["probe"]] \/ obs' = obs
      BY <1>2, <2>1, StartedObs, FinishedObs DEF AbortTx
    <3>2. QED  BY <1>0, <3>1, OtherObs
  <2>3. mem'["oracle"] = mem["oracle"]
    <3>1. CASE StartTx(i) \/ AbortTx(i)  BY <3>1 DEF StartTx, AbortTx, storeVars, appVars
    <3>2. CASE FinishTx(i)
      <4>1. mem' = [mem EXCEPT ![pc] = FieldAfter(i)]  BY <3>2 DEF FinishTx, FieldAfter
      <4>2. QED  BY <1>0, <2>1, <4>1
    <3>3. QED  BY <1>2, <3>1, <3>2
  <2>4. Snapshots(mem["oracle"])' = Snapshots(mem["oracle"])
    BY <2>1, <2>3 DEF Snapshots, BlockTrackers, SnapshotOutOfKVStoreState
  <2>5. TxIdx' = TxIdx  BY <2>1 DEF TxIdx, NTxs
  <2>6. QED  BY <2>1, <2>2, <2>4, <2>5 DEF BlockMutationInv
<1>3. CASE OracleDone
  <2>1. /\ UNCHANGED <<block, preSnaps, gen, trackers>> /\ pc = "oracle"
        /\ mem' = [mem EXCEPT !["oracle"] = EndBlockMem("oracle")]
    BY <1>3 DEF OracleDone
  <2> DEFINE field == EndBlockMem("oracle")
             after == Snapshots(field)
             ms == MutationRecords(preSnaps, after)
             n == Len(trackers) + 1
  <2>2. Snapshots(mem["oracle"])' = after
    <3>1. mem'["oracle"] = field
      <4> HIDE DEF field
      <4> QED  BY <1>0, <2>1 DEF field
    <3> HIDE DEF field
    <3>2. QED  BY <2>1, <3>1 DEF Snapshots, BlockTrackers, SnapshotOutOfKVStoreState
  <2>3. n \in Nat /\ DOMAIN after = 1 .. n  BY SnapshotsDomain
  <2>4. DOMAIN preSnaps = 1 .. n  BY <1>0, <2>1 DEF SnapInv, IsSnap, IsColumn
  <2>5. TxIdx' = TxIdx /\ 0 \in TxIdx  BY <2>1 DEF TxIdx, NTxs
  <2>6. obs'["oracle"].mutSets[0] = obs["oracle"].mutSets[0] \o ms /\ ASequence(ms)
    BY <1>3, <2>5, OracleDoneObs
  <2>7. ASequence(obs["oracle"].mutSets[0])  BY <1>0, <2>5 DEF Shapes
  <2> HIDE DEF field, after, n
  <2>8. \A y : Occurs(y, ms) <=> \E t \in 1 .. n : preSnaps[t] # after[t] /\ y = MutationRecord(t, preSnaps, after)
    BY <2>3, MutationRecordsExact
  <2> HIDE DEF ms
  <2>9. \A y : Occurs(y, ms) => Occurs(y, obs'["oracle"].mutSets[0])
    <3> DEFINE s == obs["oracle"].mutSets[0]
    <3>1. ASequence(s) /\ obs'["oracle"].mutSets[0] = s \o ms  BY <2>6, <2>7
    <3> HIDE DEF s
    <3>2. QED  BY <2>6, <3>1, ASequenceConcat
  <2>10. ASSUME NEW t \in 1 .. n, preSnaps[t] # after[t]
         PROVE  \E y : Occurs(y, obs'["oracle"].mutSets[0]) /\ y.tracker = t
    <3>1. Occurs(MutationRecord(t, preSnaps, after), ms)  BY <2>8, <2>10
    <3>2. MutationRecord(t, preSnaps, after).tracker = t  BY DEF MutationRecord
    <3>3. QED  BY <2>9, <3>1, <3>2
  <2>11. \A t \in DOMAIN preSnaps' : preSnaps'[t] # Snapshots(mem["oracle"])'[t] =>
            \E y : Occurs(y, obs'["oracle"].mutSets[0]) /\ y.tracker = t
    BY <2>1, <2>2, <2>4, <2>10
  <2>12. QED  BY <2>11 DEF BlockMutationInv
<1>4. ASSUME NEW b \in Blocks, BeginBlock(b) PROVE FALSE  BY <1>4 DEF BeginBlock
<1>5. ASSUME NEW failing \in Apps \cup {"none"}, ProbeDone(failing) PROVE FALSE  BY <1>5 DEF ProbeDone, CleanUp
<1>6. QED  BY <1>1, <1>2, <1>3, <1>4, <1>5, QuietSteps DEF Next

\* A sequential oracle starts a transaction only when none is running.
LEMMA OneAtATime ==
  ASSUME Shapes, Attributing, pc = "oracle", NEW i \in TxIdx, StartTx(i)
  PROVE  \A j \in TxIdx : exec.status[j] # "running"
<1> DEFINE R == {j \in TxIdx : exec.status[j] = "running"}
<1>1. OracleWorkers \in Nat /\ OracleWorkers <= 1  BY ConstantsAssumption DEF Attributing
<1>2. Workers = 1  BY <1>1 DEF Workers
<1>3. Cardinality(R) < 1  BY <1>2 DEF StartTx
<1>4. IsFiniteSet(R)
  <2>1. NTxs \in Nat /\ R \subseteq 0 .. NTxs - 1  BY DEF Shapes, TxIdx, TxIndices
  <2>2. IsFiniteSet(0 .. NTxs - 1)  BY <2>1, FS_Interval
  <2>3. QED  BY <2>1, <2>2, FS_Subset
<1> HIDE DEF R
<1>5. Cardinality(R) = 0  BY <1>3, <1>4, FS_CardinalityType
<1>6. R = {}  BY <1>4, <1>5, FS_EmptySet
<1>7. QED  BY <1>6 DEF R

\* A call that is in the sink stays there.
LEMMA StaysCalled ==
  ASSUME UNCHANGED <<gen, results>>, \A c : Occurs(c, sink.calls) => Occurs(c, sink'.calls),
         NEW i, Called(i)
  PROVE  Called(i)'
<1>1. PICK c : /\ Occurs(c, sink.calls) /\ c.src = <<gen, BlockHeight, "oracle", i>>
               /\ Attributing => c.txIndex = i
  BY DEF Called
<1>2. BlockHeight' = BlockHeight  BY DEF BlockHeight
<1>3. Occurs(c, sink.calls)' /\ c.src = <<gen', BlockHeight', "oracle", i>> /\ (Attributing => c.txIndex = i)
  BY <1>1, <1>2
<1>4. Attributing' = Attributing  BY DEF Attributing
<1>5. QED  BY <1>3, <1>4 DEF Called

\* A worker's step takes no call out of the sink.
LEMMA WorkerSink ==
  ASSUME Shapes, NEW i \in TxIdx, StartTx(i) \/ FinishTx(i) \/ AbortTx(i)
  PROVE  \A c : Occurs(c, sink.calls) => Occurs(c, sink'.calls)
<1>1. IsSink(sink)  BY DEF Shapes
<1> DEFINE src == <<gen, BlockHeight, pc, i>>
<1>2. sink' = sink \/ sink' = SinkSetCurrentTx(sink, i) \/ sink' = Record(sink, src)
  BY DEF StartTx, FinishTx, AbortTx
<1> HIDE DEF src
<1>3. SinkSetCurrentTx(sink, i).calls = sink.calls  BY <1>1, SinkRecords
<1>4. \A c : Occurs(c, sink.calls) => Occurs(c, Record(sink, src).calls)  BY <1>1, SinkRecords
<1>5. CASE sink' = Record(sink, src)  BY <1>4, <1>5
<1>6. CASE sink' = SinkSetCurrentTx(sink, i)  BY <1>3, <1>6
<1>7. QED  BY <1>2, <1>5, <1>6

\* The transactions that call the clock find it recorded.
LEMMA ClockNext ==
  TypeOK /\ Shapes /\ HandlerInv /\ KVInv /\ SeqInv /\ ClockInv /\ [Next]_vars => ClockInv'
<1> SUFFICES ASSUME TypeOK, Shapes, HandlerInv, KVInv, SeqInv, ClockInv, [Next]_vars PROVE ClockInv'  OBVIOUS
<1>0. NTxs \in Nat /\ IsExec(exec, NTxs) /\ IsSink(sink)  BY DEF Shapes
<1>1. CASE pc' \in {"idle", "closed"}  BY <1>1 DEF ClockInv
<1>2. CASE UNCHANGED vars
  BY <1>2, ZenonT(60) DEF vars, ClockInv, TxIdx, NTxs, AnteOK, Called, BlockHeight, Attributing, Failed
<1>3. ASSUME NEW b \in Blocks, BeginBlock(b) PROVE ClockInv'
  <2>1. pc' = "oracle" /\ NTxs' = Len(b.txs) /\ exec' = NewExec(Len(b.txs))  BY <1>3 DEF BeginBlock, NTxs
  <2>2. \A i \in TxIdx' : exec'.status[i] = "ready"  BY <2>1 DEF NewExec, TxIdx
  <2>3. QED  BY <2>1, <2>2 DEF ClockInv
<1>4. ASSUME NEW i \in TxIdx, StartTx(i) \/ FinishTx(i) \/ AbortTx(i) PROVE ClockInv'
  <2>1. UNCHANGED <<pc, block, seqs, gen, results>> /\ pc \in Apps /\ i \in TxIndices(NTxs)
    BY <1>4 DEF StartTx, FinishTx, AbortTx, TxIdx, storeVars
  <2>2. TxIdx' = TxIdx  BY <2>1 DEF NTxs, TxIdx
  <2>3. \A j \in TxIdx : Called(j) => Called(j)'  BY <1>4, <2>1, WorkerSink, StaysCalled
  <2>4. CASE pc = "probe"
    BY <2>1, <2>2, <2>3, <2>4 DEF ClockInv, Failed
  <2>5. CASE pc = "oracle"
    <3>1. ASSUME NEW j \in TxIdx
          PROVE  /\ exec.status[j] = "done" /\ AnteOK(j) /\ block.txs[j + 1].msg = "clock" => Called(j)
                 /\ Attributing /\ exec.status[j] = "running" => sink.txIndex = j
      BY <2>5 DEF ClockInv
    <3>2. ASSUME NEW j \in TxIdx
          PROVE  /\ exec'.status[j] = "done" /\ AnteOK(j)' /\ block.txs[j + 1].msg = "clock" => Called(j)'
                 /\ Attributing /\ exec'.status[j] = "running" => sink'.txIndex = j
      <4>1. CASE StartTx(i)
        <5>1. /\ exec'.status[i] = "running"
              /\ \A k \in TxIndices(NTxs) \ {i} : /\ exec'.status[k] = exec.status[k]
                                                 /\ exec'.reads[k] = exec.reads[k]
                                                 /\ exec'.memRead[k] = exec.memRead[k]
          BY <1>0, <2>1, <4>1, WorkerExec, StartedExec
        <5>2. CASE j = i
          <6>1. Attributing => sink' = SinkSetCurrentTx(sink, i)  BY <2>5, <4>1 DEF StartTx, Attributing
          <6>2. SinkSetCurrentTx(sink, i).txIndex = i  BY <1>0, SinkRecords
          <6>3. QED  BY <5>1, <5>2, <6>1, <6>2
        <5>3. CASE j # i
          <6>1. exec'.status[j] = exec.status[j] /\ exec'.reads[j] = exec.reads[j] /\ exec'.memRead[j] = exec.memRead[j]
            BY <5>1, <5>3 DEF TxIdx
          <6>2. AnteOK(j)' = AnteOK(j)  BY <2>1, <6>1, HandlersKept
          <6>3. Attributing => exec.status[j] # "running"  BY <2>5, <4>1, OneAtATime
          <6>4. QED  BY <2>3, <3>1, <6>1, <6>2, <6>3
        <5>4. QED  BY <5>2, <5>3
      <4>2. CASE FinishTx(i)
        <5>1. /\ exec'.status[i] = "done" /\ exec'.reads = exec.reads /\ exec'.memRead = exec.memRead
              /\ \A k \in TxIndices(NTxs) \ {i} : exec'.status[k] = exec.status[k]
          BY <1>0, <2>1, <4>2, WorkerExec, FinishedExec
        <5>2. AnteOK(j)' = AnteOK(j)  BY <2>1, <5>1, HandlersKept
        <5> DEFINE src == <<gen, BlockHeight, "oracle", i>>
        <5>3. sink' = IF AnteOK(i) /\ block.txs[i + 1].msg = "clock" THEN Record(sink, src) ELSE sink
          BY <2>5, <4>2 DEF FinishTx
        <5>4. sink'.txIndex = sink.txIndex
          <6> HIDE DEF src
          <6> QED  BY <1>0, <5>3, SinkRecords
        <5>5. CASE j = i
          <6>1. exec.status[i] = "running"  BY <4>2 DEF FinishTx
          <6>2. ASSUME AnteOK(i), block.txs[i + 1].msg = "clock" PROVE Called(i)'
            <7> DEFINE c == [txIndex |-> sink.txIndex, src |-> src]
            <7>1. Occurs(c, sink'.calls)
              <8> HIDE DEF src
              <8> QED  BY <1>0, <5>3, <6>2, SinkRecords
            <7>2. c.src = <<gen', BlockHeight', "oracle", i>>  BY <2>1 DEF BlockHeight
            <7>3. Attributing => c.txIndex = i  BY <3>1, <6>1
            <7>4. Attributing' = Attributing  BY DEF Attributing
            <7> HIDE DEF c
            <7>5. \E d : /\ Occurs(d, sink'.calls) /\ d.src = <<gen', BlockHeight', "oracle", i>>
                         /\ Attributing => d.txIndex = i
              BY <7>1, <7>2, <7>3
            <7>6. QED  BY <7>4, <7>5 DEF Called
          <6>3. QED  BY <5>1, <5>2, <5>5, <6>2
        <5>6. CASE j # i
          <6>1. exec'.status[j] = exec.status[j]  BY <5>1, <5>6 DEF TxIdx
          <6>2. QED  BY <2>3, <3>1, <5>2, <5>4, <6>1
        <5>7. QED  BY <5>5, <5>6
      <4>3. CASE AbortTx(i)
        <5>1. /\ exec'.status[i] = "ready" /\ exec'.reads = exec.reads /\ exec'.memRead = exec.memRead
              /\ \A k \in TxIndices(NTxs) \ {i} : exec'.status[k] = exec.status[k]
          BY <1>0, <2>1, <4>3, WorkerExec, AbortedExec
        <5>2. AnteOK(j)' = AnteOK(j)  BY <2>1, <5>1, HandlersKept
        <5>3. sink' = sink  BY <4>3 DEF AbortTx
        <5>4. QED  BY <2>3, <3>1, <5>1, <5>2, <5>3 DEF TxIdx
      <4>4. QED  BY <1>4, <4>1, <4>2, <4>3
    <3>3. Attributing' = Attributing  BY DEF Attributing
    <3>4. QED  BY <2>1, <2>2, <2>5, <3>2, <3>3 DEF ClockInv
  <2>6. QED  BY <2>1, <2>4, <2>5 DEF Apps
<1>5. CASE OracleDone
  <2>1. /\ UNCHANGED <<block, gen, results>> /\ pc = "oracle" /\ pc' = "probe" /\ AllValid
        /\ sink' = SinkSetCurrentTx(sink, LastTx(sink.txIndex))
    BY <1>5 DEF OracleDone
  <2>2. TxIdx' = TxIdx  BY <2>1 DEF NTxs, TxIdx
  <2>3. sink'.calls = sink.calls  BY <1>0, <2>1, SinkRecords
  <2>4. \A j \in TxIdx : Called(j) => Called(j)'  BY <2>1, <2>3, StaysCalled
  <2>5. ASSUME ~Failed, NEW j \in TxIdx, block.txs[j + 1].msg = "clock" PROVE Called(j)
    <3>1. Code(j) # 32 /\ exec.status[j] = "done"  BY <2>1, <2>5, ResponseSequences DEF Apps, AllValid
    <3>2. AnteOK(j)  BY <3>1 DEF Code, HandlerCode, AnteOK
    <3>3. QED  BY <2>1, <2>5, <3>1, <3>2 DEF ClockInv
  <2>6. Failed' = Failed  BY <2>1 DEF Failed
  <2>7. QED  BY <2>1, <2>2, <2>4, <2>5, <2>6 DEF ClockInv
<1>6. ASSUME NEW failing \in Apps \cup {"none"}, ProbeDone(failing) PROVE ClockInv'
  BY <1>1, <1>6 DEF ProbeDone, CleanUp
<1>7. QED  BY <1>1, <1>2, <1>3, <1>4, <1>5, <1>6, QuietSteps DEF Next

\* A keeper of the oracle that changed over a block with transactions is in a finding.
LEMMA ChangeIsFound ==
  ASSUME Shapes, BlockMutationInv, pc = "probe", 0 \in TxIdx, NEW t \in DOMAIN preSnaps,
         preSnaps[t] # Snapshots(mem["oracle"])[t]
  PROVE  \E x : Occurs(x, BlockFindings) /\ x.dim = "out_of_kvstore" /\ x.item.tracker = t
<1>1. PICK y : Occurs(y, obs["oracle"].mutSets[0]) /\ y.tracker = t  BY DEF BlockMutationInv
<1> DEFINE n == NTxs  o == obs["oracle"]  h == BlockHeight
           x == NewFinding(h, "out_of_kvstore", 0, 0, y)
<1>2. n \in Nat /\ n <= n /\ IsObs(o, n) /\ \A i \in TxIndices(n) : ASequence(o.mutSets[i])
  BY DEF Shapes, Apps, TxIdx
<1>3. 0 \in TxIndices(n)  BY DEF TxIdx
<1>4. Occurs(y, o.mutSets[0])  BY <1>1
<1>5. x.dim = "out_of_kvstore" /\ x.item = y  BY DEF NewFinding
<1> HIDE DEF n, o, h
<1>6. Occurs(x, MutationFindings(h, n, n, o))  BY <1>2, <1>3, <1>4, MutationFindingsExact
<1> HIDE DEF x
<1>7. Occurs(x, MutationFindings(BlockHeight, NTxs, NTxs, obs["oracle"]))  BY <1>6 DEF n, o, h
<1>8. Occurs(x, BlockFindings)  BY <1>7, BlockFindingsExact DEF BlockFound
<1>9. QED  BY <1>1, <1>5, <1>8

\* A clock call of the oracle is in a finding.
LEMMA CallIsFound ==
  ASSUME Shapes, ClockInv, pc = "probe", ~Failed, NEW i \in TxIdx, block.txs[i + 1].msg = "clock"
  PROVE  \E x : /\ Occurs(x, BlockFindings) /\ x.dim = "non_deterministic"
                /\ x.item.src = <<gen, BlockHeight, "oracle", i>>
                /\ Attributing => x.tx = i
<1>1. PICK c : /\ Occurs(c, sink.calls) /\ c.src = <<gen, BlockHeight, "oracle", i>>
               /\ Attributing => c.txIndex = i
  BY DEF ClockInv, Called
<1> DEFINE x == NewFinding(BlockHeight, "non_deterministic", c.txIndex, 0, c)
<1>2. x.dim = "non_deterministic" /\ x.item = c /\ x.tx = c.txIndex  BY DEF NewFinding
<1>3. Occurs(x, NonDetFindings(BlockHeight, sink.calls))  BY <1>1 DEF Occurs, NonDetFindings
<1> HIDE DEF x
<1>4. Occurs(x, BlockFindings)  BY <1>3, BlockFindingsExact DEF BlockFound
<1>5. QED  BY <1>1, <1>2, <1>4

\* What the oracle does outside the store is reported: every keeper that changed over a block
\* with a transaction, and every call of the clock, under any schedule of either app.
THEOREM OutOfKVIsReported == Spec => []OutOfKVReported
<1> DEFINE Inv == /\ StoreInv /\ Shapes /\ HandlerInv /\ KVInv /\ SeqInv /\ TrackerInv /\ SnapInv
                  /\ BlockMutationInv /\ ClockInv
<1>1. Init => TrackerInv /\ SnapInv /\ BlockMutationInv /\ ClockInv /\ OutOfKVReported
  BY DEF Init, TrackerInv, SnapInv, BlockMutationInv, ClockInv, OutOfKVReported, HasResult, NoResult, Apps
<1>2. Inv /\ OutOfKVReported /\ [Next]_vars => OutOfKVReported'
  <2> SUFFICES ASSUME Inv, OutOfKVReported, [Next]_vars PROVE OutOfKVReported'  OBVIOUS
  <2>1. CASE last' = last
    BY <2>1 DEF OutOfKVReported, HasResult, ChangedTrackers, ReportedTrackers, ClockCalls, CallReported
  <2>2. CASE last' = NoResult  BY <2>2 DEF OutOfKVReported, HasResult, NoResult
  <2>3. CASE last' = BlockResult /\ pc = "probe" /\ HeightOK
    <3>1. /\ last'.findings = BlockFindings /\ last'.block = block /\ last'.memBefore = preSnaps
          /\ last'.memAfter = Snapshots(mem["oracle"]) /\ last'.id[1] = gen /\ last'.id[2] = BlockHeight
      BY <2>3 DEF BlockResult
    <3>2. NTxs \in Nat /\ DOMAIN block.txs = 1 .. NTxs  BY DEF Shapes, KVInv, NTxs
    <3>3. ASSUME last'.block.txs # <<>> PROVE ChangedTrackers' \subseteq ReportedTrackers'
      <4>1. 0 \in TxIdx
        <5>1. block.txs # <<>> /\ block.txs \in Seq(TxSpecs)  BY <3>1, <3>3 DEF KVInv
        <5>2. NTxs # 0  BY <5>1 DEF NTxs
        <5>3. QED  BY <3>2, <5>2 DEF TxIdx, TxIndices
      <4>2. ASSUME NEW t \in DOMAIN preSnaps, preSnaps[t] # Snapshots(mem["oracle"])[t]
            PROVE  \E m \in DOMAIN BlockFindings : /\ BlockFindings[m].dim = "out_of_kvstore"
                                                  /\ BlockFindings[m].item.tracker = t
        BY <2>3, <4>1, <4>2, ChangeIsFound DEF Occurs
      <4>3. QED  BY <3>1, <4>2 DEF ChangedTrackers, ReportedTrackers
    <3>4. ASSUME NEW n \in ClockCalls' PROVE CallReported(n)'
      <4>1. n \in 1 .. NTxs /\ block.txs[n].msg = "clock"  BY <3>1, <3>2, <3>4 DEF ClockCalls
      <4>2. n - 1 \in TxIdx /\ (n - 1) + 1 = n  BY <3>2, <4>1 DEF TxIdx, TxIndices
      <4>3. ~Failed  BY <2>3, VerdictMeansNoFailure
      <4>4. PICK x : /\ Occurs(x, BlockFindings) /\ x.dim = "non_deterministic"
                     /\ x.item.src = <<gen, BlockHeight, "oracle", n - 1>>
                     /\ Attributing => x.tx = n - 1
        BY <2>3, <4>1, <4>2, <4>3, CallIsFound
      <4>5. PICK m \in DOMAIN BlockFindings : x = BlockFindings[m]  BY <4>4 DEF Occurs
      <4>6. QED  BY <3>1, <4>4, <4>5 DEF CallReported, Attributing
    <3>5. QED  BY <3>3, <3>4 DEF OutOfKVReported
  <2>4. QED  BY <2>1, <2>2, <2>3, LastSteps
<1>3. StoreInv => TypeOK  BY DEF StoreInv
<1>4. QED
  BY <1>1, <1>2, <1>3, SeqBase, TrackerNext, SnapInvNext, BlockMutationNext, ClockNext, PTL DEF Spec

-------------------------------------------------------------------------------
(***************************************************************************)
(* The block context.  A sequential oracle never aborts: a transaction       *)
(* starts when all those before it are done, and they stay as they are.  So  *)
(* every accepted transaction reaches the tracker once, in order, and under  *)
(* its own index.                                                            *)
(***************************************************************************)

\* The transactions among D that write the field, and those that read it before w and after
\* the last write before w.
CtxWriters(D) == {i \in D : block.txs[i + 1].msg = "ctx-write"}
CtxReaders(D, w) ==
  {r \in D : block.txs[r + 1].msg = "ctx-read" /\ r < w /\ \A v \in CtxWriters(D) : v < w => v < r}

\* The tracker knows the field.
HasField(t) ==
  /\ "height" \in DOMAIN t.fields
  /\ t.fields = [f \in DOMAIN t.fields |-> t.fields[f]]
  /\ t.fields["height"] = [value |-> t.fields["height"].value, readers |-> t.fields["height"].readers]
  /\ ASequence(t.fields["height"].readers)

\* Exactly one of the mutations ms is by w.
WrittenOnce(ms, w) ==
  \E k \in DOMAIN ms : ms[k].writerTx = w /\ \A m \in DOMAIN ms : ms[m].writerTx = w => m = k

\* The mutations of tracker t are the writes of D, one for each, with the readers since the
\* write before.
Attributed(t, D) ==
  /\ \A k \in DOMAIN t.mutations : /\ t.mutations[k].writerTx \in CtxWriters(D)
                                   /\ ToSet(t.mutations[k].readerTxs) = CtxReaders(D, t.mutations[k].writerTx)
  /\ \A w \in CtxWriters(D) : WrittenOnce(t.mutations, w)

\* The transactions of the run in progress whose handler has run.
Accepted == {i \in TxIdx : exec.status[i] = "done" /\ AnteOK(i)}

CtxInv ==
  Attributing =>
    /\ pc = "oracle" =>
         /\ HasField(bct)
         /\ \A i \in TxIdx : /\ exec.status[i] # "ready" => Stale(i) = {} /\ \A j \in 0 .. i - 1 : exec.status[j] = "done"
                             /\ exec.status[i] = "running" => bct.currentTx = i
         /\ Attributed(bct, Accepted)
         /\ ToSet(bct.fields["height"].readers) = CtxReaders(Accepted, NTxs)
    /\ pc = "probe" /\ ~Failed => Attributed(bct, TxIdx)

\* SetCurrentTx changes nothing else.
LEMMA CtxSetCurrent ==
  ASSUME NEW t, IsCtx(t), NEW i
  PROVE  /\ SetCurrentTx(t, i).fields = t.fields /\ SetCurrentTx(t, i).mutations = t.mutations
         /\ SetCurrentTx(t, i).currentTx = i
BY DEF IsCtx, SetCurrentTx

\* A read inside a transaction notes its reader.
LEMMA CtxRead ==
  ASSUME NEW t, IsCtx(t), HasField(t), NEW i \in Nat, t.currentTx = i, NEW u, u = ReadField(t, "height")
  PROVE  /\ HasField(u) /\ u.mutations = t.mutations /\ u.currentTx = t.currentTx
         /\ ToSet(u.fields["height"].readers) = ToSet(t.fields["height"].readers) \cup {i}
<1> DEFINE rs == t.fields["height"].readers
<1>1. ASequence(rs) /\ "height" \in DOMAIN t.fields  BY DEF HasField
<1>2. DOMAIN rs = 1 .. Len(rs) /\ Len(rs) \in Nat  BY <1>1, AppendedElements
<1>3. CASE rs = <<>> \/ rs[Len(rs)] # i
  <2>1. u = [t EXCEPT !.fields["height"].readers = Append(@, i)]
    BY <1>1, <1>3 DEF ReadField
  <2>2. u.mutations = t.mutations /\ u.currentTx = t.currentTx /\ DOMAIN u.fields = DOMAIN t.fields
    BY <2>1 DEF IsCtx
  <2>3. u.fields["height"] = [t.fields["height"] EXCEPT !.readers = Append(@, i)]
    BY <2>1, <1>1 DEF IsCtx
  <2>4. u.fields["height"].readers = Append(rs, i)  BY <2>3 DEF HasField
  <2>5. u.fields["height"] = [value |-> u.fields["height"].value, readers |-> u.fields["height"].readers]
    BY <2>3 DEF HasField
  <2>6. u.fields = [f \in DOMAIN u.fields |-> u.fields[f]]
    BY <2>1 DEF IsCtx
  <2> HIDE DEF rs
  <2>7. ASequence(Append(rs, i)) /\ ToSet(Append(rs, i)) = ToSet(rs) \cup {i}
    BY <1>1, AppendedElements
  <2>8. HasField(u)  BY <1>1, <2>2, <2>4, <2>5, <2>6, <2>7 DEF HasField
  <2>9. QED  BY <2>2, <2>4, <2>7, <2>8 DEF rs
<1>4. CASE rs # <<>> /\ rs[Len(rs)] = i
  <2>1. u = t  BY <1>4 DEF ReadField
  <2>2. Len(rs) # 0
    <3> HIDE DEF rs
    <3>1. rs \in Seq(Range(rs))  BY <1>1 DEF ASequence
    <3>2. QED  BY <3>1, <1>4
  <2>3. Len(rs) \in DOMAIN rs  BY <1>2, <2>2
  <2>4. i \in ToSet(rs)
    <3> HIDE DEF rs
    <3> QED BY <2>3, <1>4 DEF ToSet
  <2>5. QED  BY <2>1, <2>4
<1>5. QED  BY <1>3, <1>4

\* A write records its transaction with the readers, and forgets them.
LEMMA CtxWrite ==
  ASSUME NEW t, IsCtx(t), HasField(t), NEW v, NEW u, u = WriteField(t, "height", v)
  PROVE  /\ HasField(u) /\ u.currentTx = t.currentTx
         /\ ToSet(u.fields["height"].readers) = {}
         /\ \E r : /\ u.mutations = Append(t.mutations, r) /\ r.writerTx = t.currentTx
                   /\ r.readerTxs = t.fields["height"].readers
<1> DEFINE old == t.fields["height"]
           r == [field |-> "height", before |-> old.value, after |-> v, writerTx |-> t.currentTx,
                 readerTxs |-> old.readers]
<1>1. "height" \in DOMAIN t.fields  BY DEF HasField
<1>2. u.mutations = Append(t.mutations, r) /\ u.currentTx = t.currentTx
  BY <1>1 DEF WriteField, IsCtx
<1>3. u.fields = [f \in DOMAIN t.fields \cup {"height"} |->
                    IF f = "height" THEN [value |-> v, readers |-> <<>>] ELSE t.fields[f]]
  BY <1>1 DEF WriteField, IsCtx
<1>4. ASequence(<<>>) /\ ToSet(<<>>) = {}  BY ASequenceOne DEF ToSet
<1>5. HasField(u) /\ u.fields["height"].readers = <<>>
  BY <1>3, <1>4 DEF HasField
<1>6. QED  BY <1>2, <1>4, <1>5

\* One more accepted transaction: what it reads and writes, and what the earlier ones did.
LEMMA OneMoreTx ==
  ASSUME NTxs \in Nat, NEW D, D \subseteq TxIdx, NEW i \in TxIdx, \A j \in D : j < i
  PROVE  /\ \A w \in CtxWriters(D) : CtxReaders(D \cup {i}, w) = CtxReaders(D, w)
         /\ block.txs[i + 1].msg = "ctx-write" =>
              /\ CtxWriters(D \cup {i}) = CtxWriters(D) \cup {i} /\ CtxReaders(D \cup {i}, NTxs) = {}
              /\ CtxReaders(D \cup {i}, i) = CtxReaders(D, NTxs)
         /\ block.txs[i + 1].msg # "ctx-write" => CtxWriters(D \cup {i}) = CtxWriters(D)
         /\ block.txs[i + 1].msg = "ctx-read" => CtxReaders(D \cup {i}, NTxs) = CtxReaders(D, NTxs) \cup {i}
         /\ block.txs[i + 1].msg \notin {"ctx-read", "ctx-write"} =>
              CtxReaders(D \cup {i}, NTxs) = CtxReaders(D, NTxs)
<1>1. i \in Nat /\ i < NTxs /\ \A j \in D : j \in Nat /\ j < i /\ j < NTxs /\ ~(i < j)
  BY DEF TxIdx, TxIndices
<1>2. CtxWriters(D) \subseteq D  BY DEF CtxWriters
<1>3. /\ block.txs[i + 1].msg = "ctx-write" => CtxWriters(D \cup {i}) = CtxWriters(D) \cup {i}
      /\ block.txs[i + 1].msg # "ctx-write" => CtxWriters(D \cup {i}) = CtxWriters(D)
  BY DEF CtxWriters
<1>4. ASSUME NEW w \in CtxWriters(D) PROVE CtxReaders(D \cup {i}, w) = CtxReaders(D, w)
  <2>1. w < i /\ w \in Nat  BY <1>1, <1>2
  <2>2. ~(i < w)  BY <1>1, <2>1
  <2>3. QED  BY <1>3, <2>2 DEF CtxReaders
<1>5. ASSUME block.txs[i + 1].msg = "ctx-write"
      PROVE  CtxReaders(D \cup {i}, NTxs) = {} /\ CtxReaders(D \cup {i}, i) = CtxReaders(D, NTxs)
  <2>1. CtxWriters(D \cup {i}) = CtxWriters(D) \cup {i} /\ "ctx-write" # "ctx-read"  BY <1>3, <1>5
  <2>2. ~(i < i)  BY <1>1
  <2>3. CtxReaders(D \cup {i}, NTxs) = {}  BY <1>1, <2>1, <2>2 DEF CtxReaders
  <2>4. \A v \in CtxWriters(D) : v < i /\ v < NTxs  BY <1>1, <1>2
  <2>5. CtxReaders(D \cup {i}, i) = CtxReaders(D, NTxs)
    BY <1>1, <1>5, <2>1, <2>2, <2>4 DEF CtxReaders
  <2>6. QED  BY <2>3, <2>5
<1>6. ASSUME block.txs[i + 1].msg = "ctx-read"
      PROVE  CtxReaders(D \cup {i}, NTxs) = CtxReaders(D, NTxs) \cup {i}
  <2>1. CtxWriters(D \cup {i}) = CtxWriters(D)  BY <1>3, <1>6
  <2>2. \A v \in CtxWriters(D) : v < i  BY <1>1, <1>2
  <2>3. QED  BY <1>1, <1>6, <2>1, <2>2 DEF CtxReaders
<1>7. ASSUME block.txs[i + 1].msg \notin {"ctx-read", "ctx-write"}
      PROVE  CtxReaders(D \cup {i}, NTxs) = CtxReaders(D, NTxs)
  <2>1. CtxWriters(D \cup {i}) = CtxWriters(D)  BY <1>3, <1>7
  <2>2. QED  BY <1>7, <2>1 DEF CtxReaders
<1>8. QED  BY <1>3, <1>4, <1>5, <1>6, <1>7

\* It is a matter of the mutations, the writers and the readers.
LEMMA AttributedKept ==
  ASSUME NEW t, NEW u, NEW D, NEW E, Attributed(t, D), u.mutations = t.mutations,
         CtxWriters(E) = CtxWriters(D), \A w \in CtxWriters(D) : CtxReaders(E, w) = CtxReaders(D, w)
  PROVE  Attributed(u, E)
BY DEF Attributed

\* The tracker after the handler of an accepted transaction that is announced to it.
LEMMA HandlerAttributed ==
  ASSUME NTxs \in Nat, NEW D, D \subseteq TxIdx, NEW i \in TxIdx, \A j \in D : j < i,
         IsCtx(bct), HasField(bct), bct.currentTx = i, Attributed(bct, D),
         ToSet(bct.fields["height"].readers) = CtxReaders(D, NTxs),
         NEW u, u = BlockContextHandlers(block.txs[i + 1])
  PROVE  /\ HasField(u) /\ u.currentTx = i /\ Attributed(u, D \cup {i})
         /\ ToSet(u.fields["height"].readers) = CtxReaders(D \cup {i}, NTxs)
<1> DEFINE t == block.txs[i + 1]
<1>0. i \in Nat /\ \A j \in D : j # i  BY DEF TxIdx, TxIndices
<1>9. /\ \A w \in CtxWriters(D) : CtxReaders(D \cup {i}, w) = CtxReaders(D, w)
      /\ t.msg = "ctx-write" =>
           /\ CtxWriters(D \cup {i}) = CtxWriters(D) \cup {i} /\ CtxReaders(D \cup {i}, NTxs) = {}
           /\ CtxReaders(D \cup {i}, i) = CtxReaders(D, NTxs)
      /\ t.msg # "ctx-write" => CtxWriters(D \cup {i}) = CtxWriters(D)
      /\ t.msg = "ctx-read" => CtxReaders(D \cup {i}, NTxs) = CtxReaders(D, NTxs) \cup {i}
      /\ t.msg \notin {"ctx-read", "ctx-write"} => CtxReaders(D \cup {i}, NTxs) = CtxReaders(D, NTxs)
  BY OneMoreTx, Zenon
<1>1. CASE t.msg = "ctx-write"
  <2>1. u = WriteField(bct, "height", t.arg)  BY <1>1 DEF BlockContextHandlers
  <2>2. HasField(u) /\ u.currentTx = i /\ ToSet(u.fields["height"].readers) = {}
    <3> DEFINE v == t.arg
    <3>1. u = WriteField(bct, "height", v)  BY <2>1
    <3> HIDE DEF v
    <3>2. HasField(u)  BY <3>1, CtxWrite
    <3>3. u.currentTx = i  BY <3>1, CtxWrite
    <3>4. ToSet(u.fields["height"].readers) = {}  BY <3>1, CtxWrite
    <3>5. QED  BY <3>2, <3>3, <3>4
  <2>3. PICK r : /\ u.mutations = Append(bct.mutations, r) /\ r.writerTx = i
                 /\ r.readerTxs = bct.fields["height"].readers
    BY <2>1, CtxWrite
  <2> DEFINE ms == bct.mutations  n == Len(ms) + 1
  <2>4. ASequence(ms)  BY DEF IsCtx
  <2>5. /\ DOMAIN ms = 1 .. Len(ms) /\ Len(ms) \in Nat /\ DOMAIN u.mutations = 1 .. n
        /\ u.mutations[n] = r /\ \A k \in 1 .. Len(ms) : u.mutations[k] = ms[k]
    BY <2>3, <2>4, AppendedElements
  <2>6. /\ \A w \in CtxWriters(D) : CtxReaders(D \cup {i}, w) = CtxReaders(D, w)
        /\ CtxWriters(D \cup {i}) = CtxWriters(D) \cup {i} /\ CtxReaders(D \cup {i}, NTxs) = {}
        /\ CtxReaders(D \cup {i}, i) = CtxReaders(D, NTxs)
    BY <1>1, <1>9
  <2>7. /\ \A k \in 1 .. Len(ms) : /\ ms[k].writerTx \in CtxWriters(D)
                                   /\ ToSet(ms[k].readerTxs) = CtxReaders(D, ms[k].writerTx)
        /\ \A w \in CtxWriters(D) : WrittenOnce(ms, w)
    BY <2>5 DEF Attributed
  <2>8. ToSet(r.readerTxs) = CtxReaders(D, NTxs)  BY <2>3
  <2>9. i \notin CtxWriters(D)  BY <1>0 DEF CtxWriters
  <2> HIDE DEF ms
  <2>10. ASSUME NEW k \in 1 .. n
         PROVE  /\ u.mutations[k].writerTx \in CtxWriters(D \cup {i})
                /\ ToSet(u.mutations[k].readerTxs) = CtxReaders(D \cup {i}, u.mutations[k].writerTx)
    <3>1. CASE k = n  BY <2>3, <2>5, <2>6, <2>8, <3>1
    <3>2. CASE k # n
      <4>1. k \in 1 .. Len(ms)  BY <2>5, <3>2
      <4>2. QED  BY <2>5, <2>6, <2>7, <4>1
    <3>3. QED  BY <3>1, <3>2
  <2>11. ASSUME NEW w \in CtxWriters(D \cup {i})
         PROVE  WrittenOnce(u.mutations, w)
    <3>0. n \in 1 .. n /\ \A m \in 1 .. n : m = n \/ m \in 1 .. Len(ms)  BY <2>5
    <3>1. CASE w = i
      <4>1. \A m \in 1 .. n : u.mutations[m].writerTx = w => m = n
        BY <2>3, <2>5, <2>7, <2>9, <3>0, <3>1
      <4>2. QED  BY <2>3, <2>5, <3>0, <3>1, <4>1 DEF WrittenOnce
    <3>2. CASE w \in CtxWriters(D)
      <4>1. PICK k \in 1 .. Len(ms) : ms[k].writerTx = w /\ \A m \in 1 .. Len(ms) : ms[m].writerTx = w => m = k
        BY <2>5, <2>7, <3>2 DEF WrittenOnce
      <4>2. k \in 1 .. n /\ k # n  BY <2>5
      <4>3. u.mutations[k].writerTx = w /\ \A m \in 1 .. n : u.mutations[m].writerTx = w => m = k
        BY <2>3, <2>5, <2>9, <3>0, <3>2, <4>1, <4>2
      <4>4. DOMAIN u.mutations = 1 .. n  BY <2>5
      <4> HIDE DEF n
      <4>5. QED  BY <4>2, <4>3, <4>4 DEF WrittenOnce
    <3>3. QED  BY <2>6, <3>1, <3>2
  <2>12. Attributed(u, D \cup {i})
    <3>1. DOMAIN u.mutations = 1 .. n  BY <2>5
    <3>2. QED  BY <2>10, <2>11, <3>1 DEF Attributed
  <2>13. QED  BY <2>2, <2>6, <2>12
<1>2. CASE t.msg # "ctx-write"
  <2>1. /\ \A w \in CtxWriters(D) : CtxReaders(D \cup {i}, w) = CtxReaders(D, w)
        /\ CtxWriters(D \cup {i}) = CtxWriters(D)
    BY <1>2, <1>9
  <2>2. ASSUME u.mutations = bct.mutations PROVE Attributed(u, D \cup {i})
    BY <2>1, <2>2, AttributedKept
  <2>3. CASE t.msg = "ctx-read"
    <3>1. u = ReadField(bct, "height")  BY <2>3 DEF BlockContextHandlers
    <3>2. /\ HasField(u) /\ u.mutations = bct.mutations /\ u.currentTx = i
          /\ ToSet(u.fields["height"].readers) = ToSet(bct.fields["height"].readers) \cup {i}
      BY <1>0, <3>1, CtxRead
    <3>3. CtxReaders(D \cup {i}, NTxs) = CtxReaders(D, NTxs) \cup {i}  BY <2>3, <1>9
    <3>4. QED  BY <2>2, <3>2, <3>3
  <2>4. CASE t.msg # "ctx-read"
    <3>1. u = bct  BY <1>2, <2>4 DEF BlockContextHandlers
    <3>2. CtxReaders(D \cup {i}, NTxs) = CtxReaders(D, NTxs)  BY <1>2, <2>4, <1>9
    <3>3. QED  BY <2>2, <3>1, <3>2
  <2>5. QED  BY <2>3, <2>4
<1>3. QED  BY <1>1, <1>2

\* A read is what it was as long as the transactions below are.
LEMMA VisibleKept ==
  ASSUME NEW i \in Nat, UNCHANGED <<kv, pc>>,
         \A j \in 0 .. i - 1 : /\ exec'.status[j] = "done" <=> exec.status[j] = "done"
                               /\ exec'.writes[j] = exec.writes[j]
  PROVE  \A k : Visible(i, k)' = Visible(i, k)
<1>1. ASSUME NEW k PROVE Writers(i, k)' = Writers(i, k)
  BY DEF Writers
<1>2. ASSUME NEW k PROVE Visible(i, k)' = Visible(i, k)
  <2>1. CASE Writers(i, k) = {}  BY <1>1, <2>1 DEF Visible
  <2>2. CASE Writers(i, k) # {}
    <3>0. Writers(i, k) \subseteq 0 .. i - 1  BY DEF Writers
    <3> DEFINE j == Max(Writers(i, k))
    <3>1. j \in 0 .. i - 1
      <4>1. Writers(i, k) \subseteq Int /\ IsFiniteSet(Writers(i, k))  BY WritersFinite
      <4>2. j \in Writers(i, k)  BY <2>2, <4>1, MaxOfFinite
      <4>3. QED  BY <3>0, <4>2
    <3>2. Max(Writers(i, k)') = j  BY <1>1
    <3>3. Visible(i, k) = [from |-> j, val |-> exec.writes[j][k]]  BY <2>2 DEF Visible
    <3>4. Visible(i, k)' = [from |-> j, val |-> exec'.writes[j][k]]  BY <1>1, <2>2, <3>2 DEF Visible
    <3> HIDE DEF j
    <3>5. QED  BY <3>1, <3>3, <3>4
  <2>3. QED BY <2>1, <2>2
<1>3. QED  BY <1>2

\* The tracker follows the accepted transactions of a sequential oracle, and is left alone
\* by the probe.
LEMMA CtxNext ==
  TypeOK /\ Shapes /\ HandlerInv /\ KVInv /\ SeqInv /\ CtxInv /\ [Next]_vars => CtxInv'
<1> SUFFICES ASSUME TypeOK, Shapes, HandlerInv, KVInv, SeqInv, CtxInv, Attributing, [Next]_vars PROVE CtxInv'
  BY DEF CtxInv, Attributing
<1>0. NTxs \in Nat /\ IsExec(exec, NTxs) /\ IsCtx(bct)  BY DEF Shapes
<1>1. CASE pc' \in {"idle", "closed"}  BY <1>1 DEF CtxInv
<1>2. CASE UNCHANGED vars
  <2>1. UNCHANGED <<pc, block, seqs, exec, bct, kv, results>>  BY <1>2 DEF vars
  <2>2. TxIdx' = TxIdx /\ NTxs' = NTxs /\ Failed' = Failed  BY <2>1 DEF TxIdx, NTxs, Failed
  <2>3. \A j : AnteOK(j)' = AnteOK(j) /\ Stale(j)' = Stale(j)  BY <2>1 DEF AnteOK, Stale, Visible, Writers
  <2>4. Accepted' = Accepted  BY <2>1, <2>2, <2>3 DEF Accepted
  <2>5. \A D, w : CtxWriters(D)' = CtxWriters(D) /\ CtxReaders(D, w)' = CtxReaders(D, w)
    BY <2>1 DEF CtxWriters, CtxReaders
  <2>6. \A D : Attributed(bct, D)' = Attributed(bct, D)  BY <2>1, <2>5 DEF Attributed
  <2>7. HasField(bct)' = HasField(bct)  BY <2>1 DEF HasField
  <2>8. QED  BY <2>1, <2>2, <2>3, <2>4, <2>5, <2>6, <2>7 DEF CtxInv
<1>3. ASSUME NEW b \in Blocks, BeginBlock(b) PROVE CtxInv'
  <2>1. /\ pc' = "oracle" /\ NTxs' = Len(b.txs) /\ exec' = NewExec(Len(b.txs))
        /\ bct' = OracleBlockCtxTracker
    BY <1>3 DEF BeginBlock, NTxs
  <2>2. \A i \in TxIdx' : exec'.status[i] = "ready"  BY <2>1 DEF NewExec, TxIdx
  <2>3. Accepted' = {}  BY <2>2 DEF Accepted
  <2>4. /\ HasField(bct') /\ bct'.mutations = <<>> /\ bct'.fields["height"].readers = <<>>
    BY <2>1, ASequenceOne DEF OracleBlockCtxTracker, Reset, HasField
  <2>5. CtxWriters(Accepted)' = {} /\ CtxReaders(Accepted, NTxs)' = {}
    BY <2>3 DEF CtxWriters, CtxReaders
  <2>6. Attributed(bct, Accepted)'  BY <2>4, <2>5 DEF Attributed
  <2>7. ToSet(<<>>) = {}  BY DEF ToSet
  <2>8. QED  BY <2>1, <2>2, <2>4, <2>5, <2>6, <2>7 DEF CtxInv, HasField
<1>4. ASSUME NEW i \in TxIdx, StartTx(i) \/ FinishTx(i) \/ AbortTx(i) PROVE CtxInv'
  <2>1. UNCHANGED <<pc, block, seqs, kv, results>> /\ pc \in Apps /\ i \in TxIndices(NTxs)
    BY <1>4 DEF StartTx, FinishTx, AbortTx, TxIdx, storeVars, appVars
  <2>2. TxIdx' = TxIdx /\ NTxs' = NTxs  BY <2>1 DEF NTxs, TxIdx
  <2>3. \A D, w : CtxWriters(D)' = CtxWriters(D) /\ CtxReaders(D, w)' = CtxReaders(D, w)
    BY <2>1 DEF CtxWriters, CtxReaders
  <2>4. CASE pc = "probe"
    <3>1. bct' = bct  BY <1>4, <2>4 DEF StartTx, FinishTx, AbortTx
    <3>2. QED  BY <2>1, <2>2, <2>3, <2>4, <3>1 DEF CtxInv, Failed, Attributed
  <2>5. CASE pc = "oracle"
    <3> DEFINE ended(e, j) == e.status[j] = "done"
    <3>0. /\ HasField(bct) /\ Attributed(bct, Accepted)
          /\ ToSet(bct.fields["height"].readers) = CtxReaders(Accepted, NTxs)
          /\ \A j \in TxIdx : /\ exec.status[j] # "ready" => Stale(j) = {} /\ \A k \in 0 .. j - 1 : ended(exec, k)
                              /\ exec.status[j] = "running" => bct.currentTx = j
      BY <2>5 DEF CtxInv
    <3>1. \A j \in TxIdx : j \in Nat /\ 0 .. j - 1 \subseteq TxIdx /\ (\A k \in 0 .. j - 1 : k \in Nat /\ k < j)
      BY <1>0 DEF TxIdx, TxIndices
    <3>2. CASE StartTx(i)
      <4>1. /\ exec'.status[i] = "running" /\ exec'.reads[i] = ReadsOf(i) /\ exec'.writes = exec.writes
            /\ \A k \in TxIndices(NTxs) \ {i} : /\ exec'.status[k] = exec.status[k]
                                               /\ exec'.reads[k] = exec.reads[k]
                                               /\ exec'.memRead[k] = exec.memRead[k]
        BY <1>0, <2>1, <3>2, WorkerExec, StartedExec
      <4>2. exec.status[i] = "ready" /\ bct' = SetCurrentTx(bct, i)
            /\ \A j \in 0 .. i - 1 : ended(exec, j)
        <5>1. OracleWorkers \in Nat /\ OracleWorkers <= 1  BY ConstantsAssumption DEF Attributing
        <5>2. Workers = 1  BY <2>5, <5>1 DEF Workers
        <5>3. QED  BY <2>5, <3>2, <5>2 DEF StartTx, Attributing
      <4>3. bct'.fields = bct.fields /\ bct'.mutations = bct.mutations /\ bct'.currentTx = i
        BY <1>0, <4>2, CtxSetCurrent
      <4>4. \A j \in TxIdx : ended(exec', j) <=> ended(exec, j)
        BY <4>1, <4>2 DEF TxIdx
      <4>5. ASSUME NEW j \in TxIdx PROVE \A k : Visible(j, k)' = Visible(j, k)
        BY <2>1, <3>1, <4>1, <4>4, VisibleKept
      <4>6. ASSUME NEW j \in TxIdx, exec'.status[j] # "ready"
            PROVE  Stale(j)' = {} /\ \A k \in 0 .. j - 1 : ended(exec', k)
        <5>1. CASE j = i
          <6>1. Stale(j)' = {}  BY <4>1, <4>5, <5>1 DEF Stale, ReadsOf
          <6>2. QED  BY <3>1, <4>2, <4>4, <5>1, <6>1
        <5>2. CASE j # i
          <6>1. exec'.status[j] = exec.status[j] /\ exec'.reads[j] = exec.reads[j]
            BY <4>1, <5>2 DEF TxIdx
          <6>2. Stale(j)' = Stale(j)  BY <4>5, <6>1 DEF Stale
          <6>3. QED  BY <3>0, <3>1, <4>4, <4>6, <6>1, <6>2
        <5>3. QED  BY <5>1, <5>2
      <4>7. ASSUME NEW j \in TxIdx, exec'.status[j] = "running" PROVE bct'.currentTx = j
        <5>1. j = i
          <6>1. exec.status[j] # "running"  BY <2>5, <3>2, OneAtATime
          <6>2. QED  BY <4>1, <4>7, <6>1 DEF TxIdx
        <5>2. QED  BY <4>3, <5>1
      <4>8. Accepted' = Accepted
        <5>1. ASSUME NEW j \in TxIdx, ended(exec, j) PROVE AnteOK(j)' = AnteOK(j)
          <6>1. j \in TxIndices(NTxs) \ {i}  BY <4>2, <5>1 DEF TxIdx
          <6>2. exec'.reads[j] = exec.reads[j] /\ exec'.memRead[j] = exec.memRead[j]  BY <4>1, <6>1
          <6>3. QED  BY <2>1, <6>2, HandlersKept
        <5>2. QED  BY <2>2, <4>4, <5>1 DEF Accepted
      <4>9. Attributed(bct, Accepted)'
        BY <2>3, <3>0, <4>3, <4>8 DEF Attributed
      <4>10. HasField(bct')  BY <3>0, <4>3 DEF HasField
      <4>11. ToSet(bct'.fields["height"].readers) = CtxReaders(Accepted, NTxs)'
        BY <2>2, <2>3, <3>0, <4>3, <4>8
      <4>12. QED  BY <2>1, <2>2, <2>5, <4>6, <4>7, <4>9, <4>10, <4>11 DEF CtxInv, HasField
    <3>3. CASE FinishTx(i)
      <4>1. /\ exec'.status[i] = "done" /\ exec'.reads = exec.reads /\ exec'.memRead = exec.memRead
            /\ \A k \in TxIndices(NTxs) \ {i} : exec'.status[k] = exec.status[k] /\ exec'.writes[k] = exec.writes[k]
        BY <1>0, <2>1, <3>3, WorkerExec, FinishedExec
      <4>2. /\ exec.status[i] = "running"
            /\ bct' = IF AnteOK(i) THEN BlockContextHandlers(block.txs[i + 1]) ELSE bct
        BY <2>5, <3>3 DEF FinishTx
      <4>3. bct.currentTx = i /\ \A j \in 0 .. i - 1 : ended(exec, j)  BY <3>0, <4>2
      <4>4. ASSUME NEW j \in TxIdx, exec.status[j] # "ready" PROVE j <= i
        <5>1. ASSUME i < j PROVE FALSE
          <6>1. i \in 0 .. j - 1  BY <3>1, <5>1
          <6>2. ended(exec, i)  BY <3>0, <4>4, <6>1
          <6>3. QED  BY <4>2, <6>2
        <5>2. QED  BY <3>1, <5>1
      <4>5. ASSUME NEW j \in TxIdx, exec'.status[j] # "ready"
            PROVE  /\ exec.status[j] # "ready" /\ Stale(j)' = {} /\ \A k \in 0 .. j - 1 : ended(exec', k)
        <5>1. exec.status[j] # "ready"
          <6>1. CASE j = i  BY <4>2, <6>1
          <6>2. CASE j # i  BY <4>1, <4>5, <6>2 DEF TxIdx
          <6>3. QED  BY <6>1, <6>2
        <5>2. j <= i /\ Stale(j) = {} /\ \A k \in 0 .. j - 1 : ended(exec, k)  BY <3>0, <4>4, <5>1
        <5>3. \A k \in 0 .. j - 1 : k \in TxIndices(NTxs) \ {i}  BY <3>1, <5>2 DEF TxIdx
        <5>4. \A k : Visible(j, k)' = Visible(j, k)
          BY <2>1, <3>1, <4>1, <5>3, VisibleKept
        <5>5. Stale(j)' = {}  BY <4>1, <5>2, <5>4 DEF Stale
        <5>6. QED  BY <4>1, <5>1, <5>2, <5>3, <5>5
      <4>6. ASSUME NEW j \in TxIdx PROVE exec'.status[j] # "running"
        <5>1. CASE j = i  BY <4>1, <5>1
        <5>2. CASE j # i
          <6>1. exec'.status[j] = exec.status[j]  BY <4>1, <5>2 DEF TxIdx
          <6>2. QED  BY <3>0, <4>3, <5>2, <6>1
        <5>3. QED  BY <5>1, <5>2
      <4>7. \A j : AnteOK(j)' = AnteOK(j)
        BY <2>1, <4>1, HandlersKept
      <4>8. Accepted' = IF AnteOK(i) THEN Accepted \cup {i} ELSE Accepted
        <5>1. \A j \in TxIdx : ended(exec', j) <=> ended(exec, j) \/ j = i  BY <4>1 DEF TxIdx
        <5>2. ~ended(exec, i)  BY <4>2
        <5>3. QED  BY <2>2, <4>7, <5>1, <5>2 DEF Accepted
      <4>9. Accepted \subseteq TxIdx /\ \A j \in Accepted : j < i
        <5>1. ASSUME NEW j \in Accepted PROVE j \in TxIdx /\ j < i
          <6>1. j \in TxIdx /\ ended(exec, j)  BY DEF Accepted
          <6>2. j <= i /\ j # i  BY <4>2, <4>4, <6>1
          <6>3. QED  BY <3>1, <6>1, <6>2
        <5>2. QED  BY <5>1
      <4>10. /\ HasField(bct') /\ Attributed(bct', Accepted')
             /\ ToSet(bct'.fields["height"].readers) = CtxReaders(Accepted', NTxs)
        <5>1. CASE AnteOK(i)
          <6> DEFINE D == Accepted  u == bct'
          <6>1. u = BlockContextHandlers(block.txs[i + 1])  BY <4>2, <5>1
          <6>2. D \subseteq TxIdx /\ \A j \in D : j < i  BY <4>9
          <6>3. Attributed(bct, D) /\ ToSet(bct.fields["height"].readers) = CtxReaders(D, NTxs)  BY <3>0
          <6> HIDE DEF D, u
          <6>4. /\ HasField(u) /\ Attributed(u, D \cup {i})
                /\ ToSet(u.fields["height"].readers) = CtxReaders(D \cup {i}, NTxs)
            BY <1>0, <3>0, <4>3, <6>1, <6>2, <6>3, HandlerAttributed
          <6>5. QED  BY <4>8, <5>1, <6>4 DEF D, u
        <5>2. CASE ~AnteOK(i)  BY <3>0, <4>2, <4>8, <5>2
        <5>3. QED  BY <5>1, <5>2
      <4>11. Attributed(bct, Accepted)' /\ ToSet(bct'.fields["height"].readers) = CtxReaders(Accepted, NTxs)'
        BY <2>2, <2>3, <4>10 DEF Attributed
      <4>12. QED  BY <2>1, <2>2, <2>5, <4>5, <4>6, <4>10, <4>11 DEF CtxInv, HasField
    <3>4. CASE AbortTx(i)
      <4>1. exec.status[i] # "ready" /\ Stale(i) # {}  BY <3>4 DEF AbortTx
      <4>2. QED  BY <3>0, <4>1
    <3>5. QED  BY <1>4, <3>2, <3>3, <3>4
  <2>6. QED  BY <2>1, <2>4, <2>5 DEF Apps
<1>5. CASE OracleDone
  <2>1. /\ UNCHANGED <<block, results>> /\ pc = "oracle" /\ pc' = "probe" /\ AllValid
        /\ bct' = SetCurrentTx(bct, LastTx(bct.currentTx))
    BY <1>5 DEF OracleDone
  <2>2. TxIdx' = TxIdx /\ Failed' = Failed  BY <2>1 DEF NTxs, TxIdx, Failed
  <2>3. bct'.mutations = bct.mutations  BY <1>0, <2>1, CtxSetCurrent
  <2>4. ASSUME ~Failed PROVE Accepted = TxIdx
    <3>1. ASSUME NEW j \in TxIdx PROVE exec.status[j] = "done" /\ AnteOK(j)
      <4>1. Code(j) # 32 /\ exec.status[j] = "done"  BY <2>1, <2>4, ResponseSequences DEF Apps, AllValid
      <4>2. QED  BY <4>1 DEF Code, HandlerCode, AnteOK
    <3>2. QED  BY <3>1 DEF Accepted
  <2>5. \A D, w : CtxWriters(D)' = CtxWriters(D) /\ CtxReaders(D, w)' = CtxReaders(D, w)
    BY <2>1 DEF CtxWriters, CtxReaders
  <2>6. Attributed(bct, Accepted)  BY <2>1 DEF CtxInv
  <2>7. QED  BY <2>1, <2>2, <2>3, <2>4, <2>5, <2>6 DEF CtxInv, Attributed
<1>6. ASSUME NEW failing \in Apps \cup {"none"}, ProbeDone(failing) PROVE CtxInv'
  BY <1>1, <1>6 DEF ProbeDone, CleanUp
<1>7. QED  BY <1>1, <1>2, <1>3, <1>4, <1>5, <1>6, QuietSteps DEF Next

\* The block-context findings of the block that ends now are those of the tracker's
\* mutations, one for each.
LEMMA CtxFound ==
  ASSUME Shapes, pc = "probe"
  PROVE  \E d \in Nat : CtxAfter(BlockFindings, d, bct.mutations)
<1> DEFINE n == NTxs  o == oracleRes  p == Response  oObs == obs["oracle"]  pObs == ProbeObserved
           muts == bct.mutations  calls == sink.calls  h == BlockHeight  F == BlockFindings
<1>1. n \in Nat /\ IsObs(oObs, n) /\ HasResults(o, n)
  BY DEF Shapes, Apps
<1>2. \A i \in TxIndices(n) : ASequence(oObs.mutSets[i])  BY DEF Shapes, Apps, TxIdx
<1>3. ASequence(muts) /\ ASequence(calls)  BY DEF Shapes, IsCtx, IsSink
<1>4. HasResults(p, n)  BY DEF HasResults, Response
<1>5. F = RunFindings(h, o, p, n, oObs, pObs, muts, calls)  BY DEF BlockFindings
<1> HIDE DEF n, o, p, oObs, pObs, muts, calls, h, F
<1>6. \E d \in Nat : CtxAfter(F, d, muts)  BY <1>1, <1>2, <1>3, <1>4, <1>5, CtxFindingsAt
<1>7. QED  BY <1>6 DEF F, muts

\* With a sequential oracle and in-line callbacks every write of the block context is reported
\* once, under its own transaction and with the transactions that read the field since the
\* write before it.
THEOREM CtxIsAttributed == Spec => []CtxWritesAttributed
<1> DEFINE Inv == StoreInv /\ Shapes /\ HandlerInv /\ KVInv /\ SeqInv /\ CtxInv
<1>1. Init => CtxInv /\ CtxWritesAttributed
  BY DEF Init, CtxInv, CtxWritesAttributed, HasResult, NoResult
<1>2. Inv /\ CtxWritesAttributed /\ [Next]_vars => CtxWritesAttributed'
  <2> SUFFICES ASSUME Inv, CtxWritesAttributed, [Next]_vars PROVE CtxWritesAttributed'  OBVIOUS
  <2>1. CASE last' = last
    BY <2>1 DEF CtxWritesAttributed, HasResult, CtxFindings, TxsWith
  <2>2. CASE last' = NoResult  BY <2>2 DEF CtxWritesAttributed, HasResult, NoResult
  <2>3. CASE last' = BlockResult /\ pc = "probe" /\ HeightOK
    <3> SUFFICES ASSUME Attributing PROVE CtxWritesAttributed'
      BY DEF CtxWritesAttributed, Attributing
    <3> DEFINE F == BlockFindings  ms == bct.mutations
               Ws == CtxWriters(TxIdx)  At == {n \in DOMAIN F : F[n].dim = "block_context"}
    <3>1. last'.findings = F /\ last'.block = block  BY <2>3 DEF BlockResult
    <3>2. ~Failed  BY <2>3, VerdictMeansNoFailure
    <3>3. Attributed(bct, TxIdx)  BY <2>3, <3>2 DEF CtxInv
    <3>4. CtxFindings' = At  BY <3>1 DEF CtxFindings
    <3>5. TxsWith("ctx-write")' = Ws
      BY <3>1 DEF TxsWith, CtxWriters, TxIdx, NTxs
    <3>6. \A w : {r \in TxsWith("ctx-read")' : r < w /\ \A v \in Ws : v < w => v < r} = CtxReaders(TxIdx, w)
      BY <3>1 DEF TxsWith, CtxReaders, TxIdx, NTxs
    <3>7. PICK d \in Nat :
           /\ \A k \in DOMAIN ms : /\ d + k \in DOMAIN F /\ F[d + k].dim = "block_context"
                                   /\ F[d + k].tx = ms[k].writerTx /\ F[d + k].item = ms[k]
           /\ \A k \in DOMAIN F : k \in Nat /\ (F[k].dim = "block_context" => k - d \in DOMAIN ms)
      BY <2>3, CtxFound DEF CtxAfter
    <3>8. /\ \A k \in DOMAIN ms : ms[k].writerTx \in Ws /\ ToSet(ms[k].readerTxs) = CtxReaders(TxIdx, ms[k].writerTx)
          /\ \A w \in Ws : WrittenOnce(ms, w)
      BY <3>3 DEF Attributed
    <3>9. DOMAIN ms \subseteq Nat
      <4>1. ASequence(ms)  BY DEF Shapes, IsCtx
      <4>2. DOMAIN ms = 1 .. Len(ms) /\ Len(ms) \in Nat  BY <4>1, AppendedElements
      <4>3. QED  BY <4>2
    <3> HIDE DEF F, ms, Ws
    <3>10. ASSUME NEW n \in At
           PROVE  F[n].tx \in Ws /\ ToSet(F[n].item.readerTxs) = CtxReaders(TxIdx, F[n].tx)
      <4>1. n - d \in DOMAIN ms /\ d + (n - d) = n  BY <3>7
      <4>2. F[n].tx = ms[n - d].writerTx /\ F[n].item = ms[n - d]  BY <3>7, <4>1
      <4>3. QED  BY <3>8, <4>1, <4>2
    <3>11. ASSUME NEW w \in Ws
           PROVE  \E n \in At : F[n].tx = w /\ \A m \in At : F[m].tx = w => m = n
      <4>1. PICK k \in DOMAIN ms : ms[k].writerTx = w /\ \A m \in DOMAIN ms : ms[m].writerTx = w => m = k
        BY <3>8 DEF WrittenOnce
      <4>2. d + k \in At /\ F[d + k].tx = w  BY <3>7, <4>1
      <4>3. ASSUME NEW m \in At, F[m].tx = w PROVE m = d + k
        <5>1. m - d \in DOMAIN ms /\ d + (m - d) = m /\ m \in Nat  BY <3>7
        <5>2. ms[m - d].writerTx = w  BY <3>7, <4>3, <5>1
        <5>3. m - d = k  BY <4>1, <5>1, <5>2
        <5>4. QED  BY <3>9, <4>1, <5>1, <5>3
      <4>4. QED  BY <4>2, <4>3
    <3> HIDE DEF At
    <3>12. QED
      BY <3>1, <3>4, <3>5, <3>6, <3>10, <3>11 DEF CtxWritesAttributed
  <2>4. QED  BY <2>1, <2>2, <2>3, LastSteps
<1>3. StoreInv => TypeOK  BY DEF StoreInv
<1>4. QED  BY <1>1, <1>2, <1>3, SeqBase, CtxNext, PTL DEF Spec

================================================================================
