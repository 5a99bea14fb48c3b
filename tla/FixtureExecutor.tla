---------------------------- MODULE FixtureExecutor ----------------------------
(***************************************************************************)
(* run.FixtureExecutor: Init, RunBlock and Close, with the two apps it      *)
(* drives and the process-global hooks it shares with them.                 *)
(*                                                                         *)
(* RunBlock builds the block's transactions, runs the block on the oracle   *)
(* app, then on the probe app, compares, and commits both.  It is one       *)
(* thread; what interleaves are the BlockSTM workers inside FinalizeBlock.  *)
(* A RunBlock is therefore BeginBlock, then StartTx/FinishTx/AbortTx steps   *)
(* of the oracle's workers, OracleDone (which includes PostOracleHook), the *)
(* same steps of the probe's workers, and ProbeDone (the comparison, the    *)
(* clean-up and the commits); an error return is an action of its own.      *)
(*                                                                         *)
(* The apps and the SDK runner are not in the repository.  Their model: a   *)
(* multi-version key/value store in which a transaction whose reads no      *)
(* longer reproduce is aborted and re-executed, and a keeper field          *)
(* (mem, simcanary's sharedMap) outside that store.                         *)
(***************************************************************************)
EXTENDS Integers, Sequences, FiniteSets,
        ObserverOps, BlockContextTracker, NonDetSink, CompareOps, ConflictSink

CONSTANTS
  Blocks,            \* block specs: [txs |-> Seq([msg, signer, arg]), endBlock |-> BOOLEAN]
  Signers,           \* fixture accounts
  HookMode,          \* when the SDK runner fires OnTxStart/OnTxEnd: see HookModes
  OracleWorkers,     \* e.oracleWorkers, 0 meaning 1
  ConflictDetection, \* e.conflictDetection
  MaxStores,         \* bound: oracle apps built
  MaxBlocks,         \* bound: RunBlock calls per store
  MaxFaults          \* bound: failures of the apps (setup, FinalizeBlock, Commit)

\* "inline":  around every incarnation of a transaction, on its worker;
\* "posthoc": in one loop after the runner has returned;
\* "never":   not at all.  OnKVWrite always fires on the worker.
HookModes == {"inline", "posthoc", "never"}

\* Blocks without a transaction of a fixture account, or an unknown mode, are not runs.
ASSUME ConstantsAssumption ==
  /\ HookMode \in HookModes
  /\ OracleWorkers \in Nat
  /\ ConflictDetection \in BOOLEAN
  /\ MaxStores \in Nat /\ MaxBlocks \in Nat /\ MaxFaults \in Nat
  /\ Signers \subseteq Nat \ {0}
  /\ Blocks \subseteq [txs : Seq([msg : STRING, signer : Signers, arg : Int]), endBlock : BOOLEAN]

Apps == {"oracle", "probe"}
ProbeWorkers == 4

\* Keys of the key/value store: an account's sequence, a counter, the canary key.
Counter == 0
CanaryKey == -1
Keys == Signers \cup {Counter, CanaryKey}

MemInit == 0
KVInit == [k \in Keys |-> IF k = Counter THEN 1 ELSE 0]
NoWrites == [k \in {} |-> 0]

VARIABLES
  pc,          \* "closed", "idle", or the app whose FinalizeBlock is running
  gen,         \* oracle apps built so far: identifies the current one
  trackers,    \* e.oracleTrackers: the oracle app each tracker belongs to
  sequences,   \* e.sequences
  height,      \* last committed height of e.oracle and e.probe
  kv,          \* their committed stores
  mem,         \* their keeper's field outside the store
  block,       \* the block spec RunBlock was called with
  seqs,        \* the sequence number signed into each transaction
  exec,        \* the FinalizeBlock in progress
  obs,         \* the observers of the current block
  attached,    \* what the apps' SetLifecycleObserver was last given: "block" or "noop"
  preSnaps,    \* oraclePreSnaps
  oracleRes,   \* oracle's response
  bct,         \* oracleBlockCtxTracker (global)
  sink,        \* simharness.GlobalSink (global)
  conflictObs, \* block whose sink the global conflict observer feeds, or 0
  statsObs,    \* the same for the execution-stats observer
  csink,       \* conflictSink of the current block
  delay,       \* simcanary's SetValueDelay in ms (global)
  results,     \* one outcome per RunBlock call of this store
  last,        \* the last Result, with what really happened in its block
  faults       \* failures left to inject

globals == <<conflictObs, statsObs, delay>>
vars == <<pc, gen, trackers, sequences, height, kv, mem, block, seqs, exec, obs, attached, preSnaps,
          oracleRes, bct, sink, conflictObs, statsObs, csink, delay, results, last, faults>>

NTxs == Len(block.txs)
TxIdx == TxIndices(NTxs)
\* Mutant: the height advances only with a verdict.
BlockHeight_SuccessOnly == Cardinality({n \in DOMAIN results : results[n] # "error"}) + 1
\* The height the harness asks for when the blocks have none of their own: its localHeight,
\* which counts every call.  (A block of another height ends in RejectHeight.)
BlockHeight == Len(results) + 1

-------------------------------------------------------------------------------
(* Trackers.  A reflect tracker snapshots the keeper of the app it was       *)
(* created for; the block-context tracker (0) always snapshots nil.          *)

BlockTrackers == Append(trackers, 0)

\* Mutant: a tracker that snapshots whichever keeper is current.
SnapshotOutOfKVStoreState_AnyApp(t, field) == IF t = 0 THEN <<>> ELSE <<field>>

SnapshotOutOfKVStoreState(t, field) ==
  IF t = 0 THEN <<>> ELSE IF t = gen THEN <<field>> ELSE <<MemInit>>

Snapshots(field) == [t \in DOMAIN BlockTrackers |->
                       SnapshotOutOfKVStoreState(BlockTrackers[t], field)]

-------------------------------------------------------------------------------
(* Multi-version execution of one block.                                     *)

NewExec(n) ==
  [status  |-> [i \in TxIndices(n) |-> "ready"],
   reads   |-> [i \in TxIndices(n) |-> NoWrites],
   memRead |-> [i \in TxIndices(n) |-> MemInit],
   writes  |-> [i \in TxIndices(n) |-> NoWrites],
   code    |-> [i \in TxIndices(n) |-> 0],
   runs    |-> 0,          \* executions, re-executions included
   aborted |-> <<>>]       \* every conflict, observed or not

Writers(i, k) == {j \in 0 .. i - 1 : exec.status[j] = "done" /\ k \in DOMAIN exec.writes[j]}

\* What transaction i reads for k now: the writer (-1 is the base) and the value.
Visible(i, k) ==
  IF Writers(i, k) = {} THEN [from |-> -1, val |-> kv[pc][k]]
  ELSE LET j == Max(Writers(i, k)) IN [from |-> j, val |-> exec.writes[j][k]]

Stale(i) == {k \in DOMAIN exec.reads[i] : Visible(i, k) # exec.reads[i][k]}

AllValid == \A i \in TxIdx : exec.status[i] = "done" /\ Stale(i) = {}

FinalKV == [k \in Keys |-> Visible(NTxs, k).val]

\* Codes, gas and events are those of the final incarnations.  written is not part
\* of the response: it remembers the keys they really wrote.
Response ==
  [appHash   |-> FinalKV,
   txResults |-> [n \in 1 .. NTxs |->
      [code   |-> exec.code[n - 1],
       gas    |-> Cardinality(DOMAIN exec.writes[n - 1]),
       events |-> IF exec.code[n - 1] = 0
                    THEN <<[type |-> <<block.txs[n].msg>>, attrs |-> <<>>]>> ELSE <<>>]],
   written   |-> [n \in 1 .. NTxs |-> DOMAIN exec.writes[n - 1]]]

\* Mutant: the probe's runner is created without workers.
Workers_NoProbe == IF pc = "probe" THEN 0 ELSE 1

Workers == IF pc = "probe" THEN ProbeWorkers
           ELSE IF OracleWorkers = 0 THEN 1 ELSE OracleWorkers

\* baseapp accepts only the block after the last committed one.
HeightOK == BlockHeight = height[pc] + 1

-------------------------------------------------------------------------------
(* Building transactions.                                                    *)

\* Errors before the sequence is taken, and after (GenSignedMockTx).
BadMsg == "bad-msg"
BadSign == "bad-sign"

SignedBefore(txs, n, s) == Cardinality({m \in 1 .. n - 1 : txs[m].signer = s})

FirstBad(txs) ==
  LET bad == {n \in DOMAIN txs : txs[n].msg \in {BadMsg, BadSign}}
  IN  IF bad = {} THEN Len(txs) + 1 ELSE CHOOSE n \in bad : \A m \in bad : n <= m

\* The transactions that took a sequence number before building stopped.
Taken(txs) == {n \in DOMAIN txs : \/ n < FirstBad(txs)
                                  \/ n = FirstBad(txs) /\ txs[n].msg = BadSign}

\* Mutant: the sequence is not advanced.
SequencesAfter_NotAdvanced(txs) == sequences

\* e.sequences once RunBlock has built what it can of txs.
SequencesAfter(txs) ==
  [s \in Signers |-> sequences[s] + Cardinality({n \in Taken(txs) : txs[n].signer = s})]

BuiltSeqs(txs) ==
  [n \in DOMAIN txs |-> sequences[txs[n].signer] + SignedBefore(txs, n, txs[n].signer)]

-------------------------------------------------------------------------------
NoBlock == [txs |-> <<>>, endBlock |-> FALSE]
NoResponse == [appHash |-> KVInit, txResults |-> <<>>, written |-> <<>>]
NoObs == NewBlockObserver(0, 0)
NoResult == [verdict |-> "none", findings |-> <<>>, hotKeys |-> <<>>, ratio |-> <<0, 1>>,
             txWriteSets |-> <<>>, block |-> NoBlock, sameKV |-> TRUE, memBefore |-> MemInit,
             memAfter |-> MemInit, conflicts |-> <<>>, runs |-> 0, oracle |-> NoResponse,
             id |-> <<0, 0>>]

Init ==
  /\ pc = "closed" /\ gen = 0 /\ trackers = <<>>
  /\ sequences = [s \in Signers |-> 0]
  /\ height = [a \in Apps |-> 0] /\ kv = [a \in Apps |-> KVInit]
  /\ mem = [a \in Apps |-> MemInit]
  /\ block = NoBlock /\ seqs = <<>> /\ exec = NewExec(0)
  /\ obs = [a \in Apps |-> NoObs] /\ attached = "noop" /\ preSnaps = <<>>
  /\ oracleRes = NoResponse
  /\ bct = Reset(<<>>) /\ sink = NewSink
  /\ conflictObs = 0 /\ statsObs = 0 /\ csink = NewConflictSink /\ delay = 0
  /\ results = <<>> /\ last = NoResult
  /\ faults = MaxFaults

appVars == <<height, kv, mem>>
storeVars == <<sequences, appVars, results, last>>
blockVars == <<block, seqs, exec, obs, attached, preSnaps, oracleRes, bct, sink, csink>>

\* Init(genesis): both apps come up.
InitOK ==
  /\ pc = "closed" /\ gen < MaxStores
  /\ gen' = gen + 1
  /\ trackers' = Append(trackers, gen + 1)
  /\ sequences' = [s \in Signers |-> 0]
  /\ height' = [a \in Apps |-> 0] /\ kv' = [a \in Apps |-> KVInit]
  /\ mem' = [a \in Apps |-> MemInit]
  /\ results' = <<>> /\ last' = NoResult
  /\ pc' = "idle"
  /\ UNCHANGED <<blockVars, globals, faults>>

\* The probe's setup fails after the oracle's trackers were appended.
InitProbeFails ==
  /\ pc = "closed" /\ gen < MaxStores /\ faults > 0
  /\ gen' = gen + 1
  /\ trackers' = Append(trackers, gen + 1)
  /\ faults' = faults - 1
  /\ UNCHANGED <<pc, storeVars, blockVars, globals>>

\* The genesis or the oracle's setup fails: nothing of the executor has changed.
InitOracleFails ==
  /\ pc = "closed" /\ gen < MaxStores /\ faults > 0
  /\ faults' = faults - 1
  /\ UNCHANGED <<pc, gen, trackers, storeVars, blockVars, globals>>

Close ==
  /\ pc = "idle"
  /\ pc' = "closed"
  /\ trackers' = <<>>
  /\ UNCHANGED <<gen, storeVars, blockVars, globals, faults>>

-------------------------------------------------------------------------------
\* extraOracleBlockCtxTracker, and the delay between the two runs (extraPreProbeSetup).
OracleBlockCtxTracker == Reset([f \in {"height"} |-> BlockHeight])
PreProbeDelay == 50

\* RunBlock up to compare.Run: build, snapshot, create and attach the observers.
BeginBlock(b) ==
  /\ pc = "idle" /\ Len(results) < MaxBlocks
  /\ FirstBad(b.txs) > Len(b.txs)
  /\ sequences' = SequencesAfter(b.txs)
  /\ seqs' = BuiltSeqs(b.txs)
  /\ block' = b
  /\ bct' = OracleBlockCtxTracker
  /\ preSnaps' = Snapshots(mem["oracle"])
  /\ obs' = [oracle |-> NewBlockObserver(Len(b.txs), Len(BlockTrackers)),
             probe  |-> NewBlockObserver(Len(b.txs), 0)]
  /\ attached' = "block"
  /\ csink' = NewConflictSink
  /\ exec' = NewExec(Len(b.txs))
  /\ pc' = "oracle"
  /\ UNCHANGED <<gen, trackers, appVars, oracleRes, sink, globals, results, last, faults>>

\* A transaction cannot be built: RunBlock returns before it touches the apps.
BuildFails(b) ==
  /\ pc = "idle" /\ Len(results) < MaxBlocks
  /\ FirstBad(b.txs) <= Len(b.txs)
  /\ sequences' = SequencesAfter(b.txs)
  /\ results' = Append(results, "error")
  /\ UNCHANGED <<pc, gen, trackers, appVars, last, blockVars, globals, faults>>

-------------------------------------------------------------------------------
(* Workers.  The oracle's observer has the block-context tracker and the     *)
(* nondet sink as TxIndexSetters; the probe's has none and no trackers.      *)

ObsSnapshots == IF pc = "oracle" THEN Snapshots(mem["oracle"]) ELSE <<>>

\* A worker takes up transaction i: it reads the store and the keeper's field.
StartTx(i) ==
  /\ pc \in Apps /\ HeightOK
  /\ exec.status[i] = "ready"
  /\ Cardinality({j \in TxIdx : exec.status[j] = "running"}) < Workers
  /\ Workers = 1 => \A j \in 0 .. i - 1 : exec.status[j] = "done"
  /\ exec' = [exec EXCEPT
        !.status[i] = "running",
        !.reads[i] = [k \in {block.txs[i + 1].signer, Counter} |-> Visible(i, k)],
        !.memRead[i] = mem[pc],
        !.runs = @ + 1]
  /\ IF HookMode = "inline"
       THEN /\ obs' = [obs EXCEPT ![pc] = OnTxStart(@, i, ObsSnapshots)]
            /\ bct' = IF pc = "oracle" THEN SetCurrentTx(bct, i) ELSE bct
            /\ sink' = IF pc = "oracle" THEN SinkSetCurrentTx(sink, i) ELSE sink
       ELSE UNCHANGED <<obs, bct, sink>>
  /\ UNCHANGED <<pc, gen, trackers, storeVars, block, seqs, attached, preSnaps, oracleRes,
                 csink, globals, faults>>

\* The ante handler accepts a transaction signed with the account's sequence.
AnteOK(i) == exec.reads[i][block.txs[i + 1].signer].val = seqs[i + 1]

\* What a transaction t signed with seq writes, and returns, if it reads account as its
\* signer's sequence, counter from the store and field from the keeper.
HandlerWrites(t, seq, account, counter, field) ==
  [k \in {k \in {t.signer, Counter, CanaryKey} :
            /\ account = seq
            /\ k = Counter => t.msg = "take" /\ counter > 0
            /\ k = CanaryKey => t.msg = "map-read-write"} |->
     CASE k = Counter   -> counter - 1
       [] k = CanaryKey -> field
       [] OTHER         -> seq + 1]

HandlerCode(t, seq, account, counter) ==
  IF account # seq THEN 32 ELSE IF t.msg = "take" /\ counter = 0 THEN 5 ELSE 0

Writes(i) ==
  LET t == block.txs[i + 1]
  IN  HandlerWrites(t, seqs[i + 1], exec.reads[i][t.signer].val, exec.reads[i][Counter].val, exec.memRead[i])

Code(i) ==
  LET t == block.txs[i + 1]
  IN  HandlerCode(t, seqs[i + 1], exec.reads[i][t.signer].val, exec.reads[i][Counter].val)

\* BlockContextSet and BlockContextRead, which reach the oracle's tracker only.
BlockContextHandlers(t) == CASE t.msg = "ctx-write" -> WriteField(bct, "height", t.arg)
                             [] t.msg = "ctx-read"  -> ReadField(bct, "height")
                             [] OTHER -> bct

\* The worker completes the incarnation: keeper side effects, writes, callbacks.
FinishTx(i) ==
  LET t == block.txs[i + 1]
      does(m) == AnteOK(i) /\ t.msg = m
      field == IF does("map-set") THEN t.arg ELSE mem[pc]
      snaps == IF pc = "oracle" THEN Snapshots(field) ELSE <<>>
      written == OnKVWrite(obs[pc], DOMAIN Writes(i), i)
  IN
  /\ pc \in Apps
  /\ exec.status[i] = "running"
  /\ exec' = [exec EXCEPT !.status[i] = "done", !.writes[i] = Writes(i), !.code[i] = Code(i)]
  /\ mem' = [mem EXCEPT ![pc] = field]
  /\ sink' = IF does("clock") THEN Record(sink, <<gen, BlockHeight, pc, i>>) ELSE sink
  /\ bct' = IF pc = "oracle" /\ AnteOK(i) THEN BlockContextHandlers(t) ELSE bct
  /\ obs' = [obs EXCEPT ![pc] = IF HookMode = "inline" THEN OnTxEnd(written, i, snaps)
                                                       ELSE written]
  /\ UNCHANGED <<pc, gen, trackers, sequences, height, kv, results, last, block, seqs,
                 attached, preSnaps, oracleRes, csink, globals, faults>>

\* One conflict record per read of i that no longer reproduces.
Conflicts(i) ==
  LET keys == SetToSortSeq(Stale(i), <)
  IN  [n \in DOMAIN keys |-> [store |-> 0, key |-> keys[n], tx |-> i]]

\* Mutant: the conflict observer is installed before the oracle runs.
ConflictObserved_Always == ConflictDetection

\* PostOracleHook installs the observer of this block's sink, after the oracle's run.
ConflictObserved == conflictObs = BlockHeight

\* Validation of i fails: the incarnation is aborted, the conflicts go to the observer.
AbortTx(i) ==
  /\ pc \in Apps
  /\ exec.status[i] = "done" /\ Stale(i) # {}
  /\ exec' = [exec EXCEPT !.status[i] = "ready", !.writes[i] = NoWrites,
                          !.aborted = @ \o Conflicts(i)]
  /\ csink' = IF ConflictObserved THEN RecordConflicts(csink, Conflicts(i)) ELSE csink
  /\ UNCHANGED <<pc, gen, trackers, storeVars, block, seqs, obs, attached, preSnaps,
                 oracleRes, bct, sink, globals, faults>>

-------------------------------------------------------------------------------
EndBlockMem(a) == IF block.endBlock THEN mem[a] + 10 ELSE mem[a]

\* The post-hoc loop leaves the TxIndexSetters at the last transaction.
LastTx(old) == IF HookMode = "posthoc" /\ NTxs > 0 THEN NTxs - 1 ELSE old

AfterLoop(o, snaps) == IF HookMode = "posthoc" THEN PostHocLoop(o, snaps) ELSE o

\* The oracle's FinalizeBlock returns; PostOracleHook; the probe's begins.
OracleDone ==
  LET field == EndBlockMem("oracle")
      observed == AfterLoop(obs["oracle"], Snapshots(mem["oracle"]))
  IN
  /\ pc = "oracle" /\ HeightOK /\ AllValid
  /\ mem' = [mem EXCEPT !["oracle"] = field]
  /\ oracleRes' = Response
  /\ bct' = SetCurrentTx(bct, LastTx(bct.currentTx))
  /\ sink' = SinkSetCurrentTx(sink, LastTx(sink.txIndex))
  /\ delay' = PreProbeDelay
  /\ obs' = [obs EXCEPT !["oracle"] =
        AddBlockMutations(observed, MutationRecords(preSnaps, Snapshots(field)))]
  /\ conflictObs' = IF ConflictDetection THEN BlockHeight ELSE conflictObs
  /\ statsObs' = BlockHeight
  /\ exec' = NewExec(NTxs)
  /\ pc' = "probe"
  /\ UNCHANGED <<gen, trackers, sequences, height, kv, results, last, block, seqs, attached,
                 preSnaps, csink, faults>>

\* Mutant: the stats observer and the delay are left installed.
CleanUp_LeavesHooks ==
  /\ conflictObs' = 0 /\ attached' = "noop" /\ pc' = "idle"
  /\ UNCHANGED <<statsObs, delay>>

\* RunBlock after compare.Run: remove the global observers, detach, post-run hook.
CleanUp ==
  /\ conflictObs' = 0 /\ statsObs' = 0
  /\ attached' = "noop"
  /\ delay' = 0
  /\ pc' = "idle"

\* FinalizeBlock refuses the block: the app is not at the height before it.
RejectHeight ==
  /\ pc \in Apps /\ ~HeightOK
  /\ CleanUp
  /\ results' = Append(results, "error")
  /\ UNCHANGED <<gen, trackers, sequences, height, kv, mem, block, seqs, exec, obs, preSnaps, oracleRes,
                 bct, sink, csink, last, faults>>

\* FinalizeBlock fails, at any point of the execution.
FinalizeFails ==
  /\ pc \in Apps /\ HeightOK /\ faults > 0
  /\ faults' = faults - 1
  /\ CleanUp
  /\ results' = Append(results, "error")
  /\ UNCHANGED <<gen, trackers, sequences, height, kv, mem, block, seqs, exec, obs, preSnaps, oracleRes,
                 bct, sink, csink, last>>

ProbeObserved == AfterLoop(obs["probe"], <<>>)

BlockFindings ==
  RunFindings(BlockHeight, oracleRes, Response, NTxs, obs["oracle"], ProbeObserved,
              bct.mutations, sink.calls)

DrainedSink ==
  IF statsObs = BlockHeight THEN RecordStats(csink, [blockSize |-> NTxs, executed |-> exec.runs])
                       ELSE csink

\* The Result, and (from sameKV on) what the properties compare it with.
BlockResult ==
  [verdict |-> Verdict(BlockFindings), findings |-> BlockFindings,
   hotKeys |-> AggregateHotKeys(DrainedSink.records),
   ratio |-> Ratio(DrainedSink.stats),
   txWriteSets |-> [n \in 1 .. NTxs |-> TxWriteSet(obs["oracle"], n - 1)],
   sameKV |-> kv["oracle"] = kv["probe"],
   block |-> block, memBefore |-> preSnaps, memAfter |-> Snapshots(mem["oracle"]),
   conflicts |-> exec.aborted, runs |-> exec.runs, oracle |-> oracleRes,
   id |-> <<gen, BlockHeight>>]

\* Mutant: the probe is committed although the oracle's commit failed.
Committed_ProbeAnyway(failing) == IF failing = "none" THEN Apps ELSE Apps \ {failing}

\* Commit of the oracle, then of the probe; failing is the first that fails, or "none".
Committed(failing) == CASE failing = "none"   -> Apps
                        [] failing = "probe"  -> {"oracle"}
                        [] failing = "oracle" -> {}

\* The probe's FinalizeBlock returns; the comparison; clean-up; the commits.
ProbeDone(failing) ==
  LET newKV == [oracle |-> oracleRes.appHash, probe |-> FinalKV]
  IN
  /\ pc = "probe" /\ HeightOK /\ AllValid
  /\ failing # "none" => faults > 0
  /\ faults' = IF failing = "none" THEN faults ELSE faults - 1
  /\ obs' = [obs EXCEPT !["probe"] = ProbeObserved]
  /\ sink' = Drained(sink)
  /\ csink' = NewConflictSink
  /\ CleanUp
  /\ mem' = [mem EXCEPT !["probe"] = EndBlockMem("probe")]
  /\ height' = [a \in Apps |-> IF a \in Committed(failing) THEN height[a] + 1 ELSE height[a]]
  /\ kv' = [a \in Apps |-> IF a \in Committed(failing) THEN newKV[a] ELSE kv[a]]
  /\ results' = Append(results, IF failing = "none" THEN Verdict(BlockFindings) ELSE "error")
  /\ last' = IF failing = "none" THEN BlockResult ELSE last
  /\ UNCHANGED <<gen, trackers, sequences, block, seqs, exec, preSnaps, oracleRes, bct>>

-------------------------------------------------------------------------------
\* The harness has no store left.
Done == pc = "closed" /\ gen = MaxStores /\ UNCHANGED vars

Next ==
  \/ InitOK \/ InitProbeFails \/ InitOracleFails \/ Close
  \/ \E b \in Blocks : BeginBlock(b) \/ BuildFails(b)
  \/ \E i \in TxIdx : StartTx(i) \/ FinishTx(i) \/ AbortTx(i)
  \/ OracleDone \/ RejectHeight \/ FinalizeFails
  \/ \E failing \in Apps \cup {"none"} : ProbeDone(failing)
  \/ Done

Spec == Init /\ [][Next]_vars

(***************************************************************************)
(* Fairness: a RunBlock call that can go on does go on (the Go scheduler    *)
(* runs the workers and the runner returns).  Nothing forces a call, or a   *)
(* failure.                                                                 *)
(***************************************************************************)
RunBlockStep ==
  \/ \E i \in TxIdx : StartTx(i) \/ FinishTx(i) \/ AbortTx(i)
  \/ OracleDone \/ RejectHeight \/ ProbeDone("none")

FairSpec == Spec /\ WF_vars(RunBlockStep)

-------------------------------------------------------------------------------
Outcomes == {Match, Divergence, "error"}

\* The control state and the state shared with the rest of the process have their types.
TypeOK ==
  /\ pc \in Apps \cup {"closed", "idle"}
  /\ gen \in 0 .. MaxStores
  /\ trackers \in Seq(1 .. MaxStores)
  /\ height \in [Apps -> Nat]
  /\ attached \in {"noop", "block"} /\ delay \in {0, PreProbeDelay}
  /\ conflictObs \in Nat /\ statsObs \in Nat
  /\ results \in Seq(Outcomes)
  /\ faults \in 0 .. MaxFaults

Failed == \E n \in DOMAIN results : results[n] = "error"

\* The process-global observers and simcanary's delay are in force only while the probe
\* executes, and the apps hold the block's observers only inside compare.Run, on every
\* error path too: nothing of one block is left installed for another one's oracle run.
HooksScoped ==
  /\ conflictObs # 0 \/ statsObs # 0 \/ delay # 0 => pc = "probe"
  /\ attached = "block" <=> pc \in Apps

\* The apps advance together: the probe is never ahead and at most one commit behind, and
\* they have both committed every block of a store none of whose RunBlock calls failed.
\* After a failure the probe stays behind the heights the harness asks for.
HeightsInStep ==
  /\ height["probe"] <= height["oracle"]
  /\ height["oracle"] <= height["probe"] + 1
  /\ ~Failed => height["oracle"] = Len(results) /\ height["probe"] = Len(results)
  /\ Failed => height["probe"] < Len(results)

\* After a RunBlock call has failed no later call on the same store returns a verdict: the
\* blocks reported are a prefix of the store's, whatever failed (building, either
\* FinalizeBlock, either Commit).
ResultsArePrefix ==
  \A n, m \in DOMAIN results : n < m /\ results[n] = "error" => results[m] = "error"

HasResult == last.verdict # "none"

\* The hot keys and the execution ratio of a result are exactly those of this block's probe
\* run: no conflict of the oracle (which may be BlockSTM too) or of another block is
\* counted, none is lost.
HotKeysOfOwnProbe ==
  HasResult =>
    /\ last.hotKeys = AggregateHotKeys(IF ConflictDetection THEN last.conflicts ELSE <<>>)
    /\ last.ratio = Ratio([blockSize |-> Len(last.block.txs), executed |-> last.runs])

\* Trackers (by position in the block's tracker list) whose state changed in the oracle.
ChangedTrackers == {t \in DOMAIN last.memBefore : last.memBefore[t] # last.memAfter[t]}

ReportedTrackers ==
  {last.findings[n].item.tracker :
     n \in {m \in DOMAIN last.findings : last.findings[m].dim = "out_of_kvstore"}}

ClockCalls == {n \in DOMAIN last.block.txs : last.block.txs[n].msg = "clock"}

\* The clock call of the oracle's transaction n is among the findings, under that
\* transaction if a sequential runner announced it before it ran.
CallReported(n) ==
  \E m \in DOMAIN last.findings :
    LET f == last.findings[m]
    IN  /\ f.dim = "non_deterministic"
        /\ f.item.src = <<last.id[1], last.id[2], "oracle", n - 1>>
        /\ HookMode = "inline" /\ OracleWorkers <= 1 => f.tx = n - 1

\* What the oracle does outside the store is reported: a change of keeper state over a block
\* that has a transaction, and every call of the clock, whatever the runner's callbacks do
\* and whatever the probe's schedule was; the canary is never missed.
OutOfKVReported ==
  HasResult =>
    /\ last.block.txs # <<>> => ChangedTrackers \subseteq ReportedTrackers
    /\ \A n \in ClockCalls : CallReported(n)

\* Trackers left over from an Init whose probe setup failed never produce a finding: every
\* out-of-KVStore finding is about the current oracle's keeper.
FindingsFromCurrentOracle ==
  HasResult => ReportedTrackers \subseteq {Len(last.memBefore) - 1}

Special == {"map-set", "map-read-write", "ctx-write", "clock"}

\* A clock call made before the current store was opened: a block that fails after the call
\* leaves it in the sink, where the next result finds it.
LeftOver(f) == f.dim = "non_deterministic" /\ f.item.src[1] < last.id[1]

\* A block of ordinary transactions that starts from equal stores is reported as a MATCH
\* under any schedule with re-executions, if the runner fires OnTxStart at all (otherwise the
\* write sets of aborted incarnations add up), unless a failed block of an earlier store left
\* a clock call in the sink: nothing else is ever among its findings.
NoFalseDivergence ==
  HasResult /\ last.sameKV /\ ~last.block.endBlock /\ HookMode # "never"
            /\ (\A n \in DOMAIN last.block.txs : last.block.txs[n].msg \notin Special)
    => /\ last.verdict = Match \/ last.findings # <<>>
       /\ \A n \in DOMAIN last.findings : LeftOver(last.findings[n])

\* The stores of the two apps cannot drift apart unnoticed: if the committed stores differ
\* after blocks that were all reported, one of those blocks was reported as divergent.
NoSilentDrift ==
  pc = "idle" /\ ~Failed /\ kv["oracle"] # kv["probe"]
    => \E n \in DOMAIN results : results[n] = Divergence

\* No transaction of a reported block was refused for its sequence number: a block that
\* fails to build leaves e.sequences ahead of the accounts, but then no later block of the
\* store is reported.
SequencesInStep ==
  HasResult => \A n \in DOMAIN last.oracle.txResults : last.oracle.txResults[n].code # 32

\* Result.TxWriteSets holds the keys each transaction wrote in the oracle.
WriteSetsCaptured == HasResult => last.txWriteSets = last.oracle.written

CtxFindings == {n \in DOMAIN last.findings : last.findings[n].dim = "block_context"}

TxsWith(m) == {i \in TxIndices(Len(last.block.txs)) : last.block.txs[i + 1].msg = m}

\* With a sequential oracle and in-line callbacks the block-context findings are exactly the
\* writes of this block, one for each, attributed to its transaction with the transactions
\* that read the field since the write before it.
CtxWritesAttributed ==
  HasResult /\ OracleWorkers <= 1 /\ HookMode = "inline" =>
    LET writers == TxsWith("ctx-write")
        readers(w) == {r \in TxsWith("ctx-read") : r < w /\ \A v \in writers : v < w => v < r}
    IN  /\ \A n \in CtxFindings :
             LET f == last.findings[n]
             IN  f.tx \in writers /\ ToSet(f.item.readerTxs) = readers(f.tx)
        /\ \A w \in writers : \E n \in CtxFindings :
             last.findings[n].tx = w /\ \A m \in CtxFindings : last.findings[m].tx = w => m = n

\* Every RunBlock call returns: the workers cannot block one another or re-execute forever.
RunBlockReturns == pc \in Apps ~> pc = "idle"

\* The height the store was opened at and those of the calls: 0, 1, 2, ...
Asked ==
  IF pc = "closed" THEN <<>>
  ELSE [n \in 1 .. Len(results) + IF pc = "idle" THEN 1 ELSE 2 |-> n - 1]

\* Seen from the harness, the executor is an ExecutorContract.
Contract == INSTANCE ExecutorContract
              WITH phase    <- IF pc \in Apps THEN "running"
                               ELSE IF pc = "idle" THEN "open" ELSE "closed",
                   heights  <- Asked,
                   outcomes <- results

\* Init, RunBlock and Close implement the contract the harness relies on.
ImplementsContract == Contract!CSpec
================================================================================
