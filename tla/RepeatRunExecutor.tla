--------------------------- MODULE RepeatRunExecutor ---------------------------
(***************************************************************************)
(* run.RepeatRunExecutor (--probes N): one sequential oracle and N BlockSTM *)
(* probes run the same block one after another; the oracle is compared with *)
(* the first probe, the first probe with each other one, then all commit.   *)
(*                                                                         *)
(* App 0 is the oracle, app i >= 1 is probes[i-1].  What an app computes is *)
(* any member of Responses: the perturbed schedules may have any effect.    *)
(* All transactions of a block are signed by one account.                   *)
(***************************************************************************)
EXTENDS Integers, Sequences, FiniteSets, CompareOps

CONSTANTS
  Probes,     \* the --probes argument
  BlockSize,    \* transactions per block
  Responses,  \* [appHash, codes, ws] an app may return for a block it accepts
  MaxStores, MaxBlocks, MaxFaults    \* bounds: Init calls, RunBlock calls per store, failures

\* A FinalizeBlock response has one result and one write set per transaction.
IsResponse(r) ==
  /\ r = [appHash |-> r.appHash, codes |-> r.codes, ws |-> r.ws]
  /\ r.codes = [n \in 1 .. BlockSize |-> r.codes[n]]
  /\ r.ws = [n \in 1 .. BlockSize |-> r.ws[n]]

\* Code 32, ErrWrongSequence, is what Accepted below gives to a refused transaction.
ASSUME RepeatAssumption ==
  /\ {BlockSize, MaxStores, MaxBlocks, MaxFaults} \subseteq Nat /\ Probes \in Int
  /\ \A r \in Responses : IsResponse(r) /\ 32 \notin ToSet(r.codes)

\* NewRepeatRunExecutor clamps the number of probes.
N == IF Probes < 1 THEN 1 ELSE Probes
Apps == 0 .. N

NoResponse == [appHash |-> "none", codes |-> <<>>, ws |-> <<>>]
NoResult == [verdict |-> "none", findings |-> <<>>, res |-> [a \in Apps |-> NoResponse]]

VARIABLES
  pc,         \* "closed", "idle", "run" (inside RunBlock, after building)
  app,        \* next app to run FinalizeBlock
  height,     \* last committed height of each app
  sequences,  \* e.sequences of the signer
  accSeq,     \* the signer's sequence in each app's committed store
  signed,     \* the sequence signed into the block's first transaction
  res,        \* the responses so far
  attached,   \* apps whose lifecycle observer is a block's
  results,    \* one outcome per RunBlock call of this store
  last,       \* the last Result, with the responses it was computed from
  stores, faults

vars == <<pc, app, height, sequences, accSeq, signed, res, attached, results, last, stores, faults>>

\* Mutant: the height advances only with a verdict.
BlockHeight_SuccessOnly == Cardinality({n \in DOMAIN results : results[n] # "error"}) + 1

BlockHeight == Len(results) + 1

-------------------------------------------------------------------------------
(* Comparison.                                                               *)

\* repeatCompareResponses: hash, codes and write sets; gas and events are not compared.
repeatCompareResponses(left, right, probeIndex) ==
  (IF left.appHash # right.appHash
     THEN <<NewFinding(BlockHeight, "app_hash", -1, probeIndex, <<left.appHash, right.appHash>>)>>
     ELSE <<>>)
  \o TxFindings(BlockHeight, "error_code", probeIndex, left.codes, right.codes)
  \o TxFindings(BlockHeight, "write_set", probeIndex, left.ws, right.ws)

\* Mutant: the probes are compared pairwise with their successor, but not the last one.
AllFindings_SkipsLast ==
  repeatCompareResponses(res[0], res[1], 0)
  \o FlattenSeq([i \in 1 .. N - 2 |-> repeatCompareResponses(res[1], res[i + 1], i)])

\* Mutant: every probe is compared with the oracle.
AllFindings_AgainstOracle ==
  FlattenSeq([i \in 1 .. N |-> repeatCompareResponses(res[0], res[i], i - 1)])

\* F1: oracle against probes[0]; F2: probes[0] against probes[i].
AllFindings ==
  repeatCompareResponses(res[0], res[1], 0)
  \o FlattenSeq([i \in 1 .. N - 1 |-> repeatCompareResponses(res[1], res[i + 1], i)])

-------------------------------------------------------------------------------
Init ==
  /\ pc = "closed" /\ app = 0
  /\ height = [a \in Apps |-> 0] /\ sequences = 0 /\ accSeq = [a \in Apps |-> 0] /\ signed = 0
  /\ res = [a \in Apps |-> NoResponse] /\ attached = {}
  /\ results = <<>> /\ last = NoResult /\ stores = 0 /\ faults = MaxFaults

\* Init: all apps come up.
InitOK ==
  /\ pc = "closed" /\ stores < MaxStores
  /\ stores' = stores + 1
  /\ height' = [a \in Apps |-> 0] /\ sequences' = 0 /\ accSeq' = [a \in Apps |-> 0]
  /\ results' = <<>> /\ last' = NoResult
  /\ pc' = "idle"
  /\ UNCHANGED <<app, signed, res, attached, faults>>

\* Some app does not come up: the executor is assigned only at the end of Init.
InitFails ==
  /\ pc = "closed" /\ stores < MaxStores /\ faults > 0
  /\ stores' = stores + 1 /\ faults' = faults - 1
  /\ UNCHANGED <<pc, app, height, sequences, accSeq, signed, res, attached, results, last>>

Close ==
  /\ pc = "idle"
  /\ pc' = "closed"
  /\ sequences' = 0
  /\ UNCHANGED <<app, height, accSeq, signed, res, attached, results, last, stores, faults>>

\* Mutant: every app builds its own transactions.
SequencesTaken_PerApp(n) == n * (N + 1)

\* buildTx takes one sequence number per transaction, once for all apps.
SequencesTaken(n) == n

\* RunBlock: the transactions are built once, the observers attached.
BeginBlock ==
  /\ pc = "idle" /\ Len(results) < MaxBlocks
  /\ signed' = sequences
  /\ sequences' = sequences + SequencesTaken(BlockSize)
  /\ attached' = Apps
  /\ app' = 0
  /\ pc' = "run"
  /\ UNCHANGED <<height, accSeq, res, results, last, stores, faults>>

\* A transaction cannot be built after n sequence numbers were taken (its own, too, if it
\* is the signing that fails).
BuildFails(n) ==
  /\ pc = "idle" /\ Len(results) < MaxBlocks /\ faults > 0
  /\ faults' = faults - 1
  /\ sequences' = sequences + SequencesTaken(n)
  /\ results' = Append(results, "error")
  /\ UNCHANGED <<pc, app, height, accSeq, signed, res, attached, last, stores>>

HeightOK(a) == BlockHeight = height[a] + 1

\* An app whose account is elsewhere in its sequence rejects every transaction.
Accepted(a, r) ==
  IF accSeq[a] = signed THEN r
  ELSE [appHash |-> "unchanged", codes |-> [n \in 1 .. BlockSize |-> 32], ws |-> [n \in 1 .. BlockSize |-> {}]]

\* FinalizeBlock of the next app returns r.
Finalize(r) ==
  /\ pc = "run" /\ app \in Apps /\ HeightOK(app)
  /\ res' = [res EXCEPT ![app] = Accepted(app, r)]
  /\ app' = app + 1
  /\ UNCHANGED <<pc, height, sequences, accSeq, signed, attached, results, last, stores, faults>>

unsetObservers == attached' = {}

\* FinalizeBlock of the next app refuses the height, or fails.
FinalizeFails ==
  /\ pc = "run" /\ app \in Apps
  /\ HeightOK(app) => faults > 0
  /\ faults' = IF HeightOK(app) THEN faults - 1 ELSE faults
  /\ unsetObservers
  /\ results' = Append(results, "error")
  /\ pc' = "idle"
  /\ UNCHANGED <<app, height, sequences, accSeq, signed, res, last, stores>>

\* Mutant: the other apps are still committed when one fails.
Committed_Others(failing) == Apps \ {failing}

\* The apps before the first failing one have committed (failing = N + 1: none fails).
Committed(failing) == {a \in Apps : a < failing}

\* All apps have run: the findings, the commits in order, the result.
Compare(failing) ==
  /\ pc = "run" /\ app = N + 1
  /\ failing <= N => faults > 0
  /\ faults' = IF failing <= N THEN faults - 1 ELSE faults
  /\ unsetObservers
  /\ height' = [a \in Apps |-> IF a \in Committed(failing) THEN height[a] + 1 ELSE height[a]]
  /\ accSeq' = [a \in Apps |-> IF a \in Committed(failing) /\ accSeq[a] = signed
                                 THEN accSeq[a] + BlockSize ELSE accSeq[a]]
  /\ IF failing <= N
       THEN /\ results' = Append(results, "error")
            /\ UNCHANGED last
       ELSE /\ results' = Append(results, Verdict(AllFindings))
            /\ last' = [verdict |-> Verdict(AllFindings), findings |-> AllFindings, res |-> res]
  /\ pc' = "idle"
  /\ UNCHANGED <<app, sequences, signed, res, stores>>

Done == pc = "closed" /\ stores = MaxStores /\ UNCHANGED vars

Next ==
  \/ InitOK \/ InitFails \/ Close \/ BeginBlock
  \/ \E n \in 0 .. BlockSize : BuildFails(n)
  \/ \E r \in Responses : Finalize(r)
  \/ FinalizeFails
  \/ \E failing \in 0 .. N + 1 : Compare(failing)
  \/ Done

Spec == Init /\ [][Next]_vars

-------------------------------------------------------------------------------
HasResult == last.verdict # "none"
Failed == \E n \in DOMAIN results : results[n] = "error"

\* command.go: the probes are compared "all ... against each other": although only the first
\* one is compared with the others, a block is a MATCH exactly if no two of the oracle and
\* the probes differ.
AllPairsCompared ==
  HasResult => (last.verdict = Match <=> \A a, b \in Apps : last.res[a] = last.res[b])

\* The ProbeIndex of a finding: 0 is blamed exactly if the oracle and the first probe
\* differ, i > 0 exactly if probes[i] differs from probes[0].
BlameIsExact ==
  HasResult =>
    {last.findings[n].probe : n \in DOMAIN last.findings}
      = {i \in 0 .. N - 1 : IF i = 0 THEN last.res[0] # last.res[1] ELSE last.res[1] # last.res[i + 1]}

\* No transaction of a reported block was refused for its sequence number, although a block
\* that fails to build leaves e.sequences ahead of every app.
SequencesInStep ==
  HasResult => \A a \in Apps : 32 \notin ToSet(last.res[a].codes)

\* A RunBlock call leaves the apps settled whichever FinalizeBlock or Commit failed: none
\* holds an observer of the block, commits happened in order (an app is never ahead of the
\* ones before it, nor two behind), and without a failure all have committed every block.
AppsSettled ==
  /\ attached # {} => pc = "run"
  /\ \A a, b \in Apps : a < b => height[b] <= height[a] /\ height[a] <= height[b] + 1
  /\ ~Failed => \A a \in Apps : height[a] = Len(results)

\* The height the store was opened at and those of the calls: 0, 1, 2, ...
Asked ==
  IF pc = "closed" THEN <<>>
  ELSE [n \in 1 .. Len(results) + IF pc = "idle" THEN 1 ELSE 2 |-> n - 1]

Contract == INSTANCE ExecutorContract
              WITH phase    <- CASE pc = "run" -> "running" [] pc = "idle" -> "open" [] pc = "closed" -> "closed",
                   heights  <- Asked,
                   outcomes <- results

\* Seen from the harness, the executor is an ExecutorContract.
ImplementsContract == Contract!CSpec
================================================================================
