-------------------------------- MODULE Harness --------------------------------
(***************************************************************************)
(* run.RunHarness: it walks the corpus stores, initialises the executor for *)
(* each, calls RunBlock for every block the store yields, hands the results *)
(* to the reporter and the coverage trackers, and ends with a summary and   *)
(* an exit code.                                                            *)
(*                                                                         *)
(* The executor is known by its interface only: ephase, heights and         *)
(* outcomes are the variables of ExecutorContract, which the harness drives *)
(* here.  Init may fail (MaxFaults of them do), RunBlock returns any member *)
(* of Results or an error, and as the contract says a verdict only for a    *)
(* height that the apps accept.                                             *)
(***************************************************************************)
EXTENDS Integers, Sequences, FiniteSets, Corpus, Reports

CONSTANTS
  Corpora,           \* possible arguments: sequences of stores
  Executors,         \* [state, genesis, keys]: what kinds of executor there are
  Results,           \* [verdict, hot, ratio, ws]: what RunBlock may return
  Registered,        \* message keys of the coverage registry
  HotKeyMinTxs,      \* cfg.HotKeyMinTxs
  FailOnDivergence,  \* cfg.FailOnDivergence
  MaxFaults          \* bound: Init, InitFromState and RunBlock calls that fail

\* An executor with state implements StateInitializer, one with genesis has an Init that
\* may succeed, one with keys fills Result.MsgKeys (RepeatRunExecutor does not).  hot lists, per hot key, the number of distinct transactions; ratio is in hundredths;
\* ws is TxWriteSets, <<>> when the executor has none.
ASSUME HarnessAssumption ==
  /\ Corpora \subseteq Seq([count : Nat, canary : BOOLEAN, snapshot : BOOLEAN,
                            items : Seq([kind : {"block", "error"}, height : Nat,
                                         keys : Seq(STRING)])])
  /\ \A c \in Corpora : \A n \in DOMAIN c : WellFormed(c[n])
  /\ \A r \in Results : /\ r.verdict \in {Match, Divergence}
                        /\ r.hot \in Seq(Nat) /\ r.ratio \in Nat
  /\ HotKeyMinTxs \in Nat /\ MaxFaults \in Nat
  /\ Executors \subseteq [state : BOOLEAN, genesis : BOOLEAN, keys : BOOLEAN]
  /\ FailOnDivergence \in BOOLEAN

VARIABLES
  stores,     \* the corpus argument
  exec,       \* the executor argument
  pc,         \* "store" (before the next one), "iter", "block" (in RunBlock), "done"
  cur,        \* position of the current store
  pos,        \* items consumed from the current store's iterator
  localHeight, blockNum,
  okCount, divergenceCount, canaryExpected, canaryMissed, hotKeyBlocks, maxExecRatio,
  reported,   \* the outcomes given to rep.Block, in order
  counts,     \* coverage.Tracker: transactions seen per message key
  patterns,   \* coverage.StatePatternTracker: write sets seen per message key
  closes,     \* times each store was closed
  ephase, heights, outcomes,   \* the executor (ExecutorContract)
  exit,       \* the return value, -1 before
  faults

counters == <<okCount, divergenceCount, canaryExpected, canaryMissed, hotKeyBlocks, maxExecRatio,
              reported, counts, patterns>>
input == <<stores, exec>>
vars == <<input, pc, cur, pos, localHeight, blockNum, counters, heights, closes, ephase, outcomes,
          exit, faults>>

store == stores[cur]

Exec == INSTANCE ExecutorContract WITH phase <- ephase

\* The height of the state a store is opened with: that before a snapshot's first block
\* (InitFromState loads it), or none.
StateHeight(s) == IF s.snapshot THEN s.items[1].height - 1 ELSE 0

-------------------------------------------------------------------------------
(* Totals and reports.                                                       *)

\* The announced blocks of the first k stores, and of all.
BlocksUpTo(k) == SumUpTo([n \in DOMAIN stores |-> stores[n].count], k)
TotalBlocks == BlocksUpTo(Len(stores))

\* Mutants: the number of failures as the exit code; missed canaries forgotten.
ExitCode_Count(missed, diverged) == IF FailOnDivergence THEN missed + diverged ELSE missed
ExitCode_NoCanary(missed, diverged) == IF FailOnDivergence /\ diverged > 0 THEN 1 ELSE 0

ExitCode(missed, diverged) == IF missed > 0 \/ (FailOnDivergence /\ diverged > 0) THEN 1 ELSE 0

\* The hot keys of a result that are reported.
HotKeys(r) ==
  IF HotKeyMinTxs > 0
    THEN FlattenSeq([n \in DOMAIN r.hot |-> IF r.hot[n] >= HotKeyMinTxs THEN <<r.hot[n]>> ELSE <<>>])
    ELSE <<>>

\* Mutant: canaries counted as ordinary blocks.
Classify_CanaryIgnored(canary, verdict) == IF verdict = Match THEN "ok" ELSE "divergence"

\* RunHarness's counting switch.
Classify(canary, verdict) ==
  CASE canary /\ verdict = Divergence  -> "canaryExpected"
    [] canary /\ verdict = Match       -> "canaryMissed"
    [] ~canary /\ verdict = Match      -> "ok"
    [] ~canary /\ verdict = Divergence -> "divergence"

\* Mutant: a key counts once per block.
RecordBlock_Once(c, keys) ==
  [k \in DOMAIN c \cup ToSet(keys) |->
     (IF k \in DOMAIN c THEN c[k] ELSE 0) + IF k \in ToSet(keys) THEN 1 ELSE 0]

\* Tracker.RecordBlock and StatePatternTracker.RecordBlock.
RecordBlock(c, keys) ==
  [k \in DOMAIN c \cup ToSet(keys) |->
     (IF k \in DOMAIN c THEN c[k] ELSE 0) + Cardinality({n \in DOMAIN keys : keys[n] = k})]

RecordPatterns(p, keys, ws) ==
  IF ws = <<>> THEN p
  ELSE [k \in DOMAIN p \cup ToSet(keys) |->
          (IF k \in DOMAIN p THEN p[k] ELSE {})
          \cup {IF n \in DOMAIN ws THEN ws[n] ELSE {} : n \in {m \in DOMAIN keys : keys[m] = k}}]

\* Tracker.Report.
Covered == {k \in Registered : k \in DOMAIN counts /\ counts[k] > 0}
Uncovered == Registered \ Covered

\* StatePatternReport.DistinctCount.
DistinctCount(k) == IF k \in DOMAIN patterns THEN Cardinality(patterns[k]) ELSE 0

\* report.Summary.
summary == [total |-> TotalBlocks, ok |-> okCount, divergences |-> divergenceCount,
            canaryExpected |-> canaryExpected, canaryMissed |-> canaryMissed,
            hotKeyBlocks |-> hotKeyBlocks, maxExecRatio |-> maxExecRatio,
            covered |-> Covered, uncovered |-> Uncovered]

\* "WARN: all canary blocks missed", before the summary.
CanaryWarning == canaryMissed > 0 /\ canaryExpected = 0

-------------------------------------------------------------------------------
Init ==
  /\ stores \in Corpora /\ exec \in Executors
  /\ pc = "store" /\ cur = 1 /\ pos = 0 /\ localHeight = 0 /\ blockNum = 0
  /\ okCount = 0 /\ divergenceCount = 0 /\ canaryExpected = 0 /\ canaryMissed = 0
  /\ hotKeyBlocks = 0 /\ maxExecRatio = 0 /\ reported = <<>>
  /\ counts = [k \in {} |-> 0] /\ patterns = [k \in {} |-> {}]
  /\ heights = <<>> /\ closes = [n \in DOMAIN stores |-> 0]
  /\ ephase = "closed" /\ outcomes = <<>>
  /\ exit = -1 /\ faults = MaxFaults

\* Mutants: the store is left open; its blocks are not skipped in the numbering.
SkipStore_LeftOpen ==
  /\ blockNum' = blockNum + store.count
  /\ cur' = cur + 1
  /\ UNCHANGED <<input, pc, pos, localHeight, counters, heights, closes, ephase, outcomes, exit>>
SkipStore_NotCounted ==
  /\ closes' = [closes EXCEPT ![cur] = @ + 1]
  /\ cur' = cur + 1
  /\ UNCHANGED <<input, pc, pos, localHeight, blockNum, counters, heights, ephase, outcomes, exit>>

\* The store is closed, its blocks are skipped in the numbering, the executor is not closed.
SkipStore ==
  /\ closes' = [closes EXCEPT ![cur] = @ + 1]
  /\ blockNum' = blockNum + store.count
  /\ cur' = cur + 1
  /\ UNCHANGED <<input, pc, pos, localHeight, counters, heights, ephase, outcomes, exit>>

Supported == IF store.snapshot THEN exec.state ELSE exec.genesis

\* A snapshot store and no StateInitializer, or a genesis and an Init that always fails.
Unsupported ==
  /\ pc = "store" /\ cur <= Len(stores)
  /\ ~Supported
  /\ SkipStore
  /\ UNCHANGED faults

\* InitFromState or Init fails.
InitFails ==
  /\ pc = "store" /\ cur <= Len(stores)
  /\ Supported
  /\ faults > 0 /\ faults' = faults - 1
  /\ SkipStore

InitStore ==
  /\ pc = "store" /\ cur <= Len(stores)
  /\ Supported
  /\ pc' = "iter" /\ pos' = 0 /\ localHeight' = 0
  /\ ephase' = "open" /\ heights' = <<StateHeight(store)>> /\ outcomes' = <<>>
  /\ UNCHANGED <<input, cur, blockNum, counters, closes, exit, faults>>

\* Mutant: the block's own height is ignored.
EffectiveHeight_Local(b, local) == local

EffectiveHeight(b, local) == IF b.height > 0 THEN b.height ELSE local

\* The iterator yields a block: RunBlock is called.
CallRunBlock ==
  /\ pc = "iter" /\ pos < Len(store.items) /\ store.items[pos + 1].kind = "block"
  /\ pos' = pos + 1
  /\ localHeight' = localHeight + 1
  /\ blockNum' = blockNum + 1
  /\ heights' = Append(heights, EffectiveHeight(store.items[pos + 1], localHeight + 1))
  /\ ephase' = "running"
  /\ pc' = "block"
  /\ UNCHANGED <<input, cur, counters, closes, outcomes, exit, faults>>

\* Mutant: a block that failed does not count, so that the next one takes its height.
RunBlockFails_NotCounted ==
  /\ pc = "block"
  /\ Exec!Accepts /\ ~Exec!Failed => faults > 0
  /\ faults' = IF Exec!Accepts /\ ~Exec!Failed THEN faults - 1 ELSE faults
  /\ localHeight' = localHeight - 1
  /\ ephase' = "open" /\ outcomes' = Append(outcomes, "error")
  /\ pc' = "iter"
  /\ UNCHANGED <<input, cur, pos, blockNum, counters, heights, closes, exit>>

\* RunBlock returns an error, as it must for a height the apps do not accept: the loop goes
\* on with the next block.
RunBlockFails ==
  /\ pc = "block"
  /\ Exec!Accepts /\ ~Exec!Failed => faults > 0
  /\ faults' = IF Exec!Accepts /\ ~Exec!Failed THEN faults - 1 ELSE faults
  /\ ephase' = "open" /\ outcomes' = Append(outcomes, "error")
  /\ pc' = "iter"
  /\ UNCHANGED <<input, cur, pos, localHeight, blockNum, counters, heights, closes, exit>>

\* RunBlock returns a result: coverage, rep.Block, counting.
ResultReturned(r) ==
  LET keys == IF exec.keys THEN store.items[pos].keys ELSE <<>>
      hot == HotKeys(r)
      class == Classify(store.canary, r.verdict)
  IN
  /\ pc = "block" /\ Exec!Accepts
  /\ counts' = RecordBlock(counts, keys)
  /\ patterns' = RecordPatterns(patterns, keys, r.ws)
  /\ reported' = Append(reported, [index |-> blockNum, store |-> cur, item |-> pos,
                                   canary |-> store.canary, verdict |-> r.verdict,
                                   hotKeys |-> hot, ratio |-> r.ratio])
  /\ hotKeyBlocks' = IF hot # <<>> THEN hotKeyBlocks + 1 ELSE hotKeyBlocks
  /\ maxExecRatio' = IF r.ratio > maxExecRatio THEN r.ratio ELSE maxExecRatio
  /\ canaryExpected' = IF class = "canaryExpected" THEN canaryExpected + 1 ELSE canaryExpected
  /\ canaryMissed' = IF class = "canaryMissed" THEN canaryMissed + 1 ELSE canaryMissed
  /\ okCount' = IF class = "ok" THEN okCount + 1 ELSE okCount
  /\ divergenceCount' = IF class = "divergence" THEN divergenceCount + 1 ELSE divergenceCount
  /\ ephase' = "open" /\ outcomes' = Append(outcomes, r.verdict)
  /\ pc' = "iter"
  /\ UNCHANGED <<input, cur, pos, localHeight, blockNum, heights, closes, exit, faults>>

\* Mutants: the executor is not closed; an error of the iterator does not end the loop.
CloseStore_ExecOpen ==
  /\ pc = "iter"
  /\ pos < Len(store.items) => store.items[pos + 1].kind = "error"
  /\ closes' = [closes EXCEPT ![cur] = @ + 1]
  /\ cur' = cur + 1
  /\ pc' = "store"
  /\ UNCHANGED <<input, pos, localHeight, blockNum, counters, heights, ephase, outcomes, exit, faults>>
CloseStore_NoBreak ==
  /\ pc = "iter"
  /\ pos < Len(store.items) => store.items[pos + 1].kind = "error"
  /\ IF pos < Len(store.items)
     THEN UNCHANGED <<closes, ephase, heights, cur, pc>>
     ELSE /\ closes' = [closes EXCEPT ![cur] = @ + 1]
          /\ ephase' = "closed" /\ heights' = <<>> /\ cur' = cur + 1 /\ pc' = "store"
  /\ UNCHANGED <<input, pos, localHeight, blockNum, counters, outcomes, exit, faults>>

\* The iterator is exhausted or yields an error: both leave the loop.
CloseStore ==
  /\ pc = "iter"
  /\ pos < Len(store.items) => store.items[pos + 1].kind = "error"
  /\ closes' = [closes EXCEPT ![cur] = @ + 1]
  /\ ephase' = "closed" /\ heights' = <<>>
  /\ cur' = cur + 1
  /\ pc' = "store"
  /\ UNCHANGED <<input, pos, localHeight, blockNum, counters, outcomes, exit, faults>>

\* Footer and return.
Finish ==
  /\ pc = "store" /\ cur > Len(stores)
  /\ exit' = ExitCode(canaryMissed, divergenceCount)
  /\ pc' = "done"
  /\ UNCHANGED <<input, cur, pos, localHeight, blockNum, counters, heights, closes, ephase,
                 outcomes, faults>>

Done == pc = "done" /\ UNCHANGED vars

Next ==
  \/ Unsupported \/ InitFails \/ InitStore
  \/ CallRunBlock \/ RunBlockFails \/ \E r \in Results : ResultReturned(r)
  \/ CloseStore \/ Finish \/ Done

Spec == Init /\ [][Next]_vars

\* RunHarness is one loop over finite iterators, and RunBlock returns (RunBlockReturns in
\* FixtureExecutor): every step that is possible is taken in the end.
FairSpec == Spec /\ WF_vars(Next)
-------------------------------------------------------------------------------
\* The loop's variables have their types.
TypeOK ==
  /\ pc \in {"store", "iter", "block", "done"}
  /\ cur \in 1 .. Len(stores) + 1 /\ pos \in Nat /\ localHeight \in Nat /\ blockNum \in Nat
  /\ okCount \in Nat /\ divergenceCount \in Nat /\ canaryExpected \in Nat /\ canaryMissed \in Nat
  /\ hotKeyBlocks \in Nat /\ maxExecRatio \in Nat
  /\ closes \in [DOMAIN stores -> Nat]
  /\ ephase \in {"closed", "open", "running"}
  /\ outcomes \in Seq({Match, Divergence, "error"})
  /\ exit \in {-1, 0, 1} /\ faults \in 0 .. MaxFaults

ReportedAs(P(_)) == Cardinality({n \in DOMAIN reported : P(reported[n])})

JSONBlocksWith(P(_)) == ReportedAs(LAMBDA o : P(JSONBlock(o)))

\* The summary's counters, the lines the CLI reporter printed, the sections of the
\* Markdown report and the blocks of the JSON report tell the same story: each counter can
\* be recounted from the blocks in every format, the Perf line and the ratio's row appear
\* if some block had such a line, and the warning if canaries ran and none was caught.
SummaryMatchesReports ==
  /\ okCount = ReportedAs(LAMBDA o : CLILine(o) = "ok")
  /\ canaryMissed = ReportedAs(LAMBDA o : CLILine(o) = "CANARY MISSED")
  /\ canaryMissed = ReportedAs(LAMBDA o : "Missed Canaries" \in MarkdownSections(o))
  /\ divergenceCount + canaryExpected = ReportedAs(LAMBDA o : CLILine(o) = "DIVERGENCE")
  /\ divergenceCount + canaryExpected = ReportedAs(LAMBDA o : "Divergences" \in MarkdownSections(o))
  /\ hotKeyBlocks = ReportedAs(LAMBDA o : "Hot Conflict Keys" \in MarkdownSections(o))
  /\ LET js == JSONSummary(summary)
     IN  /\ js.ok = JSONBlocksWith(LAMBDA b : ~b.is_canary /\ b.verdict = Match)
         /\ js.divergences = JSONBlocksWith(LAMBDA b : ~b.is_canary /\ b.verdict = Divergence)
         /\ js.canary_expected = JSONBlocksWith(LAMBDA b : b.is_canary /\ b.verdict = Divergence)
         /\ js.canary_missed = JSONBlocksWith(LAMBDA b : b.is_canary /\ b.verdict = Match)
         /\ js.hot_key_blocks = JSONBlocksWith(LAMBDA b : b.hot_keys # <<>>)
         /\ JSONBlocksWith(LAMBDA b : b.execution_ratio > js.max_execution_ratio) = 0
  /\ CLIShowsPerf(summary) <=> ReportedAs(LAMBDA o : CLIPerf(o) # <<>>) > 0
  /\ MarkdownShowsRatio(summary) <=> ReportedAs(LAMBDA o : o.ratio > 0) > 0
  /\ CanaryWarning <=> /\ ReportedAs(LAMBDA o : o.canary) > 0
                       /\ ReportedAs(LAMBDA o : o.canary /\ CLILine(o) # "CANARY MISSED") = 0

\* Every block reported is counted once, in one of the four verdict counters.
EveryReportCounted ==
  okCount + divergenceCount + canaryExpected + canaryMissed = Len(reported)

Missed(o) == o.canary /\ o.verdict = Match
Diverged(o) == ~o.canary /\ o.verdict = Divergence

\* The process fails exactly when some reported block is a missed canary, or a divergence
\* outside the canaries that the configuration says to fail on.
ExitReflectsReports ==
  pc = "done" =>
    (exit = 1 <=> \E n \in DOMAIN reported :
                     \/ Missed(reported[n])
                     \/ FailOnDivergence /\ Diverged(reported[n]))

\* Every store is closed exactly once, whichever way its turn ends, and the executor is
\* open exactly while a store's blocks run.
ResourcesReleased ==
  /\ \A n \in DOMAIN stores : closes[n] = IF n < cur THEN 1 ELSE 0
  /\ ephase # "closed" <=> pc \in {"iter", "block"}

Whole(s) == Len(s.items) = s.count /\ \A n \in DOMAIN s.items : s.items[n].kind = "block"

\* "[Index/Total]": the indices of the reported blocks increase, none exceeds Total, and
\* each is the block's position in the whole corpus, also after stores that failed to
\* initialise, as long as the stores before it yield the blocks they announce.
IndexIsPosition ==
  \A n \in DOMAIN reported :
    LET o == reported[n]
    IN  /\ o.index <= TotalBlocks
        /\ \A m \in 1 .. n - 1 : reported[m].index < o.index
        /\ (\A k \in 1 .. o.store - 1 : Whole(stores[k])) => o.index = BlocksUpTo(o.store - 1) + o.item

\* The height the corpus gives the n-th block of a store: its own, or its position.
HeightIn(s, n) == IF s.items[n].height > 0 THEN s.items[n].height ELSE n

\* The heights of a store follow one another, as they do without heights of its own.
Regular(s) ==
  \A n \in DOMAIN s.items : s.items[n].kind = "block" => HeightIn(s, n) = StateHeight(s) + n

\* The blocks reported of a store are its first ones, in order: nothing is reported that
\* was computed on top of a block that failed.  (Where a fixture's heights jump, the apps
\* refuse a block and may accept a later one that has the height they expect.)
ReportedPrefix ==
  \A n \in DOMAIN reported :
    Regular(stores[reported[n].store]) /\ reported[n].item > 1 =>
      n > 1 /\ reported[n - 1].store = reported[n].store /\ reported[n - 1].item = reported[n].item - 1

\* Whatever mixture of own and counted heights a store has and whichever calls fail, the
\* blocks reported of it are a chain: by the corpus their heights are consecutive, from the
\* one after the state it was opened with.
HeightsFollowCorpus ==
  \A n \in DOMAIN reported :
    LET o == reported[n]
        s == stores[o.store]
    IN  IF n > 1 /\ reported[n - 1].store = o.store
          THEN HeightIn(s, o.item) = HeightIn(s, reported[n - 1].item) + 1
          ELSE HeightIn(s, o.item) = StateHeight(s) + 1

\* The transactions with key k in the blocks reported.
KeysOf(o, k) ==
  LET keys == stores[o.store].items[o.item].keys IN Cardinality({m \in DOMAIN keys : keys[m] = k})
KeysReported(k) == SumUpTo([n \in DOMAIN reported |-> KeysOf(reported[n], k)], Len(reported))

\* coverage.go: the tracker "accumulates which message types were executed across a run":
\* with an executor that names its messages, the CLI's coverage lines mark exactly the
\* registered keys that no reported block holds, the others have their number of
\* transactions, and no more write-set patterns than transactions.
CoverageOfExecuted ==
  exec.keys =>
    \A k \in Registered :
      /\ <<"!", k>> \in CLICoverage(summary) <=> KeysReported(k) = 0
      /\ <<" ", k>> \in CLICoverage(summary) => counts[k] = KeysReported(k)
      /\ DistinctCount(k) <= KeysReported(k)

\* RunHarness returns.
RunHarnessTerminates == <>(pc = "done")

\* The harness keeps to the executor's contract: Init only on a closed executor, RunBlock
\* only on an open one, Close after every successful Init.
FollowsContract == Exec!CSpec
================================================================================
