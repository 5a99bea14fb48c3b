--------------------------- MODULE SnapshotExecutor ---------------------------
(***************************************************************************)
(* run.SnapshotExecutor and run.PruneSnapshot: replay of mainnet blocks on  *)
(* two copies of a snapshot's application.db.                               *)
(*                                                                         *)
(* A database is [versions, latest]: the IAVL versions it holds and the     *)
(* version its metadata calls the latest one.  InitFromState prunes the     *)
(* snapshot's own database, copies it twice, opens the copies and pins both *)
(* apps to the version before the first block; each of these is a step that *)
(* may fail, and the process may die between two steps.  How a block        *)
(* executes is FixtureExecutor's subject: here a FinalizeBlock returns and  *)
(* the verdict is any.  The `snapshot prune` command makes the same          *)
(* PruneSnapshot call from a process of its own, between two ranges.        *)
(***************************************************************************)
EXTENDS Integers, Sequences, FiniteSets, FiniteSetsExt

CONSTANTS
  Starts,            \* meta.Start of the ranges replayed from the one snapshot
  SourceVersions,    \* IAVL versions in the snapshot as extracted
  Targets,           \* --target-version given to `snapshot prune`; negative: from range.json
  ConflictDetection, \* e.conflictDetection
  MaxInits,          \* bound: InitFromState calls and `snapshot prune` commands
  MaxBlocks,         \* bound: RunBlock calls per store
  MaxFaults,         \* bound: steps that fail
  MaxCrashes         \* bound: deaths of the process

ASSUME SnapshotAssumption ==
  /\ Starts \subseteq Int /\ Targets \subseteq Int
  /\ SourceVersions \subseteq Nat \ {0} /\ SourceVersions # {} /\ IsFiniteSet(SourceVersions)
  /\ ConflictDetection \in BOOLEAN
  /\ {MaxInits, MaxBlocks, MaxFaults, MaxCrashes} \subseteq Nat

Apps == {"oracle", "probe"}
Verdicts == {"MATCH", "DIVERGENCE"}

NoDB == [versions |-> {}, latest |-> -1]
ExtractedDB == [versions |-> SourceVersions, latest |-> Max(SourceVersions)]

VARIABLES
  pc,        \* "closed", the phases below, "idle", or the app that runs
  start,     \* meta.Start of the current or last InitFromState call
  target,    \* targetVersion of the current or last PruneSnapshot call
  source,    \* snapshotDir/application.db
  dbs,       \* e.oracleDB, e.probeDB: the open copies
  temps,     \* e.oracleDBTemp, e.probeDBTemp: apps whose temp dir exists
  leaked,    \* temp dirs left behind by processes that died
  height,    \* version each app is at
  trackers,  \* e.oracleTrackers: the InitFromState call each tracker belongs to
  attached,  \* what the apps' SetLifecycleObserver was last given: "block" or "noop"
  observers, \* process-global probe observers installed: subset of {"conflict", "stats"}
  results,   \* one outcome per RunBlock call of this store
  inits, faults, crashes

\* What is left to do in InitFromState, and in the prune command.
InitPhases == {"prune", "flush", "stageOracle", "stageProbe", "loadOracle", "loadProbe"}
CommandPhases == {"commandPrune", "commandFlush"}

hooks == <<attached, observers>>
budget == <<inits, faults, crashes>>
vars == <<pc, start, target, source, dbs, temps, leaked, height, trackers, hooks, results, budget>>

loadVersion == start - 1
\* Mutant: the height advances only with a verdict.
BlockHeight_SuccessOnly == start + Cardinality({n \in DOMAIN results : results[n] # "error"})
BlockHeight == start + Len(results)    \* Block.Height of the corpus: consecutive from Start

-------------------------------------------------------------------------------
(* app.LoadVersion and RollbackToVersion; version 0 loads an empty store.    *)

Loadable(db, v) == v = 0 \/ v \in db.versions

UpTo(S, v) == {w \in S : w <= v}

\* Mutants: the latest version is read after LoadVersion, when it is v; the rollback also
\* deletes its target.
RollsBack_ReadLate(db, v) == v > 0 /\ v > v
UpTo_Exclusive(S, v) == {w \in S : w < v}

\* loadAndTruncate's guard: the on-disk latest version was read before LoadVersion.
RollsBack(db, v) == v > 0 /\ db.latest > v

RolledBack(S, v) == UpTo(S, v)

loadAndTruncate(db, v) ==
  IF RollsBack(db, v) THEN [versions |-> RolledBack(db.versions, v), latest |-> v] ELSE db

-------------------------------------------------------------------------------
Init ==
  /\ pc = "closed" /\ start = 0 /\ target = 0
  /\ source = ExtractedDB
  /\ dbs = [a \in Apps |-> NoDB] /\ temps = {} /\ leaked = 0
  /\ height = [a \in Apps |-> 0] /\ trackers = <<>>
  /\ attached = "noop" /\ observers = {} /\ results = <<>>
  /\ inits = 0 /\ faults = MaxFaults /\ crashes = MaxCrashes

\* cleanup(): close what is open, remove the temp dirs.
cleanup == dbs' = [a \in Apps |-> NoDB] /\ temps' = {}

\* meta.Start <= 0 is refused.
InitRefused(s) ==
  /\ pc = "closed" /\ inits < MaxInits /\ s <= 0
  /\ inits' = inits + 1
  /\ UNCHANGED <<pc, start, target, source, dbs, temps, leaked, height, trackers, hooks, results, faults,
                 crashes>>

\* InitFromState(dir, meta) with meta.Start = s: there is nothing to prune to before block 1.
InitFromState(s) ==
  /\ pc = "closed" /\ inits < MaxInits /\ s > 0
  /\ inits' = inits + 1
  /\ start' = s /\ target' = s - 1
  /\ pc' = IF s > 1 THEN "prune" ELSE "stageOracle"
  /\ UNCHANGED <<source, dbs, temps, leaked, height, trackers, hooks, results, faults, crashes>>

\* The command: a negative --target-version is inferred from range.json, whose Start is s
\* (LoadRangeMeta refuses Start <= 0); version 0 and below have nothing to roll back.
SnapshotPruneCommand(t, s) ==
  /\ pc = "closed" /\ inits < MaxInits
  /\ t < 0 => s > 0
  /\ inits' = inits + 1
  /\ target' = IF t < 0 THEN s - 1 ELSE t
  /\ pc' = "commandPrune"
  /\ UNCHANGED <<start, source, dbs, temps, leaked, height, trackers, hooks, results, faults,
                 crashes>>

\* PruneSnapshot on the source: the stores are rolled back first, the metadata follows.
PruneSnapshot(from, flush, to) ==
  /\ pc = from /\ Loadable(source, target)
  /\ IF RollsBack(source, target)
       THEN /\ source' = [source EXCEPT !.versions = RolledBack(@, target)]
            /\ pc' = flush
       ELSE /\ pc' = to
            /\ UNCHANGED source
  /\ UNCHANGED <<start, target, dbs, temps, leaked, height, trackers, hooks, results, budget>>

FlushMetadata(from, to) ==
  /\ pc = from
  /\ source' = [source EXCEPT !.latest = target]
  /\ pc' = to
  /\ UNCHANGED <<start, target, dbs, temps, leaked, height, trackers, hooks, results, budget>>

Prune == PruneSnapshot("prune", "flush", "stageOracle")
PruneFlush == FlushMetadata("flush", "stageOracle")
CommandPrune == PruneSnapshot("commandPrune", "commandFlush", "closed")
CommandFlush == FlushMetadata("commandFlush", "closed")

\* copyAndOpenApplicationDB for a.
Stage(a, from, to) ==
  /\ pc = from
  /\ dbs' = [dbs EXCEPT ![a] = source]
  /\ temps' = temps \cup {a}
  /\ pc' = to
  /\ UNCHANGED <<start, target, source, leaked, height, trackers, hooks, results, budget>>

StageOracle == Stage("oracle", "stageOracle", "stageProbe")
StageProbe == Stage("probe", "stageProbe", "loadOracle")

\* The oracle app is created on its copy and pinned; its trackers are appended.
LoadOracle ==
  /\ pc = "loadOracle" /\ Loadable(dbs["oracle"], loadVersion)
  /\ dbs' = [dbs EXCEPT !["oracle"] = loadAndTruncate(@, loadVersion)]
  /\ trackers' = Append(trackers, inits)
  /\ pc' = "loadProbe"
  /\ UNCHANGED <<start, target, source, temps, leaked, height, hooks, results, budget>>

\* The same for the probe; InitFromState returns nil.
LoadProbe ==
  /\ pc = "loadProbe" /\ Loadable(dbs["probe"], loadVersion)
  /\ dbs' = [dbs EXCEPT !["probe"] = loadAndTruncate(@, loadVersion)]
  /\ height' = [a \in Apps |-> loadVersion]
  /\ results' = <<>>
  /\ pc' = "idle"
  /\ UNCHANGED <<start, target, source, temps, leaked, trackers, hooks, budget>>

NotLoadable ==
  \/ pc \in {"prune", "commandPrune"} /\ ~Loadable(source, target)
  \/ pc = "loadOracle" /\ ~Loadable(dbs["oracle"], loadVersion)
  \/ pc = "loadProbe" /\ ~Loadable(dbs["probe"], loadVersion)

\* Mutant: the error path after the first copy does not clean up.
InitError_NoCleanup ==
  /\ pc \in InitPhases \cup CommandPhases
  /\ NotLoadable \/ faults > 0
  /\ faults' = IF NotLoadable THEN faults ELSE faults - 1
  /\ IF pc = "stageProbe" THEN UNCHANGED <<dbs, temps>> ELSE cleanup
  /\ pc' = "closed"
  /\ UNCHANGED <<start, target, source, leaked, height, trackers, hooks, results, inits, crashes>>

\* A step of InitFromState or of the command fails: the version is not there, or I/O or the factory fails.
InitError ==
  /\ pc \in InitPhases \cup CommandPhases
  /\ NotLoadable \/ faults > 0
  /\ faults' = IF NotLoadable THEN faults ELSE faults - 1
  /\ cleanup
  /\ pc' = "closed"
  /\ UNCHANGED <<start, target, source, leaked, height, trackers, hooks, results, inits, crashes>>

Close ==
  /\ pc = "idle"
  /\ cleanup
  /\ trackers' = <<>>
  /\ pc' = "closed"
  /\ UNCHANGED <<start, target, source, leaked, height, hooks, results, budget>>

-------------------------------------------------------------------------------
\* RunBlock up to compare.Run.
BeginBlock ==
  /\ pc = "idle" /\ Len(results) < MaxBlocks
  /\ attached' = "block"
  /\ pc' = "oracle"
  /\ UNCHANGED <<start, target, source, dbs, temps, leaked, height, trackers, observers, results, budget>>

HeightOK == BlockHeight = height[pc] + 1

\* The oracle's FinalizeBlock returns; PostOracleHook.
OracleDone ==
  /\ pc = "oracle" /\ HeightOK
  /\ observers' = {"stats"} \cup (IF ConflictDetection THEN {"conflict"} ELSE {})
  /\ pc' = "probe"
  /\ UNCHANGED <<start, target, source, dbs, temps, leaked, height, trackers, attached, results, budget>>

Detach == observers' = {} /\ attached' = "noop" /\ pc' = "idle"

\* FinalizeBlock of either app refuses the height, or fails.
FinalizeFails ==
  /\ pc \in Apps
  /\ HeightOK => faults > 0
  /\ faults' = IF HeightOK THEN faults - 1 ELSE faults
  /\ results' = Append(results, "error")
  /\ Detach
  /\ UNCHANGED <<start, target, source, dbs, temps, leaked, height, trackers, inits, crashes>>

\* Commit of the oracle, then of the probe; failing is the first that fails, or "none".
Committed(failing) == CASE failing = "none"   -> Apps
                        [] failing = "probe"  -> {"oracle"}
                        [] failing = "oracle" -> {}

\* SaveVersion of the next version.
Commit(db, v) == [versions |-> db.versions \cup {v}, latest |-> v]

\* The probe's FinalizeBlock returns; the comparison; the commits.
ProbeDone(failing, verdict) ==
  /\ pc = "probe" /\ HeightOK
  /\ failing # "none" => faults > 0
  /\ faults' = IF failing = "none" THEN faults ELSE faults - 1
  /\ height' = [a \in Apps |-> IF a \in Committed(failing) THEN height[a] + 1 ELSE height[a]]
  /\ dbs' = [a \in Apps |-> IF a \in Committed(failing) THEN Commit(dbs[a], height[a] + 1) ELSE dbs[a]]
  /\ results' = Append(results, IF failing = "none" THEN verdict ELSE "error")
  /\ Detach
  /\ UNCHANGED <<start, target, source, temps, leaked, trackers, inits, crashes>>

\* The process dies: the operating system closes the handles, the temp dirs stay.
Crash ==
  /\ pc # "closed" /\ crashes > 0
  /\ crashes' = crashes - 1
  /\ leaked' = leaked + Cardinality(temps)
  /\ cleanup
  /\ trackers' = <<>> /\ attached' = "noop" /\ observers' = {}
  /\ pc' = "closed"
  /\ UNCHANGED <<start, target, source, height, results, inits, faults>>

Done == pc = "closed" /\ inits = MaxInits /\ UNCHANGED vars

Next ==
  \/ \E s \in Starts : InitFromState(s) \/ InitRefused(s)
  \/ \E t \in Targets, s \in Starts : SnapshotPruneCommand(t, s)
  \/ CommandPrune \/ CommandFlush
  \/ Prune \/ PruneFlush \/ StageOracle \/ StageProbe \/ LoadOracle \/ LoadProbe \/ InitError \/ Close
  \/ BeginBlock \/ OracleDone \/ FinalizeFails
  \/ \E failing \in Apps \cup {"none"}, verdict \in Verdicts : ProbeDone(failing, verdict)
  \/ Crash \/ Done

Spec == Init /\ [][Next]_vars

-------------------------------------------------------------------------------
Running == pc \in Apps \cup {"idle"}
Failed == \E n \in DOMAIN results : results[n] = "error"

\* Outside a store nothing is held: no open database, no temp dir of this process, no
\* observer, whichever step failed; the probe's observers exist only while it runs.
NothingHeld ==
  /\ pc = "closed" => temps = {} /\ \A a \in Apps : dbs[a] = NoDB
  /\ attached = "block" <=> pc \in Apps
  /\ observers # {} => pc = "probe"

\* Both apps are pinned to the version before the first block, on copies that hold nothing
\* above it, however often the snapshot was pruned and whatever died meanwhile; every
\* Commit therefore saves a version the copy does not hold yet.  A range from block 1 loads
\* version 0, which nothing is rolled back to: there only the heights are claimed.
CopiesPinned ==
  Running => \A a \in Apps :
    /\ loadVersion > 0 => /\ \A v \in dbs[a].versions : v <= height[a]
                          /\ dbs[a].latest = height[a]
    /\ ~Failed => height[a] = BlockHeight - 1

\* Pruning keeps the version it was asked for and everything before it: a range whose
\* InitFromState or whose prune command was interrupted at any point can be replayed again.
PrestateKept ==
  [][\A v \in source.versions : v <= target' => v \in source'.versions]_vars

\* "the original snapshot directory is never mutated, keeping it reusable across test runs"
SnapshotNeverMutated == source = ExtractedDB

\* The version loaded and the heights of the calls.
Asked ==
  IF Running THEN [n \in 1 .. Len(results) + IF pc = "idle" THEN 1 ELSE 2 |-> loadVersion + n - 1]
  ELSE <<>>

Contract == INSTANCE ExecutorContract
              WITH phase    <- IF pc \in Apps THEN "running" ELSE IF pc = "idle" THEN "open" ELSE "closed",
                   heights  <- Asked,
                   outcomes <- results

\* Seen from the harness, the executor is an ExecutorContract, whichever process dies when.
ImplementsContract == Contract!CSpec
================================================================================
