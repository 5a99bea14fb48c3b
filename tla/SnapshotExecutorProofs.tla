------------------------ MODULE SnapshotExecutorProofs ------------------------
(***************************************************************************)
(* Proofs about SnapshotExecutor, for every snapshot, every set of ranges,  *)
(* every --target-version and any number of calls, faults and deaths.       *)
(***************************************************************************)
EXTENDS SnapshotExecutor, DataLemmas

DB == [versions : SUBSET Int, latest : Int]

\* Where the executor can be, and the shape of what the proofs reason about.
ControlOK ==
  /\ pc \in {"closed", "idle"} \cup Apps \cup InitPhases \cup CommandPhases
  /\ start \in Int /\ target \in Int
  /\ source \in DB /\ dbs \in [Apps -> DB] /\ height \in [Apps -> Int]
  /\ temps \subseteq Apps
  /\ results \in Seq(Verdicts \cup {"error"})

\* No version is above the one the metadata calls the latest.
Bounded(db) == \A v \in db.versions : v <= db.latest

\* A pinned database: v is its latest version and it holds nothing above.
Pinned(db, v) == db.latest = v /\ \A w \in db.versions : w <= v

\* The databases on the way from the snapshot to two pinned copies.  The rollback of the
\* stores comes before that of the metadata, so a death in between leaves a metadata that
\* is too high, never one that is too low: that is what makes a second attempt roll back.
StagingInv ==
  /\ Bounded(source)
  /\ pc \in {"flush", "commandFlush"} => \A v \in source.versions : v <= target
  /\ pc \notin Apps \cup {"idle"} => \A a \in Apps : Bounded(dbs[a])
  /\ pc = "loadProbe" /\ loadVersion > 0 => Pinned(dbs["oracle"], loadVersion)

\* Nothing is held outside a store, nor by the command's own process.
HoldInv ==
  /\ NothingHeld
  /\ pc \in CommandPhases => temps = {} /\ \A a \in Apps : dbs[a] = NoDB

\* The heights of a running store: in step until a call fails, never ahead of the corpus,
\* and the probe behind it for good after a failure.
HeightInv ==
  pc \in Apps \cup {"idle"} =>
    /\ \A a \in Apps : height[a] <= BlockHeight - 1
    /\ IF Failed THEN height["probe"] < BlockHeight - 1
                 ELSE \A a \in Apps : height[a] = BlockHeight - 1
    /\ loadVersion > 0 => \A a \in Apps : Pinned(dbs[a], height[a])

IInv == ControlOK /\ StagingInv /\ HoldInv /\ HeightInv

-------------------------------------------------------------------------------
\* The outcomes after a RunBlock call: one more, and failed if it or an earlier one is.
LEMMA AppendOutcome ==
  ASSUME results \in Seq(Verdicts \cup {"error"}), NEW r \in Verdicts \cup {"error"},
         results' = Append(results, r)
  PROVE  /\ results' \in Seq(Verdicts \cup {"error"})
         /\ Len(results') = Len(results) + 1 /\ Len(results) \in Nat
         /\ Failed' <=> Failed \/ r = "error"
<1>1. /\ results' \in Seq(Verdicts \cup {"error"})
      /\ Len(results') = Len(results) + 1 /\ Len(results) \in Nat
      /\ DOMAIN results = 1 .. Len(results) /\ DOMAIN results' = 1 .. Len(results) + 1
      /\ results'[Len(results) + 1] = r
      /\ \A n \in 1 .. Len(results) : results'[n] = results[n]
  OBVIOUS
<1>2. QED  BY <1>1 DEF Failed

\* The snapshot as extracted: its latest version is its greatest.
LEMMA ExtractedBounded == ExtractedDB \in DB /\ Bounded(ExtractedDB)
<1>1. /\ SourceVersions \subseteq Int /\ SourceVersions # {} /\ IsFiniteSet(SourceVersions)
  BY SnapshotAssumption
<1>2. Max(SourceVersions) \in SourceVersions /\ \A v \in SourceVersions : v <= Max(SourceVersions)
  BY <1>1, MaxOfFinite
<1>3. QED  BY <1>1, <1>2 DEF ExtractedDB, DB, Bounded

\* Before the first call nothing is staged, held or open.
LEMMA InitIInv == Init => IInv
<1> SUFFICES ASSUME Init PROVE IInv  OBVIOUS
<1>1. ControlOK
  BY ExtractedBounded DEF Init, ControlOK, Apps, NoDB, DB
<1>2. StagingInv
  BY ExtractedBounded DEF Init, StagingInv, Bounded, Apps, NoDB
<1>3. HoldInv /\ HeightInv
  BY DEF Init, HoldInv, HeightInv, NothingHeld, Apps, CommandPhases
<1>4. QED  BY <1>1, <1>2, <1>3 DEF IInv

\* Rolling back keeps a database well-typed and pins a loadable version above 0.
LEMMA Truncated ==
  ASSUME NEW db \in DB, NEW v \in Int, Bounded(db)
  PROVE  /\ loadAndTruncate(db, v) \in DB
         /\ Bounded(loadAndTruncate(db, v))
         /\ v > 0 /\ Loadable(db, v) => Pinned(loadAndTruncate(db, v), v)
BY DEF DB, Bounded, Pinned, Loadable, loadAndTruncate, RollsBack, RolledBack, UpTo

\* One step keeps the types of the phase, the databases, the heights and the results.
LEMMA ControlNext == IInv /\ Next => ControlOK'
<1> SUFFICES ASSUME IInv, Next PROVE ControlOK'  OBVIOUS
<1> USE SnapshotAssumption DEF ControlOK
<1>0. ControlOK /\ StagingInv  BY DEF IInv
<1>1. ASSUME NEW s \in Starts, InitFromState(s) \/ InitRefused(s) PROVE ControlOK'
  <2>1. s \in Int /\ s - 1 \in Int  OBVIOUS
  <2>2. pc' \in {"closed"} \cup InitPhases
    BY <1>1 DEF InitFromState, InitRefused, InitPhases
  <2>3. QED  BY <1>0, <1>1, <2>1, <2>2 DEF InitFromState, InitRefused
<1>2. ASSUME NEW t \in Targets, NEW s \in Starts, SnapshotPruneCommand(t, s) PROVE ControlOK'
  BY <1>0, <1>2 DEF SnapshotPruneCommand, CommandPhases
<1>3. CASE CommandPrune \/ Prune
  BY <1>0, <1>3 DEF CommandPrune, Prune, PruneSnapshot, RolledBack, UpTo, DB, InitPhases, CommandPhases
<1>4. CASE CommandFlush \/ PruneFlush
  BY <1>0, <1>4 DEF CommandFlush, PruneFlush, FlushMetadata, DB, InitPhases
<1>5. CASE StageOracle \/ StageProbe
  BY <1>0, <1>5 DEF StageOracle, StageProbe, Stage, Apps, InitPhases
<1>6. CASE LoadOracle
  <2>1. loadAndTruncate(dbs["oracle"], loadVersion) \in DB
    BY <1>0, <1>6, Truncated DEF LoadOracle, StagingInv, Apps, loadVersion
  <2>2. QED  BY <1>0, <1>6, <2>1 DEF LoadOracle, InitPhases
<1>7. CASE LoadProbe
  <2>1. loadAndTruncate(dbs["probe"], loadVersion) \in DB
    BY <1>0, <1>7, Truncated DEF LoadProbe, StagingInv, Apps, loadVersion
  <2>2. loadVersion \in Int  BY <1>0 DEF loadVersion
  <2>3. height' \in [Apps -> Int] /\ dbs' \in [Apps -> DB]
    BY <1>0, <1>7, <2>1, <2>2 DEF LoadProbe
  <2>4. QED  BY <1>0, <1>7, <2>3 DEF LoadProbe
<1>8. CASE InitError \/ Close \/ Crash
  BY <1>0, <1>8 DEF InitError, Close, Crash, cleanup, NoDB, DB
<1>9. CASE BeginBlock \/ OracleDone
  BY <1>0, <1>9 DEF BeginBlock, OracleDone, Apps
<1>10. CASE FinalizeFails
  BY <1>0, <1>10 DEF FinalizeFails, Detach
<1>11. ASSUME NEW failing \in Apps \cup {"none"}, NEW verdict \in Verdicts, ProbeDone(failing, verdict)
       PROVE  ControlOK'
  <2>1. \A a \in Apps : height[a] + 1 \in Int /\ Commit(dbs[a], height[a] + 1) \in DB
    BY <1>0 DEF Commit, DB
  <2>2. height' \in [Apps -> Int] /\ dbs' \in [Apps -> DB]
    BY <1>0, <1>11, <2>1 DEF ProbeDone
  <2>3. results' \in Seq(Verdicts \cup {"error"})
    BY <1>0, <1>11 DEF ProbeDone
  <2>4. QED  BY <1>0, <1>11, <2>2, <2>3 DEF ProbeDone, Detach
<1>12. CASE Done
  BY <1>0, <1>12 DEF Done, vars
<1>13. QED
  BY <1>1, <1>2, <1>3, <1>4, <1>5, <1>6, <1>7, <1>8, <1>9, <1>10, <1>11, <1>12 DEF Next

\* Every step but the two of PruneSnapshot leaves the snapshot's database alone.
LEMMA StagingNext == IInv /\ Next => StagingInv'
<1> SUFFICES ASSUME IInv, Next PROVE StagingInv'  OBVIOUS
<1> USE DEF StagingInv, Apps
<1>0. ControlOK /\ StagingInv  BY DEF IInv
<1>1. ASSUME NEW s \in Starts, InitFromState(s) \/ InitRefused(s) PROVE StagingInv'
  <2>1. pc' \in {"closed", "prune", "stageOracle"}
    BY <1>1 DEF InitFromState, InitRefused
  <2>2. QED  BY <1>0, <1>1, <2>1 DEF InitFromState, InitRefused
<1>2. ASSUME NEW t \in Targets, NEW s \in Starts, SnapshotPruneCommand(t, s) PROVE StagingInv'
  BY <1>0, <1>2 DEF SnapshotPruneCommand
<1>3. CASE CommandPrune \/ Prune
  <2>1. /\ pc \in {"prune", "commandPrune"} /\ UNCHANGED <<dbs, target, start>>
        /\ pc' \in {"flush", "commandFlush", "stageOracle", "closed"}
    BY <1>3 DEF CommandPrune, Prune, PruneSnapshot
  <2>2. CASE RollsBack(source, target)
    <3>1. /\ source'.latest = source.latest
          /\ source'.versions = {w \in source.versions : w <= target}
      BY <1>0, <1>3, <2>2 DEF CommandPrune, Prune, PruneSnapshot, RolledBack, UpTo, ControlOK, DB
    <3>2. Bounded(source') /\ \A v \in source'.versions : v <= target'
      BY <1>0, <2>1, <3>1 DEF Bounded
    <3>3. QED  BY <1>0, <2>1, <3>2 DEF Bounded
  <2>3. CASE ~RollsBack(source, target)
    <3>1. source' = source /\ pc' \in {"stageOracle", "closed"}
      BY <1>3, <2>3 DEF CommandPrune, Prune, PruneSnapshot
    <3>2. QED  BY <1>0, <2>1, <3>1
  <2>4. QED  BY <2>2, <2>3
<1>4. CASE CommandFlush \/ PruneFlush
  <2>1. /\ pc \in {"flush", "commandFlush"} /\ UNCHANGED dbs /\ pc' \in {"stageOracle", "closed"}
        /\ source' = [source EXCEPT !.latest = target]
    BY <1>4 DEF CommandFlush, PruneFlush, FlushMetadata
  <2>2. source'.latest = target /\ source'.versions = source.versions
    BY <1>0, <2>1 DEF ControlOK, DB
  <2>3. Bounded(source')  BY <1>0, <2>1, <2>2 DEF Bounded
  <2>4. QED  BY <1>0, <2>1, <2>3
<1>5. CASE StageOracle \/ StageProbe
  <2>1. /\ pc' \in {"stageProbe", "loadOracle"} /\ UNCHANGED source
        /\ \A a \in Apps : dbs'[a] = dbs[a] \/ dbs'[a] = source
    BY <1>0, <1>5 DEF StageOracle, StageProbe, Stage, ControlOK
  <2>2. pc \notin Apps \cup {"idle"}
    BY <1>5 DEF StageOracle, StageProbe, Stage
  <2>3. QED  BY <1>0, <2>1, <2>2 DEF Bounded
<1>6. CASE LoadOracle
  <2>1. /\ Bounded(dbs["oracle"]) /\ Bounded(dbs["probe"]) /\ dbs["oracle"] \in DB /\ loadVersion \in Int
        /\ Loadable(dbs["oracle"], loadVersion)
    BY <1>0, <1>6 DEF LoadOracle, ControlOK, loadVersion
  <2>2. /\ Bounded(loadAndTruncate(dbs["oracle"], loadVersion))
        /\ loadVersion > 0 => Pinned(loadAndTruncate(dbs["oracle"], loadVersion), loadVersion)
    BY <2>1, Truncated
  <2>3. /\ dbs'["oracle"] = loadAndTruncate(dbs["oracle"], loadVersion) /\ dbs'["probe"] = dbs["probe"]
        /\ UNCHANGED <<source, start>> /\ pc' = "loadProbe"
    BY <1>0, <1>6 DEF LoadOracle, ControlOK
  <2>4. QED  BY <1>0, <2>1, <2>2, <2>3 DEF loadVersion
<1>7. CASE LoadProbe
  BY <1>0, <1>7 DEF LoadProbe
<1>8. CASE InitError \/ Close \/ Crash
  BY <1>0, <1>8 DEF InitError, Close, Crash, cleanup, NoDB, Bounded
<1>9. CASE BeginBlock \/ OracleDone \/ FinalizeFails
  BY <1>0, <1>9 DEF BeginBlock, OracleDone, FinalizeFails, Detach
<1>10. ASSUME NEW failing \in Apps \cup {"none"}, NEW verdict \in Verdicts, ProbeDone(failing, verdict)
       PROVE  StagingInv'
  BY <1>0, <1>10 DEF ProbeDone, Detach
<1>11. CASE Done
  BY <1>0, <1>11 DEF Done, vars, loadVersion
<1>12. QED
  BY <1>1, <1>2, <1>3, <1>4, <1>5, <1>6, <1>7, <1>8, <1>9, <1>10, <1>11 DEF Next

\* One step keeps the account of the files, databases and copies that are held.
LEMMA HoldNext == IInv /\ Next => HoldInv'
<1> SUFFICES ASSUME IInv, Next PROVE HoldInv'  OBVIOUS
<1> USE DEF HoldInv, NothingHeld, Apps, CommandPhases
<1>0. ControlOK /\ HoldInv  BY DEF IInv
<1>1. ASSUME NEW s \in Starts, InitFromState(s) \/ InitRefused(s) PROVE HoldInv'
  <2>1. pc' \in {"prune", "stageOracle"} \/ pc' = pc
    BY <1>1 DEF InitFromState, InitRefused
  <2>2. QED  BY <1>0, <1>1, <2>1 DEF InitFromState, InitRefused, hooks
<1>2. ASSUME NEW t \in Targets, NEW s \in Starts, SnapshotPruneCommand(t, s) PROVE HoldInv'
  BY <1>0, <1>2 DEF SnapshotPruneCommand, hooks
<1>3. CASE CommandPrune \/ Prune
  <2>1. \/ pc = "commandPrune" /\ pc' \in {"commandFlush", "closed"}
        \/ pc = "prune" /\ pc' \in {"flush", "stageOracle"}
    BY <1>3 DEF CommandPrune, Prune, PruneSnapshot
  <2>2. UNCHANGED <<dbs, temps, attached, observers>>
    BY <1>3 DEF CommandPrune, Prune, PruneSnapshot, hooks
  <2>3. QED  BY <1>0, <2>1, <2>2
<1>4. CASE CommandFlush \/ PruneFlush
  BY <1>0, <1>4 DEF CommandFlush, PruneFlush, FlushMetadata, hooks
<1>5. CASE StageOracle \/ StageProbe \/ LoadOracle \/ LoadProbe
  BY <1>0, <1>5 DEF StageOracle, StageProbe, Stage, LoadOracle, LoadProbe, hooks
<1>6. CASE InitError \/ Close \/ Crash
  BY <1>0, <1>6 DEF InitError, Close, Crash, cleanup, hooks, InitPhases
<1>7. CASE BeginBlock \/ OracleDone \/ FinalizeFails
  BY <1>0, <1>7 DEF BeginBlock, OracleDone, FinalizeFails, Detach
<1>8. ASSUME NEW failing \in Apps \cup {"none"}, NEW verdict \in Verdicts, ProbeDone(failing, verdict)
      PROVE  HoldInv'
  BY <1>0, <1>8 DEF ProbeDone, Detach
<1>9. CASE Done
  BY <1>0, <1>9 DEF Done, vars, hooks
<1>10. QED
  BY <1>1, <1>2, <1>3, <1>4, <1>5, <1>6, <1>7, <1>8, <1>9 DEF Next

\* Steps outside a running store have nothing to show; the others are the way in, the
\* block's phases, which leave the heights alone, and the ways a RunBlock call returns.
LEMMA HeightNext == IInv /\ Next => HeightInv'
<1> SUFFICES ASSUME IInv, Next PROVE HeightInv'  OBVIOUS
<1> USE DEF HeightInv, Apps
<1>0. ControlOK /\ StagingInv /\ HeightInv  BY DEF IInv
<1>1. ASSUME NEW s \in Starts, InitFromState(s) \/ InitRefused(s) PROVE HeightInv'
  <2>1. pc' \in {"prune", "stageOracle", "closed"}
    BY <1>1 DEF InitFromState, InitRefused
  <2>2. QED  BY <2>1
<1>2. ASSUME NEW t \in Targets, NEW s \in Starts, SnapshotPruneCommand(t, s) PROVE HeightInv'
  BY <1>2 DEF SnapshotPruneCommand
<1>3. CASE CommandPrune \/ Prune \/ CommandFlush \/ PruneFlush
  <2>1. pc' \in {"commandFlush", "closed", "flush", "stageOracle"}
    BY <1>3 DEF CommandPrune, Prune, PruneSnapshot, CommandFlush, PruneFlush, FlushMetadata
  <2>2. QED  BY <2>1
<1>4. CASE StageOracle \/ StageProbe \/ LoadOracle \/ InitError \/ Close \/ Crash
  BY <1>4 DEF StageOracle, StageProbe, Stage, LoadOracle, InitError, Close, Crash
<1>5. CASE LoadProbe
  <2>1. /\ Bounded(dbs["probe"]) /\ dbs["probe"] \in DB /\ loadVersion \in Int
        /\ Loadable(dbs["probe"], loadVersion)
        /\ loadVersion > 0 => Pinned(dbs["oracle"], loadVersion)
    BY <1>0, <1>5 DEF LoadProbe, ControlOK, StagingInv, loadVersion
  <2>2. loadVersion > 0 => Pinned(loadAndTruncate(dbs["probe"], loadVersion), loadVersion)
    BY <2>1, Truncated
  <2>3. /\ dbs'["probe"] = loadAndTruncate(dbs["probe"], loadVersion) /\ dbs'["oracle"] = dbs["oracle"]
        /\ height' = [a \in Apps |-> loadVersion] /\ start' = start /\ results' = <<>>
    BY <1>0, <1>5 DEF LoadProbe, ControlOK
  <2>4. BlockHeight' - 1 = loadVersion /\ ~Failed'
    BY <1>0, <2>3 DEF BlockHeight, loadVersion, Failed, ControlOK
  <2>5. QED  BY <2>1, <2>2, <2>3, <2>4 DEF loadVersion
<1>6. CASE BeginBlock \/ OracleDone
  <2>1. UNCHANGED <<height, dbs, start, results>> /\ pc \in Apps \cup {"idle"}
    BY <1>6 DEF BeginBlock, OracleDone
  <2>2. UNCHANGED <<BlockHeight, Failed, loadVersion>>
    BY <2>1 DEF BlockHeight, Failed, loadVersion
  <2>3. QED  BY <1>0, <2>1, <2>2
<1>7. CASE FinalizeFails
  <2>1. UNCHANGED <<height, dbs, start>> /\ pc \in Apps /\ results' = Append(results, "error")
    BY <1>7 DEF FinalizeFails
  <2>2. Failed' /\ Len(results') = Len(results) + 1 /\ Len(results) \in Nat
    BY <1>0, <2>1, AppendOutcome DEF ControlOK
  <2>3. BlockHeight' = BlockHeight + 1 /\ loadVersion' = loadVersion /\ BlockHeight \in Int
    BY <1>0, <2>1, <2>2 DEF BlockHeight, loadVersion, ControlOK
  <2>4. \A a \in Apps : height[a] \in Int  BY <1>0 DEF ControlOK
  <2>5. QED  BY <1>0, <2>1, <2>2, <2>3, <2>4
<1>8. ASSUME NEW failing \in Apps \cup {"none"}, NEW verdict \in Verdicts, ProbeDone(failing, verdict)
      PROVE  HeightInv'
  <2> DEFINE r == IF failing = "none" THEN verdict ELSE "error"
  <2>1. /\ pc = "probe" /\ BlockHeight = height["probe"] + 1 /\ start' = start
        /\ height' = [a \in Apps |-> IF a \in Committed(failing) THEN height[a] + 1 ELSE height[a]]
        /\ dbs' = [a \in Apps |-> IF a \in Committed(failing) THEN Commit(dbs[a], height[a] + 1) ELSE dbs[a]]
        /\ results' = Append(results, r) /\ r \in Verdicts \cup {"error"}
    BY <1>8 DEF ProbeDone, HeightOK
  <2>2. /\ Failed' <=> Failed \/ r = "error"
        /\ Len(results') = Len(results) + 1 /\ Len(results) \in Nat
    <3> HIDE DEF r
    <3> QED  BY <1>0, <2>1, AppendOutcome DEF ControlOK
  <2>3. BlockHeight' = BlockHeight + 1 /\ loadVersion' = loadVersion /\ BlockHeight \in Int
    BY <1>0, <2>1, <2>2 DEF BlockHeight, loadVersion, ControlOK
  <2>4. \A a \in Apps : height[a] \in Int /\ dbs[a] \in DB  BY <1>0 DEF ControlOK
  <2>5. ~Failed /\ \A a \in Apps : height[a] = BlockHeight - 1
    BY <1>0, <2>1, <2>3, <2>4
  <2>6. loadVersion > 0 => \A a \in Apps : Pinned(dbs'[a], height'[a])
    <3>1. ASSUME NEW a \in Apps, Pinned(dbs[a], height[a])
          PROVE  Pinned(Commit(dbs[a], height[a] + 1), height[a] + 1)
      BY <2>4, <3>1 DEF Pinned, Commit, DB
    <3>2. QED  BY <1>0, <2>1, <3>1
  <2>7. r = "error" <=> failing # "none"  BY DEF Verdicts
  <2>8. CASE failing = "none"
    <3>1. \A a \in Apps : height'[a] = BlockHeight' - 1
      BY <2>1, <2>3, <2>4, <2>5, <2>8 DEF Committed
    <3>2. ~Failed' /\ BlockHeight' - 1 \in Int  BY <2>2, <2>3, <2>5, <2>7, <2>8
    <3>3. QED  BY <2>3, <2>6, <3>1, <3>2
  <2>9. CASE failing \in Apps
    <3>1. height'["probe"] = height["probe"] /\ \A a \in Apps : height'[a] <= height[a] + 1
      BY <2>1, <2>4, <2>9 DEF Committed
    <3>2. \A a \in Apps : height'[a] \in Int  BY <2>1, <2>4
    <3>3. Failed'  BY <2>2, <2>7, <2>9
    <3>4. height'["probe"] < BlockHeight' - 1 /\ \A a \in Apps : height'[a] <= BlockHeight' - 1
      BY <2>3, <2>4, <2>5, <3>1, <3>2
    <3>5. QED  BY <2>3, <2>6, <3>3, <3>4
  <2>10. QED  BY <2>8, <2>9
<1>9. CASE Done
  BY <1>9 DEF Done, vars
<1>10. QED
  BY <1>1, <1>2, <1>3, <1>4, <1>5, <1>6, <1>7, <1>8, <1>9 DEF Next

\* IInv is inductive.
LEMMA InductiveInv == Spec => []IInv
<1>1. IInv /\ [Next]_vars => IInv'
  <2>1. CASE Next  BY <2>1, ControlNext, StagingNext, HoldNext, HeightNext DEF IInv
  <2>2. IInv /\ UNCHANGED vars => IInv'
    BY DEF IInv, vars, hooks, ControlOK, StagingInv, HoldInv, HeightInv, NothingHeld, Failed,
           BlockHeight, loadVersion
  <2>3. QED  BY <2>1, <2>2
<1>2. QED  BY <1>1, InitIInv, PTL DEF Spec

-------------------------------------------------------------------------------
\* Whatever step of InitFromState, of the prune command or of RunBlock fails or dies, a
\* closed executor holds no database and no temp dir, and no observer outlives its block.
THEOREM NothingIsHeld == Spec => []NothingHeld
<1>1. IInv => NothingHeld  BY DEF IInv, HoldInv
<1>2. QED  BY <1>1, InductiveInv, PTL

\* Both copies are pinned to the height of their app while a store is open, for every
\* history of prunings and deaths of the snapshot they were copied from.
THEOREM CopiesArePinned == Spec => []CopiesPinned
<1>1. IInv => CopiesPinned
  BY DEF IInv, HeightInv, CopiesPinned, Running, Pinned
<1>2. QED  BY <1>1, InductiveInv, PTL

\* No step of PruneSnapshot, in whichever process, loses the version it rolls back to or
\* one before it.
THEOREM PrestateIsKept == Spec => PrestateKept
<1>1. IInv /\ [Next]_vars => [\A v \in source.versions : v <= target' => v \in source'.versions]_vars
  <2> SUFFICES ASSUME ControlOK, Next, NEW v \in source.versions, v <= target'
               PROVE  v \in source'.versions
    BY DEF IInv
  <2>1. CASE CommandPrune \/ Prune
    <3>1. source'.versions = source.versions \/ source'.versions = {w \in source.versions : w <= target'}
      BY <2>1 DEF CommandPrune, Prune, PruneSnapshot, RolledBack, UpTo, ControlOK, DB
    <3>2. QED  BY <3>1
  <2>2. CASE CommandFlush \/ PruneFlush
    BY <2>2 DEF CommandFlush, PruneFlush, FlushMetadata, ControlOK, DB
  <2>3. CASE UNCHANGED source
    BY <2>3
  <2>4. \A failing, verdict : ProbeDone(failing, verdict) => UNCHANGED source
    BY DEF ProbeDone
  <2>5. \A s, t : InitFromState(s) \/ InitRefused(s) \/ SnapshotPruneCommand(t, s) => UNCHANGED source
    BY DEF InitFromState, InitRefused, SnapshotPruneCommand
  <2>6. CASE \/ StageOracle \/ StageProbe \/ LoadOracle \/ LoadProbe \/ InitError \/ Close
             \/ BeginBlock \/ OracleDone \/ FinalizeFails \/ Crash \/ Done
    BY <2>6 DEF StageOracle, StageProbe, Stage, LoadOracle, LoadProbe, InitError, Close,
                BeginBlock, OracleDone, FinalizeFails, Crash, Done, vars
  <2>7. QED  BY <2>1, <2>2, <2>3, <2>4, <2>5, <2>6 DEF Next
<1>2. QED  BY <1>1, InductiveInv, PTL DEF Spec, PrestateKept

-------------------------------------------------------------------------------
(***************************************************************************)
(* Refinement of ExecutorContract: LoadProbe opens the store, a death while  *)
(* it is open is Die, and a verdict is returned only on a store that has not *)
(* failed, because the probe's height says so.                               *)
(***************************************************************************)
USE DEF Contract!cvars

\* One call more adds a height; a call that returns adds none.
LEMMA AskedSteps ==
  ASSUME ControlOK, Running
  PROVE  /\ pc = "idle" /\ pc' \in Apps /\ UNCHANGED <<start, results>>
              => Len(Asked') > Len(Asked) /\ Asked' = Append(Asked, Asked'[Len(Asked) + 1])
         /\ \A v : pc \in Apps /\ pc' = "idle" /\ start' = start /\ results' = Append(results, v)
                      => Asked' = Asked
<1> DEFINE L == Len(results)  H(n) == [m \in 1 .. n |-> loadVersion + m - 1]
<1>1. results \in Seq(Verdicts \cup {"error"}) /\ L \in Nat /\ loadVersion \in Int
  BY DEF ControlOK, loadVersion
<1>2. \A v : results' = Append(results, v) => Len(results') = L + 1  BY <1>1
<1>3. \A n \in Nat : Len(H(n + 1)) > Len(H(n)) /\ H(n + 1) = Append(H(n), H(n + 1)[Len(H(n)) + 1])
  <2> SUFFICES ASSUME NEW n \in Nat
               PROVE  Len(H(n + 1)) > Len(H(n)) /\ H(n + 1) = Append(H(n), H(n + 1)[Len(H(n)) + 1])
    OBVIOUS
  <2>1. H(n + 1) \in [1 .. n + 1 -> Int] /\ H(n) = [m \in 1 .. n |-> H(n + 1)[m]]  BY <1>1
  <2> HIDE DEF H
  <2>2. QED  BY <2>1, FirstAndLast
<1>4. /\ pc = "idle" => Asked = H(L + 1)
      /\ pc \in Apps => Asked = H(L + 2)
      /\ pc' = "idle" /\ start' = start => Asked' = H(Len(results') + 1)
      /\ pc' \in Apps /\ start' = start => Asked' = H(Len(results') + 2)
  BY DEF Asked, Running, loadVersion, Apps
<1>5. (L + 1) + 1 = L + 2 /\ L + 1 \in Nat  BY <1>1
<1> HIDE DEF H, L
<1>6. Len(H(L + 2)) > Len(H(L + 1)) /\ H(L + 2) = Append(H(L + 1), H(L + 2)[Len(H(L + 1)) + 1])
  BY <1>3, <1>5
<1>7. QED  BY <1>1, <1>2, <1>4, <1>5, <1>6 DEF L

\* A call on a store without a failure asks for the height after the last verdict's.
LEMMA AcceptedCall ==
  ASSUME ControlOK, pc \in Apps, ~Failed
  PROVE  Contract!Accepts
<1> DEFINE L == Len(results)  V == loadVersion
<1>1. /\ L \in Nat /\ V \in Int /\ DOMAIN results = 1 .. L
      /\ \A n \in 1 .. L : results[n] # "error"
  BY DEF ControlOK, Failed, loadVersion
<1>2. Asked = [m \in 1 .. L + 2 |-> V + m - 1]  BY DEF Asked, Running, Apps
<1>3. {m \in DOMAIN results : results[m] # "error"} = 1 .. L  BY <1>1
<1> HIDE DEF L, V
<1>4. Asked \in Seq(Int) /\ Len(Asked) = L + 2
  <2>1. Asked \in [1 .. L + 2 -> Int]
    <3>1. \A m \in 1 .. L + 2 : V + m - 1 \in Int  BY <1>1
    <3>2. QED  BY <1>2, <3>1
  <2>2. QED  BY <1>1, <2>1
<1>5. Contract!Reached = {Asked[1]} \cup {Asked[n + 1] : n \in 1 .. L}  BY <1>3 DEF Contract!Reached
<1>6. Asked[1] = V /\ Asked[L + 2] = V + L + 1 /\ \A n \in 1 .. L : Asked[n + 1] = V + n
  BY <1>1, <1>2
<1>7. Contract!Reached = V .. V + L
  <2>1. {Asked[n + 1] : n \in 1 .. L} = {V + n : n \in 1 .. L}  BY <1>6
  <2>2. \A h \in V + 1 .. V + L : h - V \in 1 .. L /\ h = V + (h - V)  BY <1>1
  <2>3. {V + n : n \in 1 .. L} = V + 1 .. V + L  BY <1>1, <2>2
  <2>4. {V} \cup (V + 1 .. V + L) = V .. V + L  BY <1>1
  <2>5. QED  BY <1>5, <1>6, <2>1, <2>3, <2>4
<1>8. QED  BY <1>1, <1>4, <1>6, <1>7 DEF Contract!Accepts

\* Every step of the executor is a step of the contract, or leaves its view unchanged.
LEMMA ContractStep ==
  ASSUME IInv, [Next]_vars
  PROVE  [Contract!CNext]_(Contract!cvars)
<1> USE DEF Apps
<1>0. ControlOK /\ HeightInv  BY DEF IInv
<1>1. ASSUME NEW s \in Starts, InitFromState(s) \/ InitRefused(s) PROVE UNCHANGED Contract!cvars
  BY <1>1 DEF InitFromState, InitRefused, Asked, Running
<1>2. ASSUME NEW t \in Targets, NEW s \in Starts, SnapshotPruneCommand(t, s)
      PROVE  UNCHANGED Contract!cvars
  BY <1>2 DEF SnapshotPruneCommand, Asked, Running
<1>3. CASE CommandPrune \/ Prune
  BY <1>3 DEF CommandPrune, Prune, PruneSnapshot, Asked, Running
<1>4. CASE CommandFlush \/ PruneFlush
  BY <1>4 DEF CommandFlush, PruneFlush, FlushMetadata, Asked, Running
<1>5. CASE StageOracle \/ StageProbe \/ LoadOracle \/ InitError
  BY <1>5 DEF StageOracle, StageProbe, Stage, LoadOracle, InitError, InitPhases, CommandPhases,
              Asked, Running
<1>6. CASE LoadProbe
  <2>1. /\ pc = "loadProbe" /\ pc' = "idle" /\ results' = <<>> /\ start' = start /\ start \in Int
    BY <1>0, <1>6 DEF LoadProbe, ControlOK
  <2>2. Asked' = [n \in 1 .. 1 |-> loadVersion + n - 1]
    BY <2>1 DEF Asked, Running, loadVersion
  <2>3. Asked' = <<Asked'[1]>>  BY <2>2
  <2>4. QED  BY <2>1, <2>3 DEF Contract!CNext, Contract!Open
<1>7. CASE Close
  BY <1>7 DEF Close, Contract!CNext, Contract!Shut, Asked, Running
<1>8. CASE BeginBlock
  <2>1. Running /\ pc' \in Apps  BY <1>8 DEF BeginBlock, Running
  <2>2. QED
    BY <1>0, <1>8, <2>1, AskedSteps DEF BeginBlock, Contract!CNext, Contract!Call, Contract!Ask
<1>9. CASE OracleDone
  BY <1>9 DEF OracleDone, Asked, Running, loadVersion
<1>10. CASE FinalizeFails
  <2>1. Running  BY <1>10 DEF FinalizeFails, Running
  <2>2. QED
    BY <1>0, <1>10, <2>1, AskedSteps DEF FinalizeFails, Detach, Contract!CNext, Contract!ReturnError
<1>11. ASSUME NEW failing \in Apps \cup {"none"}, NEW verdict \in Verdicts, ProbeDone(failing, verdict)
       PROVE  Contract!CNext
  <2>1. /\ pc = "probe" /\ pc' = "idle" /\ BlockHeight = height["probe"] + 1 /\ start' = start
        /\ results' = Append(results, IF failing = "none" THEN verdict ELSE "error") /\ Running
    BY <1>11 DEF ProbeDone, Detach, HeightOK, Running
  <2>2. ~Failed
    BY <1>0, <2>1 DEF HeightInv, ControlOK
  <2>3. Asked' = Asked /\ Contract!Accepts  BY <1>0, <2>1, <2>2, AskedSteps, AcceptedCall
  <2>4. QED
    BY <2>1, <2>3 DEF Verdicts, Contract!CNext, Contract!ReturnVerdict, Contract!ReturnError
<1>12. CASE Crash
  <2>1. pc # "closed" /\ pc' = "closed" /\ results' = results  BY <1>12 DEF Crash
  <2>2. Asked' = <<>>  BY <2>1 DEF Asked, Running
  <2>3. CASE Running  BY <2>1, <2>2, <2>3 DEF Running, Contract!CNext, Contract!Die
  <2>4. CASE ~Running  BY <2>1, <2>2, <2>4 DEF Running, Asked
  <2>5. QED  BY <2>3, <2>4
<1>13. CASE UNCHANGED vars \/ Done
  BY <1>13 DEF Done, vars, Asked, Running, loadVersion
<1>14. QED
  BY <1>1, <1>2, <1>3, <1>4, <1>5, <1>6, <1>7, <1>8, <1>9, <1>10, <1>11, <1>12, <1>13 DEF Next

\* The executor over snapshots, with every death between two of its steps, is the abstract
\* executor RunHarness relies on.
THEOREM ContractImplemented == Spec => ImplementsContract
<1>1. Init => Contract!CInit
  BY DEF Init, Contract!CInit, Apps, Asked, Running
<1>2. IInv /\ [Next]_vars => [Contract!CNext]_(Contract!cvars)
  BY ContractStep
<1>3. QED
  BY <1>1, <1>2, InductiveInv, PTL DEF Spec, ImplementsContract, Contract!CSpec
===============================================================================
