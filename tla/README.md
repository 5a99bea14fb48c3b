# TLA+ verification of blockstm-sim

blockstm-sim replays blocks of a Cosmos SDK chain twice, on an *oracle* app that executes
them sequentially and on a *probe* app that executes them with BlockSTM, and reports every
difference. Its value rests on two promises: a reported divergence is real, and a real one
is reported. This directory models the program's core in TLA+, checks it with TLC on small
instances and proves the main invariants with TLAPS for every value of the constants.
Paths below are relative to the repository.

## 1. Inventory

| Component | Source | State | Operations | What makes it correct |
|---|---|---|---|---|
| FixtureExecutor | run/executor.go | two apps, account sequences, oracle trackers, process-global observers | Init, RunBlock, Close | hooks live only inside RunBlock; after a failure no later verdict; findings are about this block and this oracle |
| RepeatRunExecutor | run/repeat_executor.go | oracle and N probes | Init, RunBlock, Close | a match means that all apps agree; the blamed probe is the right one |
| SnapshotExecutor, pruning | run/snapshot_executor.go, run/prune.go, cmd/snapshot | two database copies in temp dirs, the source snapshot | InitFromState, RunBlock, Close, `snapshot prune` | nothing leaks; the source survives a crash; both copies start at the loaded version |
| Harness | run/harness.go | block index, verdict counters, coverage, open store and executor | RunHarness | every reported block is counted once, the exit code is truthful, everything is closed, it ends |
| compare.Run | compare/compare.go, finding.go | none | two responses and the observers' captures to findings and a verdict | equal runs yield no finding, different ones some |
| BlockObserver | compare/observer.go | per-transaction write sets, snapshots, mutations | OnTxStart, OnKVWrite, OnTxEnd, AddBlockMutation, CaptureBefore/AfterBlock | only the final incarnation's writes; a mutation whenever keeper state changed |
| BlockContextTracker | compare/block_context_tracker.go | readers and writes per field | Reset, SetCurrentTx, ReadField, WriteField | a write names exactly the readers since the last write |
| Non-determinism sink | simharness/nondet.go | process-wide list of calls | record, SetCurrentTx, NonDetCalls | calls belong to the oracle's block |
| Conflict sink | compare/conflict.go | conflict records, statistics | RecordConflict, RecordStats, Drain, AggregateHotKeys | the probe's conflicts of this block, all of them |
| Reflect tracker | tracker/ | none (visited set of one walk) | SnapshotOutOfKVStoreState | equal content gives equal bytes; a change by one assignment alters them |
| Corpora, extract | compare/*corpus*.go, compare/snapshot*.go, cmd/extract | list of stores, an iterator each | load, Iter, Close | the iteration ends at an error, no more blocks come than were announced |
| Coverage, reporters | coverage/, report/ | counts and patterns per message type | RecordBlock, Block, Footer | formats agree with each other and with the counters |
| Canary module | x/simcanary/ | an in-memory map, a block-context field | map-set, map-read-write, context read and write | every schedule is caught |
| Canary message types | x/simcanary/types | buffers and indices of one call | Marshal, Size, Unmarshal | the bytes are protobuf; a message survives the round trip; damaged bytes yield nothing that was not sent |
| detect and lint scanners | detect/, lint/ | the result of one scan | load packages, scan files, filter, report | each site of a form they look for once, however the packages load; a passing gate has missed none of these |
| Not modelled | recorder/, instrument/, version/ | | | see section 7 |

Interactions. The harness drives one executor through its interface (Init or InitFromState,
RunBlock, Close) with the blocks of one store after another, and passes each result to the
coverage trackers and reporters. An executor installs an observer on each app, and through
sdkhook observers of conflicts and statistics that are global to the process; BlockSTM's
workers call all of them concurrently. The nondet sink and the canary keeper's delay are
global too.

What is hard here: worker interleavings with aborted incarnations; global hooks that have
to be removed on every error path; the commit of one of two apps failing; executor state
left behind by a failed Init; callbacks that some runners fire only after all transactions
ran; a snapshot that is pruned in place by a process that may die; a codec that is written by hand
and tested with one-byte numbers only; analyses that degrade silently when a package does not load. `PROJECT.json` lists
them line by line under "hazards".

## 2. Modules

| Module | Models |
|---|---|
| `ExecutorContract` | abstract: what the harness may assume of an executor. `phase` (closed, open, running), the `heights` of the calls on the current store and their `outcomes`; a verdict only for a height the apps accept, the one after a height they have |
| `FixtureExecutor` | run/executor.go, with the two executions transaction by transaction |
| `RepeatRunExecutor` | run/repeat_executor.go; an execution yields any of a set of responses |
| `SnapshotExecutor` | run/snapshot_executor.go and run/prune.go over databases as sets of versions |
| `Harness` | run/harness.go against any executor that keeps the contract |
| `ObserverOps`, `BlockContextTracker`, `NonDetSink`, `ConflictSink`, `CompareOps` | the pure state transformers of the files in compare/ and simharness/, used by the executors' models |
| `Corpus`, `Reports` | what corpora yield and what reporters show, used by `Harness` |
| `ReflectTracker` | tracker/tracker.go over object graphs, together with the observer's block capture |
| `CanaryCodec` | x/simcanary/types/msgs.go: the three methods once for the field lists of the eight messages |
| `Scanners` | detect/ and lint/: the two commands from loading the packages to the exit code |
| `FixtureExecutorProofs`, `SnapshotExecutorProofs`, `RepeatRunExecutorProofs`, `HarnessProofs`, `ScannersProofs`, `CanaryCodecProofs` | theorems about the components (section 5) |
| `CompareProofs`, `DataLemmas` | lemmas about `ObserverOps` and `CompareOps`, and about numbers, sets and sequences, that those share |
| `MC*` | blocks, responses, stores and object graphs for the runs |

`FixtureExecutor`, `RepeatRunExecutor` and `SnapshotExecutor` are shown to implement
`ExecutorContract` (property `ImplementsContract`, INSTANCE with a mapping of `pc` to
`phase`), and `Harness` to use it as it may (`FollowsContract`). The first is what allows
the harness to be modelled without the apps: its `RunBlockFails` and `ResultReturned`
return what the contract allows. The three executors' models are of stores whose heights the harness
counts, from the state the store was opened with; a block of another height ends in `RejectHeight` or
`FinalizeFails`. That blocks may have heights of their own (compare/fixture.go:37), and a fixture
any mixture of them, is modelled in `Corpus`, `Harness` and the contract.

### FixtureExecutor

`pc` is "closed", "idle" between calls, "oracle" and "probe" while the respective
FinalizeBlock runs. `InitOK`, `InitProbeFails` and `InitOracleFails` are Init with its two
failure points; `BeginBlock` and `BuildFails` are RunBlock up to compare.Run (the code
advances `e.sequences` before it signs, so a failed build leaves them ahead); `StartTx`,
`FinishTx` and `AbortTx` are the workers of the SDK's runner (external: modelled from the
observers and options the code passes to it); `OracleDone` is the end of the oracle's run with
PostOracleHook; `ProbeDone` is the end of the probe's run, the comparison, the clean-up and
the commits, of which the first, the second or none may fail; `FinalizeFails` and
`RejectHeight` are the error path. A transaction increments its account's sequence and a
shared counter, or is one of the canary messages (a keeper's map outside the store), a
block-context read or write, or a call of the clock. A key/value store is a function and its
application hash is the function itself. `HookMode` says when the runner fires
OnTxStart/OnTxEnd: around every incarnation ("inline"), in a loop after all transactions
("posthoc", which compare/observer.go:23-28 describes) or never; the code has to work with
any of them. The raw transaction builders (`extraRawTxBuilders`) come from chain adapters outside the
repository and are left out, and so are RawTxs: they choose the bytes of a transaction.

### SnapshotExecutor

A database is the set of versions it holds and the latest one its metadata names. InitFromState is one
action per step that can fail or be interrupted: prune the source (roll back versions, then
flush the metadata), copy and open twice, create and pin each app. `Crash` may happen in
any state with `pc # "closed"`: handles close, temp dirs stay behind (`leaked`), the next process starts
from the source it left. `SnapshotPruneCommand` starts the `snapshot prune` command with a given
target version or the one of range.json; it is a process of its own that makes the same steps on
the source (`CommandPrune`, `CommandFlush`), fails and dies like the others, and runs between two
ranges (see the remark on locks in section 3). The abstract
`ExecutorContract` has a `Die` step, which an executor without crashes never takes.

### RepeatRunExecutor, Harness, ReflectTracker

RepeatRunExecutor's `Finalize` steps through the oracle and the N probes, `Compare` is the rest
of RunBlock with its commits, any of which may fail; the star comparison is
`AllFindings`. Harness has one action per exit of the loop body: `Unsupported`,
`InitFails`, `InitStore`, `CallRunBlock`, `RunBlockFails`, `ResultReturned`, `CloseStore`, `Finish`. A
store is what `Corpus` computes from fixtures, a fuzz configuration or a blockstore.
ReflectTracker writes a snapshot as a sequence of bytes (the eight of a uint64 are one number), field
names, brackets and the text of map keys included, so that ambiguities between adjacent
values can show. A key is its text and an identity: keys of one text share a place in `keyByStr`,
where Go's iteration order chooses whose value is read (`nth`). The comparison is the executors'
(`oraclePreSnaps`) or the observer's (`CaptureBeforeBlock`), which no executor uses. The reference is
`Tree`, the content without any flattening. Recursion over the graph is a RECURSIVE operator, so this
module is only model-checked.

### CanaryCodec

The eight message types differ only in their fields, so a type is the sequence of the kinds of its
fields (`Schema`) and each method is written once. `MarshalField` writes one field below those
written before, into a buffer of `Size` bytes; `DecodeField` and `SkipUnknown` are one turn of
Unmarshal's loop, `UnmarshalFails` its error returns and the panics of slice bounds. Between the two
the bytes may be cut anywhere or followed by fields of a later version, and the receiver may have
been used before (`Reset` is empty in the code). `encodeVarint` and `Uvarint` are modelled bit
group by bit group, and the indices are computed as 64-bit ints that wrap
(`Plus`). `buildFileDescriptor` is the descriptor the SDK's other decoders use; `GogoBytes`
is the protobuf encoding it calls for.

### Scanners

A source tree is a list of files, a file a list of declarations: functions, or package-level code. Each has
its calls (with the identifier they go through, or none, and the package they really reach), ranges and
writes (with the path written and whose state it really is: the keeper's, a package's or neither), and the
depth of function literals around them. `LoadReturns` lets each
package load completely, with errors or without syntax, `LoadFails` leads to the walk of the tree;
`PackageFile` and `WalkFile` scan one file with or without types, `Report` filters, sorts and decides
the exit code. The lists of names in the code are represented by a few of each.

`EachSiteReportedOnce` and `CleanExitMeansClean` are about every call of a listed function and every
write of shared state, by what the site really does and not by what the scanners recognise, except the
forms they do not look for, which `OverlookedCall` and `OverlookedWrite` list:

- detect: calls in package-level initialisers and the function literals in them (detect/typescanner.go:167-172), in
  the block-level callbacks (which the code leaves out on purpose), and through a dot import;
- lint: package-level code and constructors; `delete(k.m, x)`; a keeper under another name than
  the receiver's (an alias, a parameter) or as a whole; `k.a.b = x` (lint/keeper.go:163-191); a
  field whose name is on the list or whose type is a store's; a package variable of another file and an
  element of one, `m[x] = y` (lint/keeper.go:256-261).

The trees of the run have sites of each of these forms. `ErrorsStayLocal` is about the sites that depend
on types. `ScannersAssumption` has one site to a line, and no local name that hides an import (`Resolves`).

## 3. Runs

| Run | Bounds | Shows |
|---|---|---|
| fixture_inline | 9 kinds of block up to 4 transactions, 2 accounts, 4 probe workers, 2 blocks, 1 fault; 94,651 states | under every schedule: exact write sets, mutations, clock calls and context findings, no silent drift; RunBlock returns |
| fixture_faults | 5 blocks (two of which fail to build, one calls the clock), post-hoc callbacks, a 2-worker oracle, 2 stores of 3 blocks, 2 faults; 92,938 states | hooks scoped, heights and sequences in step, no false divergence but by a left-over clock call, hot keys of the own probe, findings of the current oracle, contract implemented |
| harness_accounting | all lists of up to two of seven stores (one with heights 1, 5, 2 and none) and some of three, 4 executors, 3 results, 2 faults; 97,416 states | counters, reporters, coverage, exit code, indices, heights, resources, termination |
| snapshot_crash | 6 range starts, versions 3 to 8, 4 Inits or prune commands, 2 blocks, 3 crashes, 1 fault; 512,379 states | nothing held, copies pinned, pre-state kept, contract implemented |
| repeat_probes | 3 probes, 3 responses, 2 stores of 2 blocks, 2 faults; 241,674 states | star comparison is complete and blames exactly; observers, commits, heights and sequences settled; contract implemented |
| tracker_capture | 25 keeper states, 2 mutations, 1 transaction, 1 callback, 2 keys of one text; 133,414 states | no mutation without a change, every change of one assignment captured, in every order of callbacks |
| canary_codec | varints of up to 3 bytes (15-bit numbers), 3 strings, 9 numbers, 6 unknown fields, every cut; 46,939 states | sizes exact; for one-byte numbers round trip, nothing invented, Unmarshal ends |
| scanners | 5 trees of up to 6 files, 3 exclusions, all filters, every outcome of loading; 12,769 states | each site once but for the overlooked forms, errors stay local, a clean exit is clean |

Why the bounds are enough to be interesting. Two blocks let a failed block precede another
call, three let a verdict follow it; two stores let a failed Init be followed by a good one
of the same executor; one contended key and an account used twice give aborts, re-executions
and dependent reads; blocks of three contending transactions give several aborts in one
run; three crashes let a crash of the recovery crash again; three probes are the fewest for which a pair is
not compared directly. `MaxVarintLen` is 10 in the code and 3 in the run: numbers then have
7 * (3 - 1) + 1 = 15 bits, and the longest varint ends in a one-bit group like that of 64 bits; the strings contain bytes that are tags of the same messages, so that a
reader that slips finds plausible fields; the unknown fields have every wire type. The trees have a vendored, a
mock, a test, a broken and an unbuilt file, aliases of imports, and literals nested twice. The keepers of the tracker's run have two
keys of one text, nil elements that move and keys that look like the end of an entry; the bound on
callbacks is one because a callback changes only what the block's comparison must not look at. No symmetry is
used: signers and versions are ordered numbers.

Every property has a mutant in `PROJECT.json`, a plausible bug in one definition under
which the run finds it violated. `ASSUME SampleProportional` in `MCHarness` checks the fuzz
corpus's weighted sampling against its definition: as many draws give a key as its weight.

### Runs that end in a violation

Each states what the repository says, and the code does otherwise.

- fixture_writesets: the observer is to capture write keys, but OnTxStart clears a write set and with
  the post-hoc loop it runs after the writes. Both sides are cleared alike, so
  the write-set dimension compares empty sets: nothing is falsely reported, and nothing found.
- snapshot_source: "the original snapshot directory is never mutated"
  (run/snapshot_executor.go:47-49), but InitFromState prunes it in place first. A range
  that starts after an earlier one can no longer be replayed from it. What does hold is
  `PrestateKept`.
- codec_varint: the helpers are to match "gogo codegen output" (x/simcanary/types/msgs.go:725), but
  encodeVarint writes the groups of a number from 128 on in the reverse order: 128 becomes 01 80
  (08 01 80 for a MsgCanaryMapReadAndWriteResponse, 18 01 80 for a MsgCanaryMapSet).
  Sizes are right (`BufferExact`), and messages whose numbers and string lengths are below 128 round-trip.
- scan_excludes: excluded prefixes are "to skip entirely" (detect/typescanner.go:34-35), but the fallback
  after a failed load is called without them (lines 39 and 55). lint passes them on.

### Remarks that are not findings

- The "[Index/Total]" of a block lags after a store whose iterator fails or yields fewer
  blocks than announced, a fuzz store without keys among them; `IndexIsPosition` claims the position only when the earlier stores are whole.
- report/cli.go:141 prints TotalBlocks, the blocks of the corpus, as "blocks run".
- A run in which every Init or every block fails exits with 0: the exit code speaks only about
  reported blocks (`ExitReflectsReports`).
- RepeatRunExecutor sets no MsgKeys, so coverage is empty with several probes;
  `CoverageOfExecuted` is conditioned on `exec.keys`. It does not compare gas or events either.
- The nondet sink is drained once per block, after the probe, and not by a block that fails, nor by Init: a report may
  contain calls of the probe or of a failed block too. `OutOfKVReported` claims that each call of the
  oracle is reported with its transaction, not that nothing else is. A call that a failed block left
  in the sink makes the first reported block of the next store a DIVERGENCE, however ordinary it
  is; `NoFalseDivergence` says that this is the only way.
- A block's own height is not checked when a fixture is loaded (compare/fixture.go:51-61). With heights 1, 5, 2
  the apps refuse the second block and accept the third: reports are then no prefix of the store
  (`ReportedPrefix` is conditioned on `Regular`), but still a chain (`HeightsFollowCorpus`). The refused block has
  advanced e.sequences (run/executor.go:105), so the transactions of the third are refused by oracle and
  probe alike and the block is a MATCH: `SequencesInStep` is about stores whose heights the harness counts.
- AddBlockMutation drops its record when the block has no transaction (compare/observer.go:144), so
  what the EndBlocker of an empty block does to a keeper is not reported; compare/compare.go:115-117 says that block-level
  mutations are always read.
- A range from block 1 loads version 0, to which nothing is rolled back: versions above it stay in
  both copies (run/snapshot_executor.go:211-214). `CopiesPinned` claims only the heights there.
- cmd/blockstm-sim/sdkimpl registers no installer of conflict or statistics observers: with it the
  sinks stay empty. The model has them installed, as sdkhook allows an adapter to do.
- The typed scanners skip files by the directories of their absolute path, so a checkout below a
  directory named vendor, testutil or mock yields nothing; the walk looks at paths below the root only.
  `InScope` leaves such trees out.
- A finding has a file, a line and a category, so two sites of one category on a line could not be told
  apart; the trees of `ScannersAssumption` have one site to a line.
- Copying application.db takes no LevelDB lock (run/snapshot_executor.go:126): a prune command at the
  same time is not excluded by the code. The model has them one after the other.
- The tracker is for "detecting out-of-KVStore state changes" (tracker/tracker.go:29-31) and misses some. A nil pointer
  or slice leaves no bytes, and nothing delimits elements or entries: a slice of pointers that goes from {nil, &x}
  to {&x, nil}, and a map[string]struct{} that goes from {"a:}{b"} to {"a", "b"}, give equal
  bytes. Of several keys that %v writes alike the value of one is written for all (tracker/tracker.go:177-190), so that
  equal keepers may give different bytes and different ones equal bytes; of a shared pointer only the first occurrence
  is written; a value below the last depth leaves none. `BlockCaptureExact` therefore claims a
  report for changes of one assignment only (`OneChange`), of keepers without shared pointers or such keys
  (`Plain`). The run has keepers of each of these kinds.
- docs/integration.md:153-154 counts sync.Map among what is tracked; its values lie behind unsafe pointers,
  which shouldSkipField leaves out (tracker/filter.go:64-65), so a value that changes is not seen.
- Unmarshal need not end on a number above 127: 130 is written 18 01 82, and 82 with the tag of a later field
  20 f4 ff ff ff ff ff ff ff ff 01 is read as the tag of field 512, of wire type 2, with length -12, which moves iNdEx
  back to 82 (x/simcanary/types/msgs.go:811-816). Other negative lengths move it below 0, where the next
  access panics; the run reaches that case. `UnmarshalEnds` is conditioned on one-byte numbers.

## 4. Fairness

`FixtureExecutor` and `Harness` state fairness; the others check safety only.
FixtureExecutor has weak fairness of a step of the running RunBlock call: a goroutine that
can go on is scheduled, and no lock or wait of the modelled code prevents it. A transaction aborts only when a
lower one has changed what it read, so re-execution ends (`RunBlockReturns`). Calls of the harness
(Init, RunBlock, Close) are not fair. Harness has weak fairness of its whole
loop: it is one goroutine over finite iterators, and the executor returns by the former.

## 5. Proofs

The theorems hold for every value of the constants: any number and shape of blocks, signers,
probes, stores, snapshots, faults and workers. They rest on the assumptions on the constants
(`ConstantsAssumption`, `SnapshotAssumption`, `RepeatAssumption`, `HarnessAssumption`,
`ScannersAssumption`, `CodecAssumption`), which TLC evaluates in the runs, and on nothing else. Every
safety invariant, action property and refinement of the executors, the harness, the scanners and the
codec is proved.

**DataLemmas, CompareProofs.** The library's induction theorems take an operator and cannot be used
by the provers at hand. Induction is derived for sets instead: strict inclusion is
well-founded on the finite subsets of a set, so a set of natural numbers has a least element, so a set that
contains 0 and is closed under successor contains every natural number (`SetInduction`). From it follow what `FlattenSeq`
computes (it has the elements of its parts, `FlattenOccurs`), hence that the loops of
compare.Run and OnTxEnd report exactly the positions that differ (`TxFindingsExact`,
`MutationRecordsExact`, `RunFindingsExact`), and what each callback does to an observer.

**FixtureExecutorProofs** (control).

- `TypeCorrect`, `HooksAreScoped`: both invariants are inductive; every exit of RunBlock goes through `CleanUp`.
- `StoreInvariant`: HeightsInStep and ResultsArePrefix. Neither is inductive alone. StoreInv is their
  conjunction with TypeOK: once a call failed the probe's height is below the number of
  calls, so `HeightOK` of the probe is false, so no verdict can be appended, and an "error" keeps the inequality.
- `ContractImplemented`: refinement of ExecutorContract, step by step, from StoreInv.

**FixtureExecutorProofs**, continued (what a block gathers). `Shapes` says what the observers, the execution and
the sinks look like for a block of n transactions; the others build on it.

- `DriftNeverSilent`, from StoresAgree: the two stores are equal at every moment until a
  block was a divergence. A commit replaces the stores by the ones whose hashes were compared.
- `FindingsAreCurrent`, from TrackerInv and SnapInv: of the trackers in the list only the last has a
  keeper that anything changes, so all snapshots of a block agree on the others.
- `WriteSetsAreCaptured`, from CapturedInv: with in-line callbacks a done transaction's write set is what its
  last incarnation wrote, and a running one's is empty, because OnTxStart clears it.
- `HotKeysAreOwn`, from HotInv: the conflict sink is empty until the probe starts and then holds
  exactly its aborts.

**FixtureExecutorProofs**, continued (what a block computes).

- `ExecutionIsSerial`: a run of BlockSTM that can return (every transaction done, every read still
  valid) is a serial execution of the block, whatever the schedule and the re-executions. HandlerInv
  ties what a done incarnation wrote to what it read; by `VisibleStep` the stores that
  transactions 0, 1, ... see form the chain of a serial run. The one thing a schedule can still
  choose is what is read from a keeper's field outside the store, a parameter of the serial run.
- `NeverFalselyDivergent`: the serial run of transactions that do not read that field is unique
  (`SerialUnique`), so two runs from equal stores return the same; QuietInv says that such a block records nothing outside
  the store, CallsInv that until a call fails the sink holds calls of the running block and of earlier stores
  only, CapturedInv and PosthocInv that both observers hold the same write sets.
- `SequencesStayInStep`, from SeqInv: until a call fails, e.sequences is, between blocks, the sequence of every
  account in both stores, and during a block ahead by what the block signs; a serial run
  then accepts every transaction (`SerialSequences`).
- `OutOfKVIsReported`, from BlockMutationInv and ClockInv: a keeper change survives in the
  block's mutations until the comparison even if no callback saw it, and a clock call is in the sink
  from the end of its transaction on, under its index if the runner is sequential.
- `CtxIsAttributed`, from CtxInv: a sequential oracle never aborts, so its transactions are
  accepted in order, a running one is the tracker's current one, and the tracker's writes are those of
  the accepted transactions with the readers of each since the write before. In CompareProofs,
  `CtxFindingsAt` says that compare.Run turns each of these writes into its finding.

**SnapshotExecutorProofs.** One invariant IInv with four parts. The important one is StagingInv:
the stores are rolled back before the metadata, so a death in between leaves a metadata that is too high and
never one that is too low, and the next attempt rolls back again. From it `CopiesArePinned` and
`PrestateIsKept` (an action property); `NothingIsHeld` from HoldInv; `ContractImplemented` from HeightInv.

**RepeatRunExecutorProofs.** `EveryPairCompared` and `BlameExact` from the lemma on one
comparison and transitivity of equality, for any number of probes; `SequencesStayInStep` and
`AppsAreSettled` from the invariant that the last app is behind for good once a call failed;
`ContractImplemented`.

**HarnessProofs.** `HarnessAssumption` says that every store is `WellFormed` (Corpus): an error is
last, no more blocks come than announced, the heights of a snapshot are consecutive; those of a fixture
are arbitrary. The lemmas
`FixtureWellFormed`, `FuzzWellFormed` and `SnapshotWellFormed` show that the three loaders build such
stores, gaps in the blockstore and fuzz configurations without keys included.

- `TypeCorrect`, from TypeInv: the stores are those of Init, and `cur` points at one while it is worked on.
- `ReportsCounted` and `ExitIsTruthful`, from CountInv: the two counters that decide
  the exit code are positive exactly if such a report exists, and all four add up.
- `SummaryIsTruthful`, from SummaryInv: each counter is the cardinality of the set of reports it
  stands for, and maxExecRatio is attained and never exceeded.
- `IndexIsRight`, from IndexInv: blockNum never gets ahead of the position in the corpus, equals it while the
  stores so far were whole, and is above every reported index when RunBlock is called.
- `HeightsAreConsecutive`, from ChainInv: the heights the apps have a state of are those from the store's state to
  the last report, whatever was asked for, so a call that is accepted asks for the next one.
- `CoverageIsTruthful`, from CoverInv: the tracker's count of a key is its sum over the reports, and
  a block adds at most as many write-set patterns as it has transactions with the key.
  Both this and the indices need what `SumUpTo` computes (`SumStep`, `SumMonotone`).
- `NothingLeaks` and `ContractFollowed`, from ReleaseInv: stores before `cur` are closed
  once, later ones not at all, and the executor is open exactly inside a store.
- `ReportsArePrefixes`, from ChainInv: where the heights of a store follow one another a height is a position, so
  consecutive reported heights from the first are a prefix.

**ScannersProofs.** `Reports(q, n, A)` says that a list of findings has exactly one for each pair of
line and category in A and no other; it is computed for a site, a body, a function and a file, with or
without types, by lemmas on lists that are put together. `FindingsInv` says it of the files
looked at so far, `ScanInv` adds what is still to do. Filtering and
sorting keep the number of matches. `WriteFound` says that lint's predicates recognise every write of shared state
that is not of an overlooked form. Hence `SitesReportedOnce`, `ErrorsAreLocal` (what a file yields
depends on its own package only) and `CleanExitIsClean`, for every tree, exclusion and outcome of loading.

**CanaryCodecProofs**, for every width of numbers.

- `BufferIsExact`, from EncInv: the fields from `todo` + 1 on are at their offsets, so `i` is the
  offset of the next one and 0 at the end. It rests on `sovLen` being the length of `encodeVarint`, an
  induction over the powers of 128.
- `MessagesSurvive`, `NothingIsInvented` and `ShortMessagesEnd`, from DecInv, for numbers of
  one byte: iNdEx is always where a field of the message or an unknown one starts, or past the end, and the receiver
  holds exactly the non-zero fields that end at or before it. Each turn consumes a byte.

`WriteSetsCaptured` is stated by its theorem under `HookMode = "inline"`, the mode of the passing
run that checks it: after post-hoc callbacks it does not hold, as fixture_writesets shows.

## 6. Only model-checked

- Liveness (`RunBlockReturns`, `RunHarnessTerminates`): fairness is beyond the prover.
- `BlockCaptureExact` and the rest of `ReflectTracker`: recursive over object graphs.

## 7. Not modelled, and why

No command of the repository constructs the recorder (recorder/), so nothing depends on what it does with a failed
write. instrument/ and version/ are wiring; hooks are registered once, by init functions, before anything
else runs. The raw transaction builders are supplied by chain adapters. Flag parsing, YAML decoding and the
wording of reports have no property here; the identifier of a finding (compare/finding.go:53) is
never looked up by the program.

## 8. Plan

1. Done: executors, harness, observers, tracker, codec, scanners, their runs, the theorems above.
2. Left to TLC for good: liveness, `BlockCaptureExact`. Left open: own heights of blocks in the three
   executors' models.
3. With a change of the code: model encodeVarint's new order of groups and drop `OneGroup` from
   the codec's properties; give recorder/ a module once a command uses it.
