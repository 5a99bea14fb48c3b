-------------------------------- MODULE Corpus --------------------------------
(***************************************************************************)
(* compare.CorpusStore as a value: what a harness sees of a fixture, a fuzz *)
(* or a snapshot corpus, and how the loaders come by one.  A store is       *)
(*   count    BlockCount()                                                  *)
(*   canary   IsCanary()                                                    *)
(*   snapshot SnapshotDir() # ""                                            *)
(*   items    what Iter yields, in order: blocks, and last an error if any. *)
(* A block is [kind |-> "block", height, keys]: its Height (0 when it has   *)
(* none) and the message key of each of its transactions.  A loader returns *)
(* <<>> for an error.                                                       *)
(***************************************************************************)
EXTENDS Integers, Sequences, SequencesExt, FiniteSetsExt

\* The sum of the first n entries of a sequence of numbers.
SumUpTo(c, n) ==
  LET sum[k \in 0 .. n] == IF k = 0 THEN 0 ELSE sum[k - 1] + c[k] IN sum[n]

Block(height, keys) == [kind |-> "block", height |-> height, keys |-> keys]

IterError == [kind |-> "error", height |-> 0, keys |-> <<>>]

\* What every corpus promises: an error ends the iteration, no more blocks come than were
\* announced; a snapshot yields something, and its blocks have consecutive heights.  A
\* fixture's blocks may have any heights of their own, and some or all of them none.
WellFormed(s) ==
  /\ s.snapshot => s.items # <<>>
  /\ \A n \in DOMAIN s.items : s.items[n].kind = "error" => n = Len(s.items)
  /\ \A n \in DOMAIN s.items : s.items[n].kind = "block" =>
       /\ n <= s.count
       /\ s.snapshot => s.items[1].height > 0 /\ s.items[n].height = s.items[1].height + n - 1

\* FixtureCorpus: the blocks of one YAML file, each with its height (0 for none; nothing
\* checks it) and the keys of its transactions.
FixtureCorpus(canary, blocks) ==
  [count |-> Len(blocks), canary |-> canary, snapshot |-> FALSE,
   items |-> [n \in DOMAIN blocks |-> Block(blocks[n].height, blocks[n].keys)]]

-------------------------------------------------------------------------------
(* Snapshots.  held are the heights in the blockstore, keys[h] the keys of   *)
(* the transactions at height h.                                             *)

\* SnapshotCorpus over [start, end]: Iter stops with an error at the first height the
\* blockstore does not hold.
SnapshotCorpus(start, end, held, keys) ==
  LET missing == {h \in start .. end : h \notin held}
      last == IF missing = {} THEN end ELSE Min(missing) - 1
      blocks == [n \in 1 .. last - start + 1 |-> Block(start + n - 1, keys[start + n - 1])]
  IN  [count |-> end - start + 1, canary |-> FALSE, snapshot |-> TRUE,
       items |-> IF missing = {} THEN blocks ELSE Append(blocks, IterError)]

\* What range.json must satisfy to be written by extract and to be read by LoadRangeMeta
\* (which also wants a chain ID and a denom).
ValidRange(start, end) == start > 0 /\ end > 0 /\ end >= start

\* Of the heights in the range it looks up the two ends only.
validateBlockstore(held, start, end) ==
  /\ held # {} /\ Min(held) <= start /\ Max(held) >= end
  /\ {start, end} \subseteq held

\* The range.json that the extract command writes.
Extract(held, start, end) ==
  IF ValidRange(start, end) /\ validateBlockstore(held, start, end)
    THEN <<[start |-> start, end |-> end]>> ELSE <<>>

\* inferRangeMetaFromBlockstore: from the base to the height of the blockstore.
InferRange(held) == [start |-> Min(held), end |-> Max(held)]

\* range is <<[start, end]>>, or <<>> when there is no range.json.
NewSnapshotCorpusFromDir(range, held, keys) ==
  LET ranges == IF range # <<>> THEN SelectSeq(range, LAMBDA r : ValidRange(r.start, r.end))
                ELSE IF held = {} THEN <<>> ELSE <<InferRange(held)>>
  IN  [n \in DOMAIN ranges |-> SnapshotCorpus(ranges[n].start, ranges[n].end, held, keys)]

-------------------------------------------------------------------------------
(* Fuzzing.  registry lists the registered keys in order, weights is a       *)
(* function on some keys.                                                    *)

\* buildWeightedKeys: with weights, their keys that are registered; otherwise all of them.
WeightedKeys(weights, registry) ==
  IF DOMAIN weights # {} THEN SelectSeq(registry, LAMBDA k : k \in DOMAIN weights) ELSE registry

WeightOf(weights, k) == IF k \in DOMAIN weights THEN weights[k] ELSE 1

\* The weight of the keys before position i + 1.
WeightUpTo(weights, keys, i) ==
  SumUpTo([n \in DOMAIN keys |-> WeightOf(weights, keys[n])], i)

\* r is what rng.Intn(total) returns.
weightedSample(weights, keys, r) ==
  LET above == {i \in DOMAIN keys : r < WeightUpTo(weights, keys, i)}
  IN  IF WeightUpTo(weights, keys, Len(keys)) = 0 THEN keys[1]
      ELSE IF above = {} THEN keys[Len(keys)] ELSE keys[Min(above)]

\* draws[n][j] is the number drawn for transaction j of block n.  Without a key to sample
\* from Iter yields nothing, while BlockCount still says how many blocks were asked for.
\* (NewFuzzCorpus sees to it that there are accounts.)
FuzzCorpus(weights, registry, draws) ==
  LET keys == WeightedKeys(weights, registry)
  IN  [count |-> Len(draws), canary |-> FALSE, snapshot |-> FALSE,
       items |-> IF keys = <<>> THEN <<>>
                 ELSE [n \in DOMAIN draws |->
                         Block(0, [j \in DOMAIN draws[n] |-> weightedSample(weights, keys, draws[n][j])])]]

\* The fixtures of a directory, in the order of their names.
LoadCorpus(fixtures) == SetToSortSeq(fixtures, LAMBDA f, g : f.name < g.name)

\* A directory with a fuzz.json is that one corpus, whatever fixtures lie beside it.
LoadCorpusStores(fuzz, fixtures) ==
  LET sorted == LoadCorpus(fixtures)
  IN  IF fuzz # <<>> THEN fuzz
      ELSE [n \in DOMAIN sorted |-> FixtureCorpus(sorted[n].canary, sorted[n].blocks)]
================================================================================
