------------------------------- MODULE MCHarness -------------------------------
(***************************************************************************)
(* Corpora, executors and results for the run of Harness.                   *)
(***************************************************************************)
EXTENDS Harness

Registry == <<"bank-send", "canary-set">>
RegisteredKeys == ToSet(Registry)

B(height, keys) == [height |-> height, keys |-> keys]

Fixtures == {[name |-> 2, canary |-> TRUE, blocks |-> <<B(0, <<"canary-set">>), B(0, <<"bank-send">>)>>],
             [name |-> 1, canary |-> FALSE, blocks |-> <<B(0, <<"bank-send", "bank-send">>), B(2, <<"other">>)>>],
             \* Its second block is refused, its third has the height the apps then expect.
             [name |-> 3, canary |-> FALSE,
              blocks |-> <<B(1, <<"other">>), B(5, <<>>), B(2, <<"bank-send">>), B(0, <<>>)>>]}
FixtureDir == LoadCorpusStores(<<>>, Fixtures)
Fixture == FixtureDir[1]
Canary == FixtureDir[2]
Mixed == FixtureDir[3]

\* Snapshots as extract or the blockstore itself describe them; extract accepts a gap.
Raw == [h \in 7 .. 9 |-> <<"raw">>]
Snapshot == NewSnapshotCorpusFromDir(<<>>, {7, 8}, Raw)[1]
Gap == NewSnapshotCorpusFromDir(Extract({7, 9}, 7, 9), {7, 9}, Raw)[1]

Fuzz == LoadCorpusStores(<<FuzzCorpus([k \in {"bank-send", "x"} |-> 2], Registry, <<<<0, 1>>>>)>>, Fixtures)[1]
FuzzNoKey == FuzzCorpus([k \in {"x"} |-> 1], Registry, <<<<0>>>>)

\* "proportional to weights": as many draws give a key as its weight says.
ASSUME SampleProportional ==
  \A w \in [{"bank-send", "canary-set"} -> 0 .. 3] :
    LET total == WeightUpTo(w, Registry, 2)
    IN  total > 0 =>
          \A k \in RegisteredKeys :
            Cardinality({r \in 0 .. total - 1 : weightedSample(w, Registry, r) = k}) = w[k]

AllStores == {Fixture, Canary, Mixed, Snapshot, Gap, Fuzz, FuzzNoKey}
Lists(S, n) == UNION {[1 .. k -> S] : k \in 1 .. n}
UpToThree == Lists(AllStores, 2)
                \cup {<<a, b, c>> : a \in {Canary, Gap}, b \in {Fixture, FuzzNoKey}, c \in {Fixture, Snapshot}}

\* FixtureExecutor, SnapshotExecutor, RepeatRunExecutor, and one that has both Inits.
AllExecutors == {[state |-> FALSE, genesis |-> TRUE, keys |-> TRUE],
                 [state |-> TRUE, genesis |-> FALSE, keys |-> TRUE],
                 [state |-> FALSE, genesis |-> TRUE, keys |-> FALSE],
                 [state |-> TRUE, genesis |-> TRUE, keys |-> TRUE]}

\* With statistics and hot keys, without either, and diverging.
SomeResults ==
  {[verdict |-> Match, hot |-> <<3, 1>>, ratio |-> 150, ws |-> <<{"a"}, {"b"}>>],
   [verdict |-> Match, hot |-> <<>>, ratio |-> 0, ws |-> <<>>],
   [verdict |-> Divergence, hot |-> <<1>>, ratio |-> 200, ws |-> <<{"a"}, {"a"}>>]}
================================================================================
