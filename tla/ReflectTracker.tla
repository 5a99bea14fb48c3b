----------------------------- MODULE ReflectTracker -----------------------------
(***************************************************************************)
(* tracker.KeeperReflectTracker, and the block-level capture built on it:    *)
(* the executors' own comparison of snapshots (AddBlockMutation), and the    *)
(* BlockObserver's CaptureBeforeBlock and CaptureAfterBlock.                 *)
(*                                                                         *)
(* A keeper is [root, heap].  Go values are records with a kind:             *)
(*   int, bool          [kind, val]       a bool is 0 or 1                   *)
(*   string             [kind, val]       a sequence of characters           *)
(*   ptr                [kind, to]        an address of heap, 0 is nil       *)
(*   struct             [kind, type, fields]                                *)
(*   map                [kind, entries]   a function; nil and empty are one  *)
(*   slice              [kind, isNil, elems]                                *)
(*   other              [kind]            float, array, ...: not in the switch *)
(* A field is [name, kind, pkg, val]: kind and pkg are those of its type     *)
(* with pointers removed.  A key of a map is [text, id]: text is what %v     *)
(* makes of it, id tells keys apart that %v does not.                        *)
(* The byte buffer is a sequence of numbers: a character is its code, and    *)
(* the eight bytes of a uint64 are one number.                               *)
(***************************************************************************)
EXTENDS Integers, Sequences, FiniteSets, SequencesExt, ObserverOps

CONSTANTS
  Keepers,       \* states a keeper may be in
  DenyPkgs,      \* packages under denyPkgPrefixes
  TxCount,       \* transactions in the block
  MaxCallbacks,  \* bound: OnTxStart/OnTxEnd calls of the runner
  MaxMutations   \* bound: assignments to the keeper in the block

ASSUME TrackerAssumption == {TxCount, MaxCallbacks, MaxMutations} \subseteq Nat /\ TxCount > 0

maxDepth == 8

shouldSkipField(f) == f.kind \in {"func", "chan", "unsafe", "interface"} \/ f.pkg \in DenyPkgs

-------------------------------------------------------------------------------
(* snapshotVal and its helpers return the bytes and the pointers visited.    *)
(* nth is the choice the iteration over a map makes among keys of one text.  *)

writeUint64(n) == <<n>>
Bracket(name) == <<91>> \o name \o <<93>>
OpenEntry(text) == <<123>> \o text \o <<58>>
CloseEntry == <<125>>

RECURSIVE snapshotVal(_, _, _, _, _)

\* Values one after another, each between the bytes pre and post.
snapshotAll(heap, items, visited, depth, nth) ==
  FoldLeft(LAMBDA acc, it :
             LET r == snapshotVal(heap, it.val, acc.visited, depth, nth)
             IN  [buf |-> acc.buf \o it.pre \o r.buf \o it.post, visited |-> r.visited],
           [buf |-> <<>>, visited |-> visited], items)

Silent(visited) == [buf |-> <<>>, visited |-> visited]

Locks == {"sync.Mutex", "sync.RWMutex", "sync.Once"}
Kept(v) == SelectSeq(v.fields, LAMBDA f : ~shouldSkipField(f))

snapshotStruct(heap, v, visited, depth, nth) ==
  IF v.type \in Locks THEN Silent(visited)
  ELSE snapshotAll(heap,
         [n \in DOMAIN Kept(v) |-> [pre |-> Bracket(Kept(v)[n].name), val |-> Kept(v)[n].val, post |-> <<>>]],
         visited, depth + 1, nth)

\* sort.Strings; keys of one text are adjacent, in any order.
SortsBefore(k, l) ==
  \/ \E n \in 0 .. Len(k.text) :
       /\ Len(l.text) > n /\ \A m \in 1 .. n : k.text[m] = l.text[m]
       /\ Len(k.text) > n => k.text[n + 1] < l.text[n + 1]
  \/ k.text = l.text /\ k.id < l.id

\* keyByStr: of the keys with one text the last one visited is looked up for all of them.
keyByStr(keys, text, nth) ==
  LET twins == SetToSortSeq({k \in keys : k.text = text}, SortsBefore)
  IN  twins[(nth % Len(twins)) + 1]

snapshotMap(heap, v, visited, depth, nth) ==
  LET keys == SetToSortSeq(DOMAIN v.entries, SortsBefore)
      found(n) == keyByStr(DOMAIN v.entries, keys[n].text, nth)
  IN  snapshotAll(heap,
        [n \in DOMAIN keys |-> [pre |-> OpenEntry(keys[n].text), val |-> v.entries[found(n)], post |-> CloseEntry]],
        visited, depth + 1, nth)

snapshotSlice(heap, v, visited, depth, nth) ==
  LET r == snapshotAll(heap, [n \in DOMAIN v.elems |-> [pre |-> <<>>, val |-> v.elems[n], post |-> <<>>]],
                       visited, depth + 1, nth)
  IN  IF v.isNil THEN Silent(visited) ELSE [r EXCEPT !.buf = writeUint64(Len(v.elems)) \o @]

snapshotVal(heap, v, visited, depth, nth) ==
  CASE depth > maxDepth \/ v.kind = "other" -> Silent(visited)
    [] depth <= maxDepth /\ v.kind = "ptr" ->
         IF v.to = 0 \/ v.to \in visited THEN Silent(visited)
         ELSE snapshotVal(heap, heap[v.to], visited \cup {v.to}, depth + 1, nth)
    [] depth <= maxDepth /\ v.kind = "struct" -> snapshotStruct(heap, v, visited, depth, nth)
    [] depth <= maxDepth /\ v.kind = "map"    -> snapshotMap(heap, v, visited, depth, nth)
    [] depth <= maxDepth /\ v.kind = "slice"  -> snapshotSlice(heap, v, visited, depth, nth)
    [] depth <= maxDepth /\ v.kind \in {"int", "bool"} -> [buf |-> writeUint64(v.val), visited |-> visited]
    [] depth <= maxDepth /\ v.kind = "string" ->
         [buf |-> writeUint64(Len(v.val)) \o v.val, visited |-> visited]

\* nil for an empty buffer.
SnapshotOutOfKVStoreState(k, nth) ==
  LET buf == snapshotVal(k.heap, k.root, {}, 0, nth).buf IN IF buf = <<>> THEN <<>> ELSE <<buf>>

-------------------------------------------------------------------------------
VARIABLES
  phase,     \* "before" FinalizeBlock, "block", "after"
  caller,    \* who compares: "executor" (oraclePreSnaps), "observer" (CaptureBeforeBlock)
  keeper,    \* the keeper now
  atBegin,   \* the keeper before the block
  preSnaps,  \* oraclePreSnaps
  obs,
  callbacks, mutations   \* left

vars == <<phase, caller, keeper, atBegin, preSnaps, obs, callbacks, mutations>>

snaps(nth) == <<SnapshotOutOfKVStoreState(keeper, nth)>>

\* Bound: keys of one text in one map.
Twins == {0, 1}

Init ==
  /\ phase = "before" /\ caller \in {"executor", "observer"}
  /\ keeper \in Keepers /\ atBegin = keeper
  /\ preSnaps = <<<<>>>> /\ obs = NewBlockObserver(TxCount, 1)
  /\ callbacks = MaxCallbacks /\ mutations = MaxMutations

Before(nth) ==
  /\ phase = "before" /\ phase' = "block"
  /\ atBegin' = keeper
  /\ IF caller = "executor" THEN preSnaps' = snaps(nth) /\ UNCHANGED obs
                            ELSE obs' = CaptureBeforeBlock(obs, snaps(nth)) /\ UNCHANGED preSnaps
  /\ UNCHANGED <<caller, keeper, callbacks, mutations>>

\* A handler assigns to the keeper's fields.
Mutate(k) ==
  /\ phase = "block" /\ mutations > 0
  /\ keeper' = k
  /\ mutations' = mutations - 1
  /\ UNCHANGED <<phase, caller, atBegin, preSnaps, obs, callbacks>>

\* The runner's callbacks, at whatever moment it makes them.
TxStart(i, nth) ==
  /\ phase = "block" /\ callbacks > 0
  /\ callbacks' = callbacks - 1
  /\ obs' = OnTxStart(obs, i, snaps(nth))
  /\ UNCHANGED <<phase, caller, keeper, atBegin, preSnaps, mutations>>

TxEnd(i, nth) ==
  /\ phase = "block" /\ callbacks > 0
  /\ callbacks' = callbacks - 1
  /\ obs' = OnTxEnd(obs, i, snaps(nth))
  /\ UNCHANGED <<phase, caller, keeper, atBegin, preSnaps, mutations>>

After(nth) ==
  /\ phase = "block" /\ phase' = "after"
  /\ obs' = IF caller = "executor" THEN AddBlockMutations(obs, MutationRecords(preSnaps, snaps(nth)))
                                   ELSE CaptureAfterBlock(obs, snaps(nth))
  /\ UNCHANGED <<caller, keeper, atBegin, preSnaps, callbacks, mutations>>

Done == phase = "after" /\ UNCHANGED vars

Next ==
  \/ \E k \in Keepers : Mutate(k)
  \/ \E nth \in Twins :
       \/ Before(nth) \/ After(nth)
       \/ \E i \in 0 .. TxCount - 1 : TxStart(i, nth) \/ TxEnd(i, nth)
  \/ Done

Spec == Init /\ [][Next]_vars

-------------------------------------------------------------------------------
(***************************************************************************)
(* Reference: the tracked content as a tree, nothing flattened.  A pointer   *)
(* stands for what it points to; what leaves no trace is Nothing.            *)
(***************************************************************************)
Nothing == [kind |-> "nothing"]
Node(kind, kids) == [kind |-> kind, kids |-> kids]

RECURSIVE Content(_, _, _)
Content(heap, v, depth) ==
  LET below(w) == Content(heap, w, depth + 1)
  IN
  CASE depth > maxDepth \/ v.kind = "other" -> Nothing
    [] depth <= maxDepth /\ v.kind = "ptr" -> IF v.to = 0 THEN Nothing ELSE below(heap[v.to])
    [] depth <= maxDepth /\ v.kind = "struct" ->
         IF v.type \in Locks \/ Kept(v) = <<>> THEN Nothing
         ELSE Node("struct", [n \in DOMAIN Kept(v) |-> below(Kept(v)[n].val)])
    [] depth <= maxDepth /\ v.kind = "map" ->
         IF DOMAIN v.entries = {} THEN Nothing
         ELSE Node("map", [x \in DOMAIN v.entries |-> below(v.entries[x])])
    [] depth <= maxDepth /\ v.kind = "slice" ->
         IF v.isNil THEN Nothing ELSE Node("slice", [n \in DOMAIN v.elems |-> below(v.elems[n])])
    [] depth <= maxDepth /\ v.kind \in {"int", "bool", "string"} -> Node("scalar", v.val)

Tree(k) == Content(k.heap, k.root, 0)

\* The trees differ by one assignment: a scalar, something that appears or vanishes, the
\* length of a slice, a key put into or deleted from a map, all else being equal.
RECURSIVE OneChange(_, _)
OneChange(a, b) ==
  \/ (a = Nothing) # (b = Nothing)
  \/ /\ a # Nothing /\ b # Nothing /\ a.kind = b.kind /\ a # b
     /\ \/ a.kind = "scalar"
        \/ a.kind = "slice" /\ Len(a.kids) # Len(b.kids)
        \/ /\ a.kind = "map"
           /\ LET more == (DOMAIN a.kids \ DOMAIN b.kids) \cup (DOMAIN b.kids \ DOMAIN a.kids)
                  both == DOMAIN a.kids \cap DOMAIN b.kids
              IN  Cardinality(more) = 1 /\ \A x \in both : a.kids[x] = b.kids[x]
        \/ /\ a.kind # "scalar" /\ DOMAIN a.kids = DOMAIN b.kids
           /\ \E x \in DOMAIN a.kids :
                /\ OneChange(a.kids[x], b.kids[x])
                /\ \A y \in DOMAIN a.kids \ {x} : a.kids[y] = b.kids[y]

\* How often each address is pointed at, by the root and from the heap.
RECURSIVE Targets(_)
Targets(v) ==
  CASE v.kind = "ptr"    -> <<v.to>>
    [] v.kind = "struct" -> FlattenSeq([n \in DOMAIN v.fields |-> Targets(v.fields[n].val)])
    [] v.kind = "slice"  -> FlattenSeq([n \in DOMAIN v.elems |-> Targets(v.elems[n])])
    [] v.kind = "map"    -> LET keys == SetToSeq(DOMAIN v.entries)
                            IN  FlattenSeq([n \in DOMAIN keys |-> Targets(v.entries[keys[n]])])
    [] OTHER             -> <<>>

\* No pointer is shared: what a second pointer to a visited object shows is nothing.
Unshared(k) ==
  LET all == Targets(k.root) \o FlattenSeq([a \in DOMAIN k.heap |-> Targets(k.heap[a])])
  IN  \A m, n \in DOMAIN all : m # n /\ all[m] = all[n] => all[m] = 0

\* No map has two keys of one text: only one of their values is ever read.
RECURSIVE TextsDiffer(_)
TextsDiffer(tree) ==
  \/ tree.kind \in {"nothing", "scalar"}
  \/ /\ tree.kind = "map" => \A x, y \in DOMAIN tree.kids : x.text = y.text => x = y
     /\ \A x \in DOMAIN tree.kids : TextsDiffer(tree.kids[x])

Plain(k) == Unshared(k) /\ TextsDiffer(Tree(k))

\* For keepers without shared pointers or keys of one text: the block's comparison, the
\* executors' and the observer's, reports a mutation only if the tracked content is not what
\* it was before the block, and always if it differs by one assignment, whatever OnTxStart
\* and OnTxEnd calls the runner makes in between and whatever else of the keeper changed
\* (locks, skipped fields, what lies too deep).  Several assignments may cancel out: a nil
\* element leaves no bytes, and neither keys nor elements are delimited.
BlockCaptureExact ==
  [][phase = "block" /\ phase' = "after" /\ Plain(atBegin) /\ Plain(keeper) =>
       LET reported == obs'.mutSets[0] # obs.mutSets[0]
       IN  /\ reported => Tree(atBegin) # Tree(keeper)
           /\ OneChange(Tree(atBegin), Tree(keeper)) => reported]_vars
================================================================================
