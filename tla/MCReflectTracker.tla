--------------------------- MODULE MCReflectTracker ---------------------------
(***************************************************************************)
(* A keeper with a lock, a linked list, a map of pointers, a set of names, a *)
(* slice, a slice of pointers, a string, a function, a float and a store, in *)
(* states that differ in one or more of them.                               *)
(***************************************************************************)
EXTENDS ReflectTracker, TLC

Int1(n) == [kind |-> "int", val |-> n]
Str(s) == [kind |-> "string", val |-> s]
Ptr(a) == [kind |-> "ptr", to |-> a]
Slice(s) == [kind |-> "slice", isNil |-> FALSE, elems |-> s]
NilSlice == [kind |-> "slice", isNil |-> TRUE, elems |-> <<>>]
Map(f) == [kind |-> "map", entries |-> f]
Struct(t, fs) == [kind |-> "struct", type |-> t, fields |-> fs]
Field(n, k, v) == [name |-> <<n>>, kind |-> k, pkg |-> "x", val |-> v]
ListNode(n, next) == Struct("Node", <<Field(1, "int", Int1(n)), Field(2, "struct", Ptr(next))>>)

\* Keys: 1 and 2, whose text is a digit; TrueKey and TrueText, equal under %v; and texts with
\* the characters that end an entry.
Key(n) == [text |-> <<48 + n>>, id |-> 0]
TrueKey == [text |-> <<116>>, id |-> 0]
TrueText == [text |-> <<116>>, id |-> 1]
KeyA == [text |-> <<97>>, id |-> 0]
KeyB == [text |-> <<98>>, id |-> 0]
KeyAB == [text |-> <<97, 58, 125, 123, 98>>, id |-> 0]

\* The keeper is at address 9.  Nodes 1 to 5 are the list, as long as vals says; 6 and 7 are
\* for the map, 8 for the slice of pointers.
Base == [lock |-> 0, vals |-> <<1>>, entries |-> [x \in {} |-> Ptr(0)], m |-> 0, names |-> {},
         slice |-> NilSlice, ptrs |-> <<>>, name |-> <<>>, cache |-> 0, kvs |-> 0]

Root(k) ==
  Struct("Keeper", <<
    Field(11, "struct", Struct("sync.Mutex", <<Field(1, "int", Int1(k.lock))>>)),
    Field(12, "struct", Ptr(IF k.vals = <<>> THEN 0 ELSE 1)),
    Field(13, "map", Map(k.entries)),
    Field(14, "map", Map([x \in k.names |-> Struct("struct{}", <<>>)])),
    Field(15, "slice", k.slice),
    Field(16, "slice", Slice(k.ptrs)),
    Field(17, "string", Str(k.name)),
    Field(18, "func", Int1(k.cache)),
    Field(19, "other", [kind |-> "other"]),
    [name |-> <<20>>, kind |-> "struct", pkg |-> "cosmossdk.io/core/store", val |-> Struct("Store", <<Field(1, "int", Int1(k.kvs))>>)]>>)

Keeper(k) ==
  [root |-> Ptr(9),
   heap |-> [a \in 1 .. 9 |->
     CASE a = 9 -> Root(k)
       [] a <= Len(k.vals) -> ListNode(k.vals[a], IF a < Len(k.vals) THEN a + 1 ELSE 0)
       [] a \in 6 .. 7 -> ListNode(k.m, 0)
       [] OTHER -> ListNode(0, 0)]]

\* The list has its third value at the last depth that is read, its fourth below it.
SomeKeepers ==
  {Keeper(k) : k \in {
     Base,
     [Base EXCEPT !.lock = 1, !.cache = 1, !.kvs = 1],
     [Base EXCEPT !.vals = <<>>],
     [Base EXCEPT !.vals = <<1, 1>>],
     [Base EXCEPT !.vals = <<1, 2, 3>>],
     [Base EXCEPT !.vals = <<1, 2, 3, 4>>],
     [Base EXCEPT !.vals = <<1, 2, 4>>],
     [Base EXCEPT !.entries = (Key(1) :> Ptr(0))],
     [Base EXCEPT !.entries = (Key(1) :> Ptr(6))],
     [Base EXCEPT !.entries = (Key(1) :> Ptr(6)), !.m = 3],
     [Base EXCEPT !.entries = (Key(2) :> Ptr(6))],
     [Base EXCEPT !.entries = (Key(1) :> Ptr(6)) @@ (Key(2) :> Ptr(7))],
     [Base EXCEPT !.entries = (Key(1) :> Ptr(6)) @@ (Key(2) :> Ptr(6))],
     [Base EXCEPT !.entries = (TrueKey :> Ptr(6)) @@ (TrueText :> Ptr(0))],
     [Base EXCEPT !.names = {KeyA}],
     [Base EXCEPT !.names = {KeyA, KeyB}],
     [Base EXCEPT !.names = {KeyAB}],
     [Base EXCEPT !.slice = Slice(<<>>)],
     [Base EXCEPT !.slice = Slice(<<Int1(1)>>)],
     [Base EXCEPT !.slice = Slice(<<Int1(1), Int1(0)>>)],
     [Base EXCEPT !.ptrs = <<Ptr(0), Ptr(8)>>],
     [Base EXCEPT !.ptrs = <<Ptr(8), Ptr(0)>>],
     [Base EXCEPT !.ptrs = <<Ptr(0), Ptr(0)>>],
     [Base EXCEPT !.name = <<97>>],
     [Base EXCEPT !.name = <<97, 93>>]}}

Denied == {"cosmossdk.io/core/store"}
================================================================================
