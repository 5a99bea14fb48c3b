---------------------------- MODULE DataLemmas --------------------------------
(***************************************************************************)
(* Facts about numbers, finite sets and flattened sequences that the proofs *)
(* of the components share.  The library's induction theorems take an       *)
(* operator as a parameter and cannot be used by the provers at hand; here  *)
(* induction is obtained from a theorem about sets: the strict-subset order *)
(* on the finite subsets of a set is well-founded, and a non-empty set has  *)
(* a minimal element in a well-founded order.                               *)
(***************************************************************************)
EXTENDS Integers, Sequences, SequencesExt, FiniteSetTheorems, WellFoundedInduction, TLAPS

\* A non-empty set of natural numbers has a least element.
LEMMA LeastNatural ==
  ASSUME NEW T, T \subseteq Nat, T # {}
  PROVE  \E x \in T : \A y \in T : x <= y
<1>1. PICK n \in T : n \in Nat  OBVIOUS
<1> DEFINE Below == {0 .. k : k \in {j \in T : j <= n}}
<1>2. IsWellFoundedOn(StrictSubsetOrdering(0 .. n), FiniteSubsetsOf(0 .. n))
  BY FS_StrictSubsetOrderingWellFounded
<1>3. Below \subseteq FiniteSubsetsOf(0 .. n)
  <2> SUFFICES ASSUME NEW k \in T, k <= n PROVE 0 .. k \in FiniteSubsetsOf(0 .. n)
    OBVIOUS
  <2>1. IsFiniteSet(0 .. k)  BY FS_Interval, k \in Int, 0 \in Int
  <2>2. 0 .. k \in SUBSET (0 .. n)  BY <1>1
  <2>3. QED  BY <2>1, <2>2 DEF FiniteSubsetsOf
<1>4. Below # {}  BY <1>1
<1>5. \E b \in Below : \A c \in Below : ~(<<c, b>> \in StrictSubsetOrdering(0 .. n))
  <2> HIDE DEF Below
  <2> QED  BY <1>2, <1>3, <1>4, WFMin
<1>6. PICK k \in T : /\ k <= n
                     /\ \A j \in T : j <= n => ~(<<0 .. j, 0 .. k>> \in StrictSubsetOrdering(0 .. n))
  BY <1>5
<1>7. ASSUME NEW j \in T, j < k PROVE FALSE
  <2>1. j \in Nat /\ k \in Nat /\ j <= n  BY <1>1, <1>6, <1>7
  <2>2. 0 .. j \subseteq 0 .. k /\ k \in 0 .. k /\ k \notin 0 .. j  BY <2>1, <1>7
  <2>3. 0 .. j \in SUBSET (0 .. n) /\ 0 .. k \in SUBSET (0 .. n)  BY <1>1, <1>6, <2>1
  <2>4. <<0 .. j, 0 .. k>> \in StrictSubsetOrdering(0 .. n)  BY <2>2, <2>3 DEF StrictSubsetOrdering
  <2>5. QED  BY <1>6, <2>1, <2>4
<1>8. QED
  <2>1. \A j \in T : k <= j  BY <1>1, <1>6, <1>7
  <2>2. QED BY <2>1

\* A non-empty finite set of integers has a greatest element: Max is what its name says.
LEMMA MaxOfFinite ==
  ASSUME NEW S, S \subseteq Int, S # {}, IsFiniteSet(S)
  PROVE  Max(S) \in S /\ \A y \in S : y <= Max(S)
<1> DEFINE From(x) == {y \in S : y >= x}
           Tails == {From(x) : x \in S}
<1>1. IsWellFoundedOn(StrictSubsetOrdering(S), FiniteSubsetsOf(S))
  BY FS_StrictSubsetOrderingWellFounded
<1>2. Tails \subseteq FiniteSubsetsOf(S)
  <2> SUFFICES ASSUME NEW x \in S PROVE From(x) \in FiniteSubsetsOf(S)
    OBVIOUS
  <2>1. From(x) \in SUBSET S  OBVIOUS
  <2>2. IsFiniteSet(From(x))  BY <2>1, FS_Subset
  <2>3. QED  BY <2>1, <2>2 DEF FiniteSubsetsOf
<1>3. Tails # {}  OBVIOUS
<1>4. \E b \in Tails : \A c \in Tails : ~(<<c, b>> \in StrictSubsetOrdering(S))
  <2> HIDE DEF Tails
  <2> QED  BY <1>1, <1>2, <1>3, WFMin
<1>5. PICK x \in S : \A y \in S : ~(<<From(y), From(x)>> \in StrictSubsetOrdering(S))
  <2> HIDE DEF From
  <2> QED  BY <1>4
<1>6. ASSUME NEW y \in S, y > x PROVE FALSE
  <2>1. From(y) \in SUBSET S /\ From(x) \in SUBSET S  OBVIOUS
  <2>2. From(y) \subseteq From(x) /\ x \in From(x) /\ x \notin From(y)
    <3>1. \A z \in S : z \in Int  OBVIOUS
    <3>2. \A z \in S : z >= y => z >= x  BY <1>6, <3>1
    <3>3. x >= x /\ ~(x >= y)  BY <1>6, <3>1
    <3>4. QED  BY <3>2, <3>3
  <2>3. <<From(y), From(x)>> \in StrictSubsetOrdering(S)
    <3> HIDE DEF From
    <3> QED  BY <2>1, <2>2 DEF StrictSubsetOrdering
  <2>4. QED  BY <1>5, <2>3
<1>7. \A y \in S : x >= y  BY <1>6
<1>8. \E m \in S : \A y \in S : m >= y  BY <1>7
<1>9. QED  BY <1>8 DEF Max

\* Induction, for a set of natural numbers.
LEMMA SetInduction ==
  ASSUME NEW I, 0 \in I, \A n \in Nat : n \in I => n + 1 \in I
  PROVE  \A n \in Nat : n \in I
<1> SUFFICES ASSUME NEW n \in Nat, n \notin I PROVE FALSE  OBVIOUS
<1> DEFINE T == {m \in Nat : m \notin I}
<1>1. PICK x \in T : \A y \in T : x <= y
  <2>1. T \subseteq Nat /\ T # {}  OBVIOUS
  <2> HIDE DEF T
  <2>2. QED  BY <2>1, LeastNatural
<1>2. x # 0 /\ x - 1 \in Nat /\ x - 1 \in I  BY <1>1
<1>3. QED  BY <1>1, <1>2

-------------------------------------------------------------------------------
\* The prefixes of the flattened sequence, one per inner sequence.
PrefixConcats(seqs, f) ==
  f = [i \in 1 .. Len(seqs) |-> IF i = 1 THEN seqs[i] ELSE f[i - 1] \o seqs[i]]

\* There is such a function.
LEMMA PrefixConcatsExist ==
  ASSUME NEW S, NEW seqs \in Seq(Seq(S))
  PROVE  \E f : PrefixConcats(seqs, f)
<1> DEFINE next(f, i) == IF i = 1 THEN seqs[i] ELSE f[i - 1] \o seqs[i]
           Upto(n, f) == f = [i \in 1 .. n |-> f[i]] /\ \A i \in 1 .. n : f[i] = next(f, i)
           I == {n \in Nat : \E f : Upto(n, f)}
<1>1. 0 \in I
  <2>1. Upto(0, [i \in 1 .. 0 |-> 0])  OBVIOUS
  <2>2. QED  BY <2>1
<1>2. ASSUME NEW n \in Nat, n \in I PROVE n + 1 \in I
  <2>1. PICK f : Upto(n, f)  BY <1>2
  <2> DEFINE g == [i \in 1 .. n + 1 |-> IF i <= n THEN f[i] ELSE next(f, i)]
  <2>2. \A i \in 1 .. n + 1 : g[i] = next(g, i)
    <3> SUFFICES ASSUME NEW i \in 1 .. n + 1 PROVE g[i] = next(g, i)  OBVIOUS
    <3>1. i # 1 => i - 1 \in 1 .. n /\ g[i - 1] = f[i - 1]  OBVIOUS
    <3>2. i <= n => i \in 1 .. n  OBVIOUS
    <3>3. i <= n => f[i] = next(f, i)  BY <2>1, <3>2
    <3>4. g[i] = next(f, i)  BY <3>3
    <3>5. QED  BY <3>1, <3>4
  <2>3. Upto(n + 1, g)
    <3>1. g = [i \in 1 .. n + 1 |-> g[i]]  OBVIOUS
    <3> HIDE DEF g, next
    <3> QED  BY <2>2, <3>1
  <2>4. n + 1 \in Nat  OBVIOUS
  <2> HIDE DEF g, Upto
  <2>5. QED  BY <2>3, <2>4
<1>3. \A n \in Nat : n \in I
  <2> HIDE DEF I
  <2> QED  BY <1>1, <1>2, SetInduction
<1>4. PICK f : Upto(Len(seqs), f)
  <2>1. Len(seqs) \in Nat  OBVIOUS
  <2> HIDE DEF Upto
  <2> QED  BY <1>3, <2>1
<1>5. f = [i \in 1 .. Len(seqs) |-> next(f, i)]
  <2> HIDE DEF next
  <2>1. QED  BY <1>4
<1>6. QED  BY <1>5 DEF PrefixConcats

\* FlattenSeq is the longest of the prefixes.
LEMMA FlattenByPrefixes ==
  ASSUME NEW S, NEW seqs \in Seq(Seq(S)), seqs # <<>>
  PROVE  \E f : PrefixConcats(seqs, f) /\ FlattenSeq(seqs) = f[Len(seqs)]
<1> DEFINE f == CHOOSE g : PrefixConcats(seqs, g)
<1>1. PrefixConcats(seqs, f)  BY PrefixConcatsExist
<1>2. Len(seqs) # 0  OBVIOUS
<1>3. FlattenSeq(seqs) = f[Len(seqs)]
  BY <1>2 DEF FlattenSeq, PrefixConcats
<1>4. QED  BY <1>1, <1>3

\* x is an element of s.
Occurs(x, s) == \E n \in DOMAIN s : s[n] = x

\* The elements of a concatenation.
LEMMA ConcatOccurs ==
  ASSUME NEW S, NEW s \in Seq(S), NEW t \in Seq(S)
  PROVE  /\ s \o t \in Seq(S)
         /\ Len(s \o t) = Len(s) + Len(t)
         /\ \A x : Occurs(x, s \o t) <=> Occurs(x, s) \/ Occurs(x, t)
<1>1. /\ s \o t \in Seq(S) /\ Len(s \o t) = Len(s) + Len(t)
      /\ Len(s) \in Nat /\ Len(t) \in Nat
      /\ DOMAIN s = 1 .. Len(s) /\ DOMAIN t = 1 .. Len(t) /\ DOMAIN (s \o t) = 1 .. Len(s) + Len(t)
      /\ \A n \in 1 .. Len(s) : (s \o t)[n] = s[n]
      /\ \A n \in 1 .. Len(t) : (s \o t)[Len(s) + n] = t[n]
  OBVIOUS
<1>2. ASSUME NEW x, Occurs(x, s \o t) PROVE Occurs(x, s) \/ Occurs(x, t)
  <2>1. PICK n \in 1 .. Len(s) + Len(t) : (s \o t)[n] = x  BY <1>1, <1>2 DEF Occurs
  <2>2. CASE n <= Len(s)  BY <1>1, <2>1, <2>2 DEF Occurs
  <2>3. CASE n > Len(s)
    <3>1. n - Len(s) \in 1 .. Len(t) /\ Len(s) + (n - Len(s)) = n  BY <1>1, <2>3
    <3>2. (s \o t)[Len(s) + (n - Len(s))] = t[n - Len(s)]  BY <1>1, <3>1
    <3>3. t[n - Len(s)] = x  BY <2>1, <3>1, <3>2
    <3>4. QED  BY <1>1, <3>1, <3>3 DEF Occurs
  <2>4. QED  BY <1>1, <2>2, <2>3
<1>3. ASSUME NEW x, Occurs(x, s) PROVE Occurs(x, s \o t)
  <2>1. PICK n \in 1 .. Len(s) : s[n] = x  BY <1>1, <1>3 DEF Occurs
  <2>2. n \in 1 .. Len(s) + Len(t) /\ (s \o t)[n] = x  BY <1>1, <2>1
  <2>3. QED  BY <1>1, <2>2 DEF Occurs
<1>4. ASSUME NEW x, Occurs(x, t) PROVE Occurs(x, s \o t)
  <2>1. PICK n \in 1 .. Len(t) : t[n] = x  BY <1>1, <1>4 DEF Occurs
  <2>2. Len(s) + n \in 1 .. Len(s) + Len(t) /\ (s \o t)[Len(s) + n] = x  BY <1>1, <2>1
  <2>3. QED  BY <1>1, <2>2 DEF Occurs
<1>5. QED  BY <1>1, <1>2, <1>3, <1>4

\* A sequence is empty exactly if nothing occurs in it.
LEMMA EmptyOccurs ==
  ASSUME NEW S, NEW s \in Seq(S)
  PROVE  s = <<>> <=> \A x : ~Occurs(x, s)
<1>1. s = <<>> => \A x : ~Occurs(x, s)  BY DEF Occurs
<1>2. ASSUME s # <<>> PROVE \E x : Occurs(x, s)
  <2>1. 1 \in DOMAIN s  BY <1>2
  <2>2. QED  BY <2>1 DEF Occurs
<1>3. QED  BY <1>1, <1>2

\* The flattened sequence has exactly the elements of its parts.
LEMMA FlattenOccurs ==
  ASSUME NEW S, NEW seqs \in Seq(Seq(S))
  PROVE  /\ FlattenSeq(seqs) \in Seq(S)
         /\ \A x : Occurs(x, FlattenSeq(seqs)) <=> \E i \in DOMAIN seqs : Occurs(x, seqs[i])
<1>1. CASE seqs = <<>>
  BY <1>1 DEF FlattenSeq, Occurs
<1>2. CASE seqs # <<>>
  <2>1. PICK f : PrefixConcats(seqs, f) /\ FlattenSeq(seqs) = f[Len(seqs)]
    BY <1>2, FlattenByPrefixes
  <2>2. /\ Len(seqs) \in Nat /\ Len(seqs) > 0 /\ DOMAIN seqs = 1 .. Len(seqs)
        /\ \A i \in 1 .. Len(seqs) : seqs[i] \in Seq(S)
    BY <1>2
  <2>3. \A i \in 1 .. Len(seqs) : f[i] = IF i = 1 THEN seqs[i] ELSE f[i - 1] \o seqs[i]
    BY <2>1 DEF PrefixConcats
  <2> DEFINE Good(n) == /\ f[n] \in Seq(S)
                        /\ \A x : Occurs(x, f[n]) <=> \E i \in 1 .. n : Occurs(x, seqs[i])
             I == {n \in Nat : n \in 1 .. Len(seqs) => Good(n)}
  <2>4. 0 \in I  OBVIOUS
  <2>5. ASSUME NEW n \in Nat, n \in I PROVE n + 1 \in I
    <3>0. SUFFICES ASSUME n + 1 \in 1 .. Len(seqs) PROVE Good(n + 1)
      <4> HIDE DEF Good
      <4> QED  OBVIOUS
    <3>1. CASE n = 0
      <4>1. f[1] = seqs[1]  BY <2>2, <2>3
      <4>2. 1 .. 1 = {1}  OBVIOUS
      <4>3. QED  BY <2>2, <3>1, <4>1, <4>2
    <3>2. CASE n > 0
      <4>1. n \in 1 .. Len(seqs) /\ n + 1 # 1 /\ (n + 1) - 1 = n  BY <2>2, <3>0, <3>2
      <4>2. Good(n)  BY <2>5, <4>1
      <4>3. f[n + 1] = f[n] \o seqs[n + 1]  BY <2>3, <3>0, <4>1
      <4>4. seqs[n + 1] \in Seq(S)  BY <2>2, <3>0
      <4>5. /\ f[n + 1] \in Seq(S)
            /\ \A x : Occurs(x, f[n + 1]) <=> Occurs(x, f[n]) \/ Occurs(x, seqs[n + 1])
        BY <4>2, <4>3, <4>4, ConcatOccurs
      <4>6. 1 .. n + 1 = (1 .. n) \cup {n + 1}  OBVIOUS
      <4>7. QED  BY <4>2, <4>5, <4>6
    <3>3. QED  BY <3>1, <3>2
  <2>6. \A n \in Nat : n \in I
    <3> HIDE DEF I
    <3> QED  BY <2>4, <2>5, SetInduction
  <2>7. Good(Len(seqs))
    <3> HIDE DEF Good
    <3> QED  BY <2>2, <2>6
  <2>8. QED  BY <2>1, <2>2, <2>7
<1>3. QED  BY <1>1, <1>2

-------------------------------------------------------------------------------
\* s is a sequence, of whatever elements.
ASequence(s) == s \in Seq(Range(s))

\* A sequence over any set.
LEMMA SeqIsASequence ==
  ASSUME NEW S, NEW s \in Seq(S)
  PROVE  ASequence(s)
<1>1. Len(s) \in Nat /\ s \in [1 .. Len(s) -> S] /\ DOMAIN s = 1 .. Len(s)  OBVIOUS
<1>2. \A i \in 1 .. Len(s) : s[i] \in Range(s)  BY <1>1 DEF Range
<1>3. s \in [1 .. Len(s) -> Range(s)]
  <2> HIDE DEF Range
  <2> QED  BY <1>1, <1>2
<1>4. QED
  <2> HIDE DEF Range
  <2> QED  BY <1>1, <1>3 DEF ASequence

\* A sequence whose elements are in S.
LEMMA SeqOver ==
  ASSUME NEW S, NEW s, ASequence(s), \A x : Occurs(x, s) => x \in S
  PROVE  s \in Seq(S)
<1>1. s \in Seq(Range(s))  BY DEF ASequence
<1>2. Range(s) \subseteq S  BY DEF Range, Occurs
<1>3. QED
  <2> HIDE DEF Range
  <2> QED  BY <1>1, <1>2

\* The concatenation of two sequences.
LEMMA ASequenceConcat ==
  ASSUME NEW s, NEW t, ASequence(s), ASequence(t)
  PROVE  /\ ASequence(s \o t)
         /\ \A x : Occurs(x, s \o t) <=> Occurs(x, s) \/ Occurs(x, t)
<1> DEFINE S == Range(s) \cup Range(t)
<1>1. \A x : Occurs(x, s) \/ Occurs(x, t) => x \in S  BY DEF Occurs, Range
<1>2. s \in Seq(S) /\ t \in Seq(S)
  <2> HIDE DEF S
  <2> QED  BY <1>1, SeqOver
<1>3. QED
  <2> HIDE DEF S
  <2> QED  BY <1>2, ConcatOccurs, SeqIsASequence

\* The positions of a concatenation.
LEMMA ASequenceAt ==
  ASSUME NEW s, NEW t, ASequence(s), ASequence(t)
  PROVE  /\ Len(s) \in Nat /\ Len(t) \in Nat /\ DOMAIN s = 1 .. Len(s) /\ DOMAIN t = 1 .. Len(t)
         /\ DOMAIN (s \o t) = 1 .. Len(s) + Len(t) /\ Len(s \o t) = Len(s) + Len(t)
         /\ \A k \in 1 .. Len(s) : (s \o t)[k] = s[k]
         /\ \A k \in 1 .. Len(t) : (s \o t)[Len(s) + k] = t[k]
<1> DEFINE S == Range(s) \cup Range(t)
<1>1. s \in Seq(Range(s)) /\ t \in Seq(Range(t))  BY DEF ASequence
<1>2. s \in Seq(S) /\ t \in Seq(S)
  <2> HIDE DEF Range
  <2> QED  BY <1>1
<1> HIDE DEF S
<1>3. QED  BY <1>2

\* The flattening of sequences.
LEMMA ASequenceFlatten ==
  ASSUME NEW n \in Nat, NEW seqs, seqs = [i \in 1 .. n |-> seqs[i]], \A i \in 1 .. n : ASequence(seqs[i])
  PROVE  /\ ASequence(FlattenSeq(seqs))
         /\ \A x : Occurs(x, FlattenSeq(seqs)) <=> \E i \in 1 .. n : Occurs(x, seqs[i])
<1> DEFINE S == UNION {Range(seqs[i]) : i \in 1 .. n}
<1>1. \A i \in 1 .. n : \A x : Occurs(x, seqs[i]) => x \in S  BY DEF Occurs, Range
<1>2. \A i \in 1 .. n : seqs[i] \in Seq(S)
  <2> HIDE DEF S
  <2> QED  BY <1>1, SeqOver
<1>3. seqs \in Seq(Seq(S)) /\ DOMAIN seqs = 1 .. n
  <2> HIDE DEF S
  <2>1. seqs \in [1 .. n -> Seq(S)]  BY <1>2
  <2>2. QED  BY <2>1
<1>4. QED
  <2> HIDE DEF S
  <2> QED  BY <1>3, FlattenOccurs, SeqIsASequence

\* A sequence with nothing in it is empty.
LEMMA ASequenceEmpty ==
  ASSUME NEW s, ASequence(s)
  PROVE  s = <<>> <=> \A x : ~Occurs(x, s)
BY EmptyOccurs DEF ASequence

\* The empty sequence and a sequence of one.
LEMMA ASequenceOne ==
  /\ ASequence(<<>>) /\ \A x : ~Occurs(x, <<>>)
  /\ \A y : ASequence(<<y>>) /\ \A x : Occurs(x, <<y>>) <=> x = y
<1>1. <<>> \in Seq({})  OBVIOUS
<1>2. ASSUME NEW y PROVE <<y>> \in Seq({y}) /\ \A x : Occurs(x, <<y>>) <=> x = y
  BY DEF Occurs
<1>3. \A x : ~Occurs(x, <<>>)  BY DEF Occurs
<1>4. ASequence(<<>>)  BY <1>1, SeqIsASequence
<1>5. \A y : ASequence(<<y>>)  BY <1>2, SeqIsASequence
<1>6. QED  BY <1>2, <1>3, <1>4, <1>5

\* A function over the positions of a sequence.
LEMMA ASequenceMap ==
  ASSUME NEW s, ASequence(s), NEW t, t = [k \in DOMAIN s |-> t[k]]
  PROVE  ASequence(t)
<1>1. Len(s) \in Nat /\ DOMAIN s = 1 .. Len(s)
  <2> HIDE DEF Range
  <2> QED  BY DEF ASequence
<1>2. DOMAIN t = DOMAIN s /\ \A k \in DOMAIN s : t[k] \in Range(t)  BY DEF Range
<1>3. t \in [1 .. Len(s) -> Range(t)]
  <2> HIDE DEF Range
  <2> QED  BY <1>1, <1>2
<1>4. QED
  <2> HIDE DEF Range
  <2> QED  BY <1>1, <1>3 DEF ASequence

\* The elements of a sequence after Append.
LEMMA AppendedElements ==
  ASSUME NEW s, ASequence(s), NEW x
  PROVE  /\ ASequence(Append(s, x)) /\ ToSet(Append(s, x)) = ToSet(s) \cup {x}
         /\ DOMAIN s = 1 .. Len(s) /\ Len(s) \in Nat
         /\ DOMAIN Append(s, x) = 1 .. Len(s) + 1 /\ Append(s, x)[Len(s) + 1] = x
         /\ \A k \in 1 .. Len(s) : Append(s, x)[k] = s[k]
<1> DEFINE S == Range(s) \cup {x}
<1>1. s \in Seq(Range(s))  BY DEF ASequence
<1>2. s \in Seq(S)
  <2> HIDE DEF Range
  <2> QED  BY <1>1
<1>3. x \in S  OBVIOUS
<1> HIDE DEF S
<1>4. Append(s, x) \in Seq(S)  BY <1>2, <1>3
<1>5. /\ DOMAIN s = 1 .. Len(s) /\ Len(s) \in Nat
      /\ DOMAIN Append(s, x) = 1 .. Len(s) + 1 /\ Append(s, x)[Len(s) + 1] = x
      /\ \A k \in 1 .. Len(s) : Append(s, x)[k] = s[k]
  BY <1>2, <1>3
<1>6. ToSet(Append(s, x)) = ToSet(s) \cup {x}
  BY <1>5 DEF ToSet
<1>7. QED  BY <1>4, <1>5, <1>6, SeqIsASequence

\* A sequence of numbers is its first elements and the last one.
LEMMA FirstAndLast ==
  ASSUME NEW n \in Nat, NEW t \in [1 .. n + 1 -> Int], NEW s, s = [m \in 1 .. n |-> t[m]]
  PROVE  s \in Seq(Int) /\ Len(s) = n /\ Len(t) = n + 1 /\ t = Append(s, t[Len(s) + 1])
<1>1. s \in [1 .. n -> Int]  OBVIOUS
<1>2. s \in Seq(Int) /\ Len(s) = n /\ t \in Seq(Int) /\ Len(t) = n + 1  BY <1>1
<1>3. DOMAIN Append(s, t[n + 1]) = 1 .. n + 1 /\ Append(s, t[n + 1])[n + 1] = t[n + 1]
      /\ \A m \in 1 .. n : Append(s, t[n + 1])[m] = t[m]
  BY <1>2
<1>4. Append(s, t[n + 1]) \in Seq(Int)  BY <1>2
<1>5. QED  BY <1>2, <1>3, <1>4
===============================================================================
