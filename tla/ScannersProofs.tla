---------------------------- MODULE ScannersProofs ----------------------------
(***************************************************************************)
(* Theorems about Scanners: however the packages of a tree load, each site  *)
(* in scope is reported once, the errors of one package stay with it, and a *)
(* gate that passes has missed nothing.                                     *)
(***************************************************************************)
EXTENDS Scanners, DataLemmas

\* x is a finding of category c at line l of file n.
Match(x, n, l, c) == x.file = n /\ x.line = l /\ x.cat = c

\* No finding, or exactly one, of s is such a finding.
None(s, n, l, c) == \A k \in DOMAIN s : ~Match(s[k], n, l, c)
One(s, n, l, c) ==
  \E k \in DOMAIN s : Match(s[k], n, l, c) /\ \A j \in DOMAIN s : Match(s[j], n, l, c) => j = k

\* None, said of the elements.
LEMMA NoneOccurs ==
  ASSUME NEW s, NEW n, NEW l, NEW c
  PROVE  None(s, n, l, c) <=> \A x : Occurs(x, s) => ~Match(x, n, l, c)
BY DEF None, Occurs

\* None and One of a concatenation.
LEMMA ConcatHits ==
  ASSUME NEW s, NEW t, ASequence(s), ASequence(t), NEW n, NEW l, NEW c
  PROVE  /\ None(s, n, l, c) /\ None(t, n, l, c) => None(s \o t, n, l, c)
         /\ One(s, n, l, c) /\ None(t, n, l, c) => One(s \o t, n, l, c)
         /\ None(s, n, l, c) /\ One(t, n, l, c) => One(s \o t, n, l, c)
<1> DEFINE hit(x) == Match(x, n, l, c)
<1>0. /\ Len(s) \in Nat /\ Len(t) \in Nat
      /\ DOMAIN s = 1 .. Len(s) /\ DOMAIN t = 1 .. Len(t) /\ DOMAIN (s \o t) = 1 .. Len(s) + Len(t)
      /\ \A k \in 1 .. Len(s) : (s \o t)[k] = s[k]
      /\ \A k \in 1 .. Len(t) : (s \o t)[Len(s) + k] = t[k]
      /\ \A k \in 1 .. Len(s) + Len(t) : k <= Len(s) \/ (k - Len(s) \in 1 .. Len(t) /\ (s \o t)[k] = t[k - Len(s)])
  <2>1. s \in Seq(Range(s)) /\ t \in Seq(Range(t))  BY DEF ASequence
  <2> DEFINE S == Range(s) \cup Range(t)
  <2>2. s \in Seq(S) /\ t \in Seq(S)  
    <3> HIDE DEF Range
    <3> QED  BY <2>1
  <2> HIDE DEF S
  <2>3. QED  BY <2>2
<1>1. ASSUME None(s, n, l, c), None(t, n, l, c) PROVE None(s \o t, n, l, c)
  BY <1>0, <1>1 DEF None
<1>2. ASSUME One(s, n, l, c), None(t, n, l, c) PROVE One(s \o t, n, l, c)
  <2>1. PICK k \in 1 .. Len(s) : hit(s[k]) /\ \A j \in 1 .. Len(s) : hit(s[j]) => j = k
    BY <1>0, <1>2 DEF One
  <2>2. k \in 1 .. Len(s) + Len(t) /\ hit((s \o t)[k])  BY <1>0, <2>1
  <2>3. ASSUME NEW j \in 1 .. Len(s) + Len(t), hit((s \o t)[j]) PROVE j = k
    <3>1. j <= Len(s)  BY <1>0, <1>2, <2>3 DEF None
    <3>2. QED  BY <1>0, <2>1, <2>3, <3>1
  <2>4. QED  BY <1>0, <2>2, <2>3 DEF One
<1>3. ASSUME None(s, n, l, c), One(t, n, l, c) PROVE One(s \o t, n, l, c)
  <2>1. PICK k \in 1 .. Len(t) : hit(t[k]) /\ \A j \in 1 .. Len(t) : hit(t[j]) => j = k
    BY <1>0, <1>3 DEF One
  <2>2. Len(s) + k \in 1 .. Len(s) + Len(t) /\ hit((s \o t)[Len(s) + k])  BY <1>0, <2>1
  <2>3. ASSUME NEW j \in 1 .. Len(s) + Len(t), hit((s \o t)[j]) PROVE j = Len(s) + k
    <3>1. ~(j <= Len(s))  BY <1>0, <1>3, <2>3 DEF None
    <3>2. j - Len(s) \in 1 .. Len(t) /\ hit(t[j - Len(s)])  BY <1>0, <2>3, <3>1
    <3>3. j - Len(s) = k  BY <2>1, <3>2
    <3>4. QED  BY <1>0, <3>3
  <2>4. QED  BY <1>0, <2>2, <2>3 DEF One
<1>4. QED  BY <1>1, <1>2, <1>3

\* None and One of a flattened sequence.
LEMMA FlattenHits ==
  ASSUME NEW N \in Nat, NEW seqs, seqs = [i \in 1 .. N |-> seqs[i]], \A i \in 1 .. N : ASequence(seqs[i]),
         NEW n, NEW l, NEW c
  PROVE  /\ (\A i \in 1 .. N : None(seqs[i], n, l, c)) => None(FlattenSeq(seqs), n, l, c)
         /\ \A i \in 1 .. N :
              One(seqs[i], n, l, c) /\ (\A j \in 1 .. N : j # i => None(seqs[j], n, l, c))
                => One(FlattenSeq(seqs), n, l, c)
<1>1. \A x : Occurs(x, FlattenSeq(seqs)) <=> \E i \in 1 .. N : Occurs(x, seqs[i])
  BY ASequenceFlatten
<1>2. (\A i \in 1 .. N : None(seqs[i], n, l, c)) => None(FlattenSeq(seqs), n, l, c)
  BY <1>1, NoneOccurs
<1>3. ASSUME NEW i \in 1 .. N, One(seqs[i], n, l, c),
             \A j \in 1 .. N : j # i => None(seqs[j], n, l, c)
      PROVE  One(FlattenSeq(seqs), n, l, c)
  <2> DEFINE S == UNION {Range(seqs[j]) : j \in 1 .. N}
  <2>1. \A j \in 1 .. N : \A x : Occurs(x, seqs[j]) => x \in S  BY DEF Occurs, Range
  <2>2. \A j \in 1 .. N : seqs[j] \in Seq(S)
    <3> HIDE DEF S
    <3> QED  BY <2>1, SeqOver
  <2> HIDE DEF S
  <2>3. seqs \in Seq(Seq(S)) /\ DOMAIN seqs = 1 .. N /\ Len(seqs) = N /\ seqs # <<>>
    <3>1. seqs \in [1 .. N -> Seq(S)]  BY <2>2
    <3>2. QED  BY <3>1
  <2>4. PICK f : PrefixConcats(seqs, f) /\ FlattenSeq(seqs) = f[N]
    BY <2>3, FlattenByPrefixes
  <2>5. \A j \in 1 .. N : f[j] = IF j = 1 THEN seqs[j] ELSE f[j - 1] \o seqs[j]
    BY <2>3, <2>4 DEF PrefixConcats
  <2> DEFINE Good(j) == /\ f[j] \in Seq(S)
                        /\ IF j < i THEN None(f[j], n, l, c) ELSE One(f[j], n, l, c)
             I == {j \in Nat : j \in 1 .. N => Good(j)}
  <2>6. 0 \in I  OBVIOUS
  <2>7. ASSUME NEW j \in Nat, j \in I PROVE j + 1 \in I
    <3>0. SUFFICES ASSUME j + 1 \in 1 .. N PROVE Good(j + 1)
      <4> HIDE DEF Good
      <4> QED  OBVIOUS
    <3>1. CASE j = 0
      <4>1. f[1] = seqs[1]  BY <2>5, <3>0, <3>1
      <4>2. i = 1 \/ 1 < i  OBVIOUS
      <4>3. QED  BY <1>3, <2>2, <3>0, <3>1, <4>1, <4>2
    <3>2. CASE j > 0
      <4>1. j \in 1 .. N /\ j + 1 # 1 /\ (j + 1) - 1 = j  BY <3>0, <3>2
      <4>2. Good(j)  BY <2>7, <4>1
      <4>3. f[j + 1] = f[j] \o seqs[j + 1]  BY <2>5, <3>0, <4>1
      <4>4. seqs[j + 1] \in Seq(S) /\ ASequence(seqs[j + 1]) /\ ASequence(f[j])
        BY <2>2, <3>0, <4>2, SeqIsASequence
      <4>5. f[j + 1] \in Seq(S)  BY <4>2, <4>3, <4>4
      <4>6. CASE j + 1 < i
        <5>1. None(f[j], n, l, c) /\ None(seqs[j + 1], n, l, c)  BY <1>3, <3>0, <4>2, <4>6
        <5>2. QED  BY <4>3, <4>4, <4>5, <4>6, <5>1, ConcatHits
      <4>7. CASE j + 1 = i
        <5>1. None(f[j], n, l, c) /\ One(seqs[j + 1], n, l, c)  BY <1>3, <4>2, <4>7
        <5>2. QED  BY <4>3, <4>4, <4>5, <4>7, <5>1, ConcatHits
      <4>8. CASE j + 1 > i
        <5>1. One(f[j], n, l, c) /\ None(seqs[j + 1], n, l, c)  BY <1>3, <3>0, <4>2, <4>8
        <5>2. QED  BY <4>3, <4>4, <4>5, <4>8, <5>1, ConcatHits
      <4>9. QED  BY <4>6, <4>7, <4>8
    <3>3. QED  BY <3>1, <3>2
  <2>8. \A j \in Nat : j \in I
    <3> HIDE DEF I
    <3> QED  BY <2>6, <2>7, SetInduction
  <2>9. Good(N)
    <3> HIDE DEF Good
    <3> QED  BY <1>3, <2>8
  <2>10. QED  BY <2>4, <2>9
<1>4. QED  BY <1>2, <1>3

\* SetToSeq lists a finite set without repetition.
LEMMA SetToSeqLists ==
  ASSUME NEW S, IsFiniteSet(S)
  PROVE  /\ Cardinality(S) \in Nat
         /\ SetToSeq(S) \in [1 .. Cardinality(S) -> S]
         /\ \A a, b \in 1 .. Cardinality(S) : SetToSeq(S)[a] = SetToSeq(S)[b] => a = b
         /\ \A x \in S : \E a \in 1 .. Cardinality(S) : SetToSeq(S)[a] = x
<1> DEFINE N == Cardinality(S)
           f == SetToSeq(S)
<1>1. N \in Nat /\ ExistsBijection(1 .. N, S)  BY FS_CardinalityType
<1>2. \E g \in [1 .. N -> S] : IsInjective(g)
  BY <1>1 DEF ExistsBijection, Bijection, Injection, IsInjective
<1>3. f \in [1 .. N -> S] /\ IsInjective(f)
  <2> HIDE DEF N
  <2> QED  BY <1>2 DEF SetToSeq, N
<1>4. f \in Injection(1 .. N, S)
  <2> HIDE DEF f, N
  <2> QED  BY <1>3 DEF Injection, IsInjective
<1>5. Cardinality(1 .. N) = N
  BY <1>1, FS_Interval
<1>6. f \in Surjection(1 .. N, S)
  <2> HIDE DEF f
  <2> QED  BY <1>4, <1>5, FS_Injection
<1>7. /\ f \in [1 .. N -> S]
      /\ \A a, b \in 1 .. N : f[a] = f[b] => a = b
      /\ \A x \in S : \E a \in 1 .. N : f[a] = x
  <2> HIDE DEF f, N
  <2> QED  BY <1>4, <1>6 DEF Injection, Surjection, IsInjective
<1>8. QED  BY <1>1, <1>7

\* The categories of findings.
Categories == {r.cat : r \in DefaultRules} \cup {"map_iter", "keeper_field", "pkg_var"}

\* There are finitely many categories.
LEMMA CategoriesFinite == IsFiniteSet(Categories)
<1>1. Categories \subseteq ({"time"} \cup {"rand"} \cup {"io"} \cup {"pointer"} \cup {"map_iter"}
                            \cup {"keeper_field"} \cup {"pkg_var"})
  BY DEF Categories, DefaultRules
<1>2. IsFiniteSet({"time"} \cup {"rand"} \cup {"io"} \cup {"pointer"} \cup {"map_iter"}
                    \cup {"keeper_field"} \cup {"pkg_var"})
  <2>1. \A S, x : IsFiniteSet(S) => IsFiniteSet(S \cup {x})  BY FS_AddElement
  <2>2. IsFiniteSet({"time"})  BY FS_Singleton
  <2>3. QED  BY <2>1, <2>2
<1>3. QED  BY <1>1, <1>2, FS_Subset

\* What is found at a site.
LEMMA SiteCategories ==
  ASSUME NEW f, NEW fn, NEW s, NEW typed
  PROVE  DetectSite(f, s, typed) \subseteq Categories /\ LintSite(f, fn, s, typed) \subseteq Categories
<1>1. \A p, q : Lookup(p, q) \subseteq Categories  BY DEF Lookup, Categories
<1>2. DetectSite(f, s, typed) \subseteq Categories
  <2>1. "map_iter" \in Categories  BY DEF Categories
  <2>2. CASE s.kind = "call" /\ s.qual # ""  BY <1>1, <2>2, ZenonT(60) DEF DetectSite
  <2>3. CASE ~(s.kind = "call" /\ s.qual # "")  BY <2>1, <2>3 DEF DetectSite
  <2>4. QED  BY <2>2, <2>3
<1>3. LintSite(f, fn, s, typed) \subseteq Categories
  BY DEF LintSite, Categories
<1>4. QED  BY <1>2, <1>3

-------------------------------------------------------------------------------
\* The findings q are of file n, one for each pair of a line and a category in A.
Reports(q, n, A) ==
  /\ ASequence(q)
  /\ \A m, l, c : IF m = n /\ <<l, c>> \in A THEN One(q, m, l, c) ELSE None(q, m, l, c)

\* Parts that report different things, put together.
LEMMA FlattenReports ==
  ASSUME NEW N \in Nat, NEW seqs, seqs = [i \in 1 .. N |-> seqs[i]], NEW n, NEW A,
         \A i \in 1 .. N : Reports(seqs[i], n, A[i]),
         \A i, j \in 1 .. N : i # j => A[i] \cap A[j] = {}
  PROVE  Reports(FlattenSeq(seqs), n, UNION {A[i] : i \in 1 .. N})
<1>1. \A i \in 1 .. N : ASequence(seqs[i])  BY DEF Reports
<1>2. ASequence(FlattenSeq(seqs))  BY <1>1, ASequenceFlatten
<1>3. ASSUME NEW m, NEW l, NEW c
      PROVE  IF m = n /\ <<l, c>> \in UNION {A[i] : i \in 1 .. N}
               THEN One(FlattenSeq(seqs), m, l, c) ELSE None(FlattenSeq(seqs), m, l, c)
  <2>1. CASE m = n /\ <<l, c>> \in UNION {A[i] : i \in 1 .. N}
    <3>1. PICK i \in 1 .. N : <<l, c>> \in A[i]  BY <2>1
    <3>2. One(seqs[i], m, l, c)  BY <2>1, <3>1 DEF Reports
    <3>3. \A j \in 1 .. N : j # i => <<l, c>> \notin A[j]  BY <3>1
    <3>4. \A j \in 1 .. N : j # i => None(seqs[j], m, l, c)  BY <3>3 DEF Reports
    <3>5. One(FlattenSeq(seqs), m, l, c)  BY <1>1, <3>2, <3>4, FlattenHits
    <3>6. QED  BY <2>1, <3>5
  <2>2. CASE ~(m = n /\ <<l, c>> \in UNION {A[i] : i \in 1 .. N})
    <3>1. \A i \in 1 .. N : ~(m = n /\ <<l, c>> \in A[i])  BY <2>2
    <3>2. \A i \in 1 .. N : None(seqs[i], m, l, c)  BY <3>1 DEF Reports
    <3>3. None(FlattenSeq(seqs), m, l, c)  BY <1>1, <3>2, FlattenHits
    <3>4. QED  BY <2>2, <3>3
  <2>3. QED  BY <2>1, <2>2
<1>4. QED  BY <1>2, <1>3 DEF Reports

\* The empty sequence reports nothing.
LEMMA EmptyReports == \A n : Reports(<<>>, n, {})
BY ASequenceOne DEF Reports, None

\* The findings of one site: one for each category.
LEMMA FoundReports ==
  ASSUME NEW n, NEW fn, NEW s, NEW d, NEW cats, cats \subseteq Categories
  PROVE  Reports(Found(n, fn, s, d, cats), n, {s.line} \X cats)
<1> DEFINE N == Cardinality(cats)
           q == SetToSeq(cats)
           F == Found(n, fn, s, d, cats)
<1>1. IsFiniteSet(cats)  BY CategoriesFinite, FS_Subset
<1>2. /\ N \in Nat /\ q \in [1 .. N -> cats]
      /\ \A a, b \in 1 .. N : q[a] = q[b] => a = b
      /\ \A x \in cats : \E a \in 1 .. N : q[a] = x
  BY <1>1, SetToSeqLists
<1>3. /\ DOMAIN F = 1 .. N
      /\ \A k \in 1 .. N : F[k].file = n /\ F[k].line = s.line /\ F[k].cat = q[k]
      /\ F = [k \in 1 .. N |-> F[k]]
  BY DEF Found
<1> HIDE DEF N, q, F
<1>4. ASequence(F)
  <2>1. F \in [1 .. N -> Range(F)]
    <3>1. \A k \in 1 .. N : F[k] \in Range(F)  BY <1>3 DEF Range
    <3> HIDE DEF Range
    <3>2. QED  BY <1>3, <3>1
  <2>2. QED
    <3> HIDE DEF Range
    <3> QED  BY <1>2, <2>1 DEF ASequence
<1>5. \A m, l, c : m # n \/ l # s.line \/ c \notin cats => None(F, m, l, c)
  BY <1>2, <1>3 DEF None, Match
<1>6. ASSUME NEW c \in cats PROVE One(F, n, s.line, c)
  <2>1. PICK a \in 1 .. N : q[a] = c  BY <1>2
  <2>2. QED  BY <1>2, <1>3, <2>1, SMTT(60) DEF One, Match
<1>7. \A l, c : <<l, c>> \in {s.line} \X cats <=> l = s.line /\ c \in cats  OBVIOUS
<1>8. QED  BY <1>4, <1>5, <1>6, <1>7 DEF F, Reports

-------------------------------------------------------------------------------
\* What scanBody, detectFunc and lintFunc find.
BodyPairs(f, fn, typed, d) ==
  UNION {IF Visits(fn.body[j], d) THEN {fn.body[j].line} \X DetectSite(f, fn.body[j], typed) ELSE {}
           : j \in 1 .. Len(fn.body)}

DetectPairs(f, fn, typed) ==
  IF ~fn.isFunc \/ fn.name \in abciHookFunctions THEN {}
  ELSE UNION {BodyPairs(f, fn, typed, d - 1) : d \in 1 .. MaxDepth + 1}

LintPairs(f, fn, typed) ==
  IF ~fn.isFunc THEN {}
  ELSE UNION {{fn.body[j].line} \X LintSite(f, fn, fn.body[j], typed) : j \in 1 .. Len(fn.body)}

\* The sites of a function are on different lines.
LinesDiffer(fn) ==
  /\ IsSequence(fn.body)
  /\ \A i, j \in 1 .. Len(fn.body) : fn.body[i].line = fn.body[j].line => i = j

\* One call of scanBody reports the sites of its depth, each once.
LEMMA ScanBodyReports ==
  ASSUME NEW n, NEW fn, NEW typed, NEW d, LinesDiffer(fn)
  PROVE  Reports(scanBody(n, fn, typed, d), n, BodyPairs(tree.files[n], fn, typed, d))
<1> DEFINE f == tree.files[n]
           N == Len(fn.body)
           q == [j \in 1 .. N |-> IF Visits(fn.body[j], d)
                   THEN Found(n, fn, fn.body[j], d, DetectSite(f, fn.body[j], typed)) ELSE <<>>]
           A == [j \in 1 .. N |-> IF Visits(fn.body[j], d)
                   THEN {fn.body[j].line} \X DetectSite(f, fn.body[j], typed) ELSE {}]
<1>1. N \in Nat /\ DOMAIN fn.body = 1 .. N  BY DEF LinesDiffer, IsSequence
<1>2. \A j \in 1 .. N : Reports(q[j], n, A[j])
  <2> SUFFICES ASSUME NEW j \in 1 .. N PROVE Reports(q[j], n, A[j])  OBVIOUS
  <2>1. CASE Visits(fn.body[j], d)
    <3>1. Reports(Found(n, fn, fn.body[j], d, DetectSite(f, fn.body[j], typed)), n,
                  {fn.body[j].line} \X DetectSite(f, fn.body[j], typed))
      BY SiteCategories, FoundReports
    <3>2. QED  BY <2>1, <3>1
  <2>2. CASE ~Visits(fn.body[j], d)
    BY <2>2, EmptyReports
  <2>3. QED  BY <2>1, <2>2
<1>3. \A i, j \in 1 .. N : i # j => A[i] \cap A[j] = {}
  <2>1. \A i \in 1 .. N : \A x \in A[i] : x[1] = fn.body[i].line  OBVIOUS
  <2> HIDE DEF A
  <2>2. QED  BY <2>1 DEF LinesDiffer
<1>4. scanBody(n, fn, typed, d) = FlattenSeq(q)  BY <1>1 DEF scanBody
<1>5. BodyPairs(f, fn, typed, d) = UNION {A[j] : j \in 1 .. N}  BY DEF BodyPairs
<1>6. q = [j \in 1 .. N |-> q[j]]  OBVIOUS
<1> HIDE DEF q, A, N
<1>7. Reports(FlattenSeq(q), n, UNION {A[j] : j \in 1 .. N})
  BY <1>1, <1>2, <1>3, <1>6, FlattenReports
<1>8. QED  BY <1>4, <1>5, <1>7

\* The walk of detect over one function, with the recursion into its literals, reports each
\* of its sites once.
LEMMA DetectFuncReports ==
  ASSUME NEW n, NEW fn, NEW typed, LinesDiffer(fn), MaxDepth \in Nat
  PROVE  Reports(detectFunc(n, fn, typed), n, DetectPairs(tree.files[n], fn, typed))
<1> DEFINE f == tree.files[n]
           N == MaxDepth + 1
           q == [d \in 1 .. N |-> scanBody(n, fn, typed, d - 1)]
           A == [d \in 1 .. N |-> BodyPairs(f, fn, typed, d - 1)]
<1>1. CASE ~fn.isFunc \/ fn.name \in abciHookFunctions
  BY <1>1, EmptyReports DEF detectFunc, DetectPairs
<1>2. CASE fn.isFunc /\ fn.name \notin abciHookFunctions
  <2>1. \A d \in 1 .. N : Reports(q[d], n, A[d])  BY ScanBodyReports
  <2>2. \A d, e \in 1 .. N : d # e => A[d] \cap A[e] = {}
    <3> SUFFICES ASSUME NEW d \in 1 .. N, NEW e \in 1 .. N, d # e, NEW x \in A[d], x \in A[e] PROVE FALSE
      OBVIOUS
    <3>1. PICK i \in 1 .. Len(fn.body) : fn.body[i].depth = d - 1 /\ x[1] = fn.body[i].line
      BY DEF BodyPairs, Visits
    <3>2. PICK j \in 1 .. Len(fn.body) : fn.body[j].depth = e - 1 /\ x[1] = fn.body[j].line
      BY DEF BodyPairs, Visits
    <3>3. i = j  BY <3>1, <3>2 DEF LinesDiffer
    <3>4. QED  BY <3>1, <3>2, <3>3
  <2>3. detectFunc(n, fn, typed) = FlattenSeq(q)  BY <1>2 DEF detectFunc
  <2>4. DetectPairs(f, fn, typed) = UNION {A[d] : d \in 1 .. N}  BY <1>2 DEF DetectPairs
  <2>5. q = [d \in 1 .. N |-> q[d]] /\ N \in Nat  OBVIOUS
  <2> HIDE DEF q, A, N
  <2>6. Reports(FlattenSeq(q), n, UNION {A[d] : d \in 1 .. N})
    BY <2>1, <2>2, <2>5, FlattenReports
  <2>7. QED  BY <2>3, <2>4, <2>6
<1>3. QED  BY <1>1, <1>2

\* So does the walk of lint, which enters the literals itself.
LEMMA LintFuncReports ==
  ASSUME NEW n, NEW fn, NEW typed, LinesDiffer(fn)
  PROVE  Reports(lintFunc(n, fn, typed), n, LintPairs(tree.files[n], fn, typed))
<1> DEFINE f == tree.files[n]
           N == Len(fn.body)
           q == [j \in 1 .. N |-> Found(n, fn, fn.body[j], 0, LintSite(f, fn, fn.body[j], typed))]
           A == [j \in 1 .. N |-> {fn.body[j].line} \X LintSite(f, fn, fn.body[j], typed)]
<1>1. CASE ~fn.isFunc
  BY <1>1, EmptyReports DEF lintFunc, LintPairs
<1>2. CASE fn.isFunc
  <2>1. N \in Nat /\ DOMAIN fn.body = 1 .. N  BY DEF LinesDiffer, IsSequence
  <2>2. \A j \in 1 .. N : Reports(q[j], n, A[j])
    BY SiteCategories, FoundReports
  <2>3. \A i, j \in 1 .. N : i # j => A[i] \cap A[j] = {}
    <3>1. \A i \in 1 .. N : \A x \in A[i] : x[1] = fn.body[i].line  OBVIOUS
    <3> HIDE DEF A
    <3>2. QED  BY <3>1 DEF LinesDiffer
  <2>4. lintFunc(n, fn, typed) = FlattenSeq(q)  BY <1>2, <2>1 DEF lintFunc
  <2>5. LintPairs(f, fn, typed) = UNION {A[j] : j \in 1 .. N}  BY <1>2 DEF LintPairs
  <2>6. q = [j \in 1 .. N |-> q[j]]  OBVIOUS
  <2> HIDE DEF q, A, N
  <2>7. Reports(FlattenSeq(q), n, UNION {A[j] : j \in 1 .. N})
    BY <2>1, <2>2, <2>3, <2>6, FlattenReports
  <2>8. QED  BY <2>4, <2>5, <2>7
<1>3. QED  BY <1>1, <1>2

\* What a file holds, and what is found at one of its sites.
FuncPairs(f, fn, typed) == IF tool = "detect" THEN DetectPairs(f, fn, typed) ELSE LintPairs(f, fn, typed)

FilePairs(f, typed) == UNION {FuncPairs(f, f.decls[k], typed) : k \in 1 .. Len(f.decls)}

SiteCats(f, fn, s, typed) ==
  IF ~fn.isFunc THEN {}
  ELSE IF tool = "detect" THEN IF fn.name \in abciHookFunctions THEN {} ELSE DetectSite(f, s, typed)
                          ELSE LintSite(f, fn, s, typed)

\* The sites of a well-formed file, by position.
LEMMA FileShape ==
  ASSUME NEW f, WellFormedFile(f)
  PROVE  /\ Len(f.decls) \in Nat /\ DOMAIN f.decls = 1 .. Len(f.decls)
         /\ \A k \in 1 .. Len(f.decls) :
              /\ Len(f.decls[k].body) \in Nat
              /\ DOMAIN f.decls[k].body = 1 .. Len(f.decls[k].body)
              /\ LinesDiffer(f.decls[k])
              /\ \A j \in 1 .. Len(f.decls[k].body) :
                   /\ f.decls[k].body[j].depth \in 0 .. MaxDepth
                   /\ Resolves(f, f.decls[k].body[j])
                   /\ f.decls[k].body[j].kind = "write" => IsSequence(f.decls[k].body[j].path)
                   /\ \A k2 \in 1 .. Len(f.decls) : \A j2 \in 1 .. Len(f.decls[k2].body) :
                        f.decls[k2].body[j2].line = f.decls[k].body[j].line => k2 = k /\ j2 = j
<1>1. Len(f.decls) \in Nat /\ DOMAIN f.decls = 1 .. Len(f.decls)
  BY DEF WellFormedFile, IsSequence
<1>2. ASSUME NEW k \in 1 .. Len(f.decls)
      PROVE  Len(f.decls[k].body) \in Nat /\ DOMAIN f.decls[k].body = 1 .. Len(f.decls[k].body)
  BY <1>1 DEF WellFormedFile, IsSequence
<1>3. ASSUME NEW k \in 1 .. Len(f.decls), NEW j \in 1 .. Len(f.decls[k].body)
      PROVE  /\ f.decls[k].body[j].depth \in 0 .. MaxDepth
             /\ Resolves(f, f.decls[k].body[j])
             /\ f.decls[k].body[j].kind = "write" => IsSequence(f.decls[k].body[j].path)
             /\ \A k2 \in 1 .. Len(f.decls) : \A j2 \in 1 .. Len(f.decls[k2].body) :
                  f.decls[k2].body[j2].line = f.decls[k].body[j].line => k2 = k /\ j2 = j
  <2>1. k \in DOMAIN f.decls /\ j \in DOMAIN f.decls[k].body  BY <1>1, <1>2
  <2>2. /\ f.decls[k].body[j].depth \in 0 .. MaxDepth
        /\ Resolves(f, f.decls[k].body[j])
        /\ f.decls[k].body[j].kind = "write" => IsSequence(f.decls[k].body[j].path)
        /\ \A k2 \in DOMAIN f.decls : \A j2 \in DOMAIN f.decls[k2].body :
             f.decls[k2].body[j2].line = f.decls[k].body[j].line => k2 = k /\ j2 = j
    BY <2>1, Zenon DEF WellFormedFile
  <2>3. QED  BY <1>1, <1>2, <2>2
<1>4. ASSUME NEW k \in 1 .. Len(f.decls) PROVE LinesDiffer(f.decls[k])
  <2>1. IsSequence(f.decls[k].body)  BY <1>1 DEF WellFormedFile
  <2>2. \A i, j \in 1 .. Len(f.decls[k].body) :
          f.decls[k].body[i].line = f.decls[k].body[j].line => i = j
    BY <1>3
  <2>3. QED  BY <2>1, <2>2 DEF LinesDiffer
<1>5. QED  BY <1>1, <1>2, <1>3, <1>4

\* Its line tells a site.
LEMMA OneSite ==
  ASSUME NEW f, WellFormedFile(f),
         NEW k \in 1 .. Len(f.decls), NEW j \in 1 .. Len(f.decls[k].body),
         NEW k2 \in 1 .. Len(f.decls), NEW j2 \in 1 .. Len(f.decls[k2].body),
         f.decls[k2].body[j2].line = f.decls[k].body[j].line
  PROVE  k2 = k /\ j2 = j
<1>1. \A k3 \in 1 .. Len(f.decls) : \A j3 \in 1 .. Len(f.decls[k3].body) :
        f.decls[k3].body[j3].line = f.decls[k].body[j].line => k3 = k /\ j3 = j
  BY FileShape
<1>2. QED  BY <1>1, Zenon

\* A pair found in a function is one of its sites.
LEMMA FuncPairsSites ==
  ASSUME NEW f, NEW fn, NEW typed, NEW x \in FuncPairs(f, fn, typed)
  PROVE  \E j \in 1 .. Len(fn.body) : x[1] = fn.body[j].line /\ x[2] \in SiteCats(f, fn, fn.body[j], typed)
<1>1. CASE tool = "detect"
  <2>1. fn.isFunc /\ fn.name \notin abciHookFunctions /\ \E d \in 1 .. MaxDepth + 1 : x \in BodyPairs(f, fn, typed, d - 1)
    BY <1>1 DEF FuncPairs, DetectPairs
  <2>2. \E j \in 1 .. Len(fn.body) : x \in {fn.body[j].line} \X DetectSite(f, fn.body[j], typed)
    BY <2>1 DEF BodyPairs
  <2>3. QED  BY <1>1, <2>1, <2>2 DEF SiteCats
<1>2. CASE tool # "detect"
  <2>1. fn.isFunc /\ \E j \in 1 .. Len(fn.body) : x \in {fn.body[j].line} \X LintSite(f, fn, fn.body[j], typed)
    BY <1>2 DEF FuncPairs, LintPairs
  <2>2. QED  BY <1>2, <2>1 DEF SiteCats
<1>3. QED  BY <1>1, <1>2

\* Every category of a site is a pair of its function.
LEMMA SitesFuncPairs ==
  ASSUME NEW f, NEW fn, NEW typed, MaxDepth \in Nat, NEW j \in 1 .. Len(fn.body),
         fn.body[j].depth \in 0 .. MaxDepth, NEW c \in SiteCats(f, fn, fn.body[j], typed)
  PROVE  <<fn.body[j].line, c>> \in FuncPairs(f, fn, typed)
<1>1. CASE tool = "detect"
  <2>1. fn.isFunc /\ fn.name \notin abciHookFunctions /\ c \in DetectSite(f, fn.body[j], typed)
    BY <1>1 DEF SiteCats
  <2> DEFINE d == fn.body[j].depth + 1
  <2>2. d \in 1 .. MaxDepth + 1 /\ fn.body[j].depth = d - 1  BY SMTT(60)
  <2> HIDE DEF d
  <2>3. <<fn.body[j].line, c>> \in BodyPairs(f, fn, typed, d - 1)
    BY <2>1, <2>2 DEF BodyPairs, Visits
  <2>4. QED  BY <1>1, <2>1, <2>2, <2>3 DEF FuncPairs, DetectPairs
<1>2. CASE tool # "detect"
  BY <1>2 DEF FuncPairs, LintPairs, SiteCats
<1>3. QED  BY <1>1, <1>2

\* A site's line is found with exactly the categories of the site.
LEMMA SitePairs ==
  ASSUME NEW f, WellFormedFile(f), MaxDepth \in Nat, NEW typed,
         NEW k \in 1 .. Len(f.decls), NEW j \in 1 .. Len(f.decls[k].body), NEW c
  PROVE  <<f.decls[k].body[j].line, c>> \in FilePairs(f, typed)
           <=> c \in SiteCats(f, f.decls[k], f.decls[k].body[j], typed)
<1> DEFINE x == <<f.decls[k].body[j].line, c>>
<1>1. ASSUME x \in FilePairs(f, typed) PROVE c \in SiteCats(f, f.decls[k], f.decls[k].body[j], typed)
  <2>1. PICK k2 \in 1 .. Len(f.decls) : x \in FuncPairs(f, f.decls[k2], typed)  BY <1>1 DEF FilePairs
  <2>2. PICK j2 \in 1 .. Len(f.decls[k2].body) :
          x[1] = f.decls[k2].body[j2].line /\ x[2] \in SiteCats(f, f.decls[k2], f.decls[k2].body[j2], typed)
    BY <2>1, FuncPairsSites
  <2>3. f.decls[k2].body[j2].line = f.decls[k].body[j].line  BY <2>2
  <2>4. k2 = k /\ j2 = j  BY <2>3, OneSite
  <2>5. QED  BY <2>2, <2>4
<1>2. ASSUME c \in SiteCats(f, f.decls[k], f.decls[k].body[j], typed) PROVE x \in FilePairs(f, typed)
  <2>1. f.decls[k].body[j].depth \in 0 .. MaxDepth  BY FileShape
  <2>2. x \in FuncPairs(f, f.decls[k], typed)  BY <1>2, <2>1, SitesFuncPairs
  <2>3. QED  BY <2>2 DEF FilePairs
<1>3. QED  BY <1>1, <1>2

\* The scan of a file reports each pair of it once, and nothing of another file.
LEMMA ScanFileReports ==
  ASSUME NEW n, NEW typed, WellFormedFile(tree.files[n]), MaxDepth \in Nat
  PROVE  Reports(ScanFile(n, typed), n, FilePairs(tree.files[n], typed))
<1> DEFINE f == tree.files[n]
           N == Len(f.decls)
           scan(fn) == IF tool = "detect" THEN detectFunc(n, fn, typed) ELSE lintFunc(n, fn, typed)
           q == [k \in 1 .. N |-> scan(f.decls[k])]
           A == [k \in 1 .. N |-> FuncPairs(f, f.decls[k], typed)]
<1>1. N \in Nat /\ DOMAIN f.decls = 1 .. N /\ \A k \in 1 .. N : LinesDiffer(f.decls[k])
  BY FileShape
<1>2. \A k \in 1 .. N : Reports(q[k], n, A[k])
  <2> SUFFICES ASSUME NEW k \in 1 .. N PROVE Reports(q[k], n, A[k])  OBVIOUS
  <2>1. CASE tool = "detect"  BY <1>1, <2>1, DetectFuncReports DEF FuncPairs
  <2>2. CASE tool # "detect"  BY <1>1, <2>2, LintFuncReports DEF FuncPairs
  <2>3. QED  BY <2>1, <2>2
<1>3. \A i, k \in 1 .. N : i # k => A[i] \cap A[k] = {}
  <2> SUFFICES ASSUME NEW i \in 1 .. N, NEW k \in 1 .. N, i # k, NEW x \in A[i], x \in A[k] PROVE FALSE
    OBVIOUS
  <2>1. \A fn : x \in FuncPairs(f, fn, typed) => \E a \in 1 .. Len(fn.body) : x[1] = fn.body[a].line
    BY FuncPairsSites
  <2>2. x \in FuncPairs(f, f.decls[i], typed) /\ x \in FuncPairs(f, f.decls[k], typed)  OBVIOUS
  <2>3. PICK a \in 1 .. Len(f.decls[i].body) : x[1] = f.decls[i].body[a].line  BY <2>1, <2>2
  <2>4. PICK b \in 1 .. Len(f.decls[k].body) : x[1] = f.decls[k].body[b].line  BY <2>1, <2>2
  <2>5. f.decls[i].body[a].line = f.decls[k].body[b].line  BY <2>3, <2>4
  <2>6. QED  BY <2>5, OneSite
<1>4. ScanFile(n, typed) = FlattenSeq(q)
  <2>1. CASE tool = "detect"  BY <1>1, <2>1 DEF ScanFile, detectFile
  <2>2. CASE tool # "detect"  BY <1>1, <2>2 DEF ScanFile, lintFile
  <2>3. QED  BY <2>1, <2>2
<1>5. FilePairs(f, typed) = UNION {A[k] : k \in 1 .. N}  BY DEF FilePairs
<1>6. q = [k \in 1 .. N |-> q[k]] /\ N \in Nat  BY <1>1
<1> HIDE DEF q, A, N
<1>7. Reports(FlattenSeq(q), n, UNION {A[k] : k \in 1 .. N})
  BY <1>2, <1>3, <1>6, FlattenReports, SMTT(60)
<1>8. QED  BY <1>4, <1>5, <1>7

-------------------------------------------------------------------------------
\* No element of s is repeated.
NoRepeat(s) == \A i, j \in 1 .. Len(s) : s[i] = s[j] => i = j

\* The files of the build, in order.
LEMMA PickedOnce ==
  ASSUME NEW N \in Nat, NEW B, NEW q, q = [i \in 1 .. N |-> q[i]],
         \A i \in 1 .. N : (i \in B => q[i] = <<i>>) /\ (i \notin B => q[i] = <<>>)
  PROVE  /\ FlattenSeq(q) \in Seq(1 .. N) /\ NoRepeat(FlattenSeq(q))
         /\ \A x : Occurs(x, FlattenSeq(q)) <=> x \in 1 .. N /\ x \in B
<1>1. ASSUME NEW i \in 1 .. N
      PROVE  /\ i \in B => q[i] = <<i>>
             /\ i \notin B => q[i] = <<>>
             /\ q[i] \in Seq(1 .. N)
  <2>1. (i \in B => q[i] = <<i>>) /\ (i \notin B => q[i] = <<>>)  OBVIOUS
  <2>2. <<i>> \in Seq(1 .. N) /\ <<>> \in Seq(1 .. N)  OBVIOUS
  <2>3. QED  BY <2>1, <2>2
<1>2. q \in Seq(Seq(1 .. N)) /\ DOMAIN q = 1 .. N /\ Len(q) = N
  <2>1. q \in [1 .. N -> Seq(1 .. N)]  BY <1>1
  <2>2. QED  BY <2>1
<1>3. FlattenSeq(q) \in Seq(1 .. N)  BY <1>2, FlattenOccurs
<1>4. \A x : Occurs(x, FlattenSeq(q)) <=> x \in 1 .. N /\ x \in B
  <2>1. \A x : Occurs(x, FlattenSeq(q)) <=> \E i \in 1 .. N : Occurs(x, q[i])  BY <1>2, FlattenOccurs
  <2>2. ASSUME NEW i \in 1 .. N, NEW x PROVE Occurs(x, q[i]) <=> x = i /\ i \in B
    <3>1. CASE i \in B
      <4>1. q[i] = <<i>>  BY <1>1, <3>1
      <4>2. Occurs(x, <<i>>) <=> x = i  BY ASequenceOne
      <4>3. QED  BY <3>1, <4>1, <4>2
    <3>2. CASE i \notin B
      <4>1. q[i] = <<>>  BY <1>1, <3>2
      <4>2. ~Occurs(x, <<>>)  BY ASequenceOne
      <4>3. QED  BY <3>2, <4>1, <4>2
    <3>3. QED  BY <3>1, <3>2
  <2>3. \A x : (\E i \in 1 .. N : Occurs(x, q[i])) <=> x \in 1 .. N /\ x \in B
    <3> HIDE DEF Occurs
    <3> QED  BY <2>2
  <2>4. QED
    <3> HIDE DEF Occurs
    <3> QED  BY <2>1, <2>3
<1>5. NoRepeat(FlattenSeq(q))
  <2>1. CASE N = 0
    <3>1. Len(q) = 0  BY <1>2, <2>1
    <3>2. FlattenSeq(q) = q  BY <3>1 DEF FlattenSeq
    <3>3. QED  BY <3>1, <3>2 DEF NoRepeat
  <2>2. CASE N > 0
    <3>1. PICK f : PrefixConcats(q, f) /\ FlattenSeq(q) = f[N]
      <4>1. q # <<>>  BY <1>2, <2>2
      <4>2. QED  BY <1>2, <4>1, FlattenByPrefixes
    <3>2. \A j \in 1 .. N : f[j] = IF j = 1 THEN q[j] ELSE f[j - 1] \o q[j]
      BY <1>2, <3>1 DEF PrefixConcats
    <3> DEFINE Good(j) == f[j] \in Seq(1 .. j) /\ NoRepeat(f[j])
               I == {j \in Nat : j \in 1 .. N => Good(j)}
    <3>3. 0 \in I  OBVIOUS
    <3>4. ASSUME NEW j \in Nat, j \in I PROVE j + 1 \in I
      <4>0. SUFFICES ASSUME j + 1 \in 1 .. N PROVE Good(j + 1)
        <5> HIDE DEF Good
        <5> QED  OBVIOUS
      <4>1. CASE j = 0
        <5>1. f[1] = q[1] /\ (q[1] = <<1>> \/ q[1] = <<>>)  BY <1>1, <3>2, <4>0, <4>1
        <5>2. <<1>> \in Seq(1 .. 1) /\ <<>> \in Seq(1 .. 1) /\ NoRepeat(<<1>>) /\ NoRepeat(<<>>)
          BY DEF NoRepeat
        <5>3. f[1] \in Seq(1 .. 1) /\ NoRepeat(f[1])  BY <5>1, <5>2
        <5>4. j + 1 = 1  BY <4>1
        <5>5. QED  BY <5>3, <5>4
      <4>2. CASE j > 0
        <5>0. j \in 1 .. N /\ j + 1 # 1 /\ (j + 1) - 1 = j  BY <4>0, <4>2
        <5>1. Good(j) /\ f[j + 1] = f[j] \o q[j + 1]
          <6>1. Good(j)  BY <3>4, <5>0
          <6>2. f[j + 1] = f[j] \o q[j + 1]  BY <3>2, <4>0, <5>0
          <6>3. QED  BY <6>1, <6>2
        <5>2. f[j] \in Seq(1 .. j + 1)
          <6>1. 1 .. j \subseteq 1 .. j + 1  OBVIOUS
          <6>2. QED  BY <5>1, <6>1
        <5>3. CASE j + 1 \in B
          <6>1. q[j + 1] = <<j + 1>>  BY <1>1, <4>0, <5>3
          <6> DEFINE s == f[j]
                     t == f[j] \o <<j + 1>>
          <6>2. /\ t \in Seq(1 .. j + 1) /\ Len(t) = Len(s) + 1 /\ Len(s) \in Nat
                /\ \A i \in 1 .. Len(s) : t[i] = s[i] /\ s[i] \in 1 .. j
                /\ t[Len(s) + 1] = j + 1
            BY <5>1, <5>2
          <6>3. f[j + 1] = t  BY <5>1, <6>1
          <6>4. NoRepeat(s)  BY <5>1
          <6> HIDE DEF s, t
          <6>5. NoRepeat(t)
            <7> SUFFICES ASSUME NEW a \in 1 .. Len(t), NEW b \in 1 .. Len(t), t[a] = t[b] PROVE a = b
              BY DEF NoRepeat
            <7>1. CASE a \in 1 .. Len(s) /\ b \in 1 .. Len(s)  BY <6>2, <6>4, <7>1 DEF NoRepeat
            <7>2. CASE a = Len(s) + 1 /\ b \in 1 .. Len(s)  BY <6>2, <7>2
            <7>3. CASE a \in 1 .. Len(s) /\ b = Len(s) + 1  BY <6>2, <7>3
            <7>4. QED  BY <6>2, <7>1, <7>2, <7>3
          <6>6. QED  BY <6>2, <6>3, <6>5
        <5>4. CASE j + 1 \notin B
          <6>1. q[j + 1] = <<>>  BY <1>1, <4>0, <5>4
          <6>2. f[j] \o <<>> = f[j]  BY <5>2
          <6>3. f[j + 1] = f[j]  BY <5>1, <6>1, <6>2
          <6>4. QED  BY <5>1, <5>2, <6>3
        <5>5. QED  BY <5>3, <5>4
      <4>3. QED  BY <4>1, <4>2
    <3>5. \A j \in Nat : j \in I
      <4> HIDE DEF I
      <4> QED  BY <3>3, <3>4, SetInduction
    <3>6. QED  BY <2>2, <3>1, <3>5
  <2>3. QED  BY <2>1, <2>2
<1>6. QED  BY <1>3, <1>4, <1>5

-------------------------------------------------------------------------------
\* The files that are visited, with types or without, and those looked at so far.
Source == {n \in DOMAIN tree.files : pc = "packages" => tree.files[n].inBuild}

TypedOf(n) == pc = "packages" /\ UsesTypes(n)

Visited(n) ==
  IF pc = "packages" THEN ~shouldSkipFile(n) /\ ~shouldSkipRelPath(n) /\ HasSyntax(n)
                     ELSE ~WalkSkips(n) /\ ~shouldSkipRelPath(n) /\ tree.files[n].parses

Looked(n) == n \in Source /\ ~Occurs(n, todo) /\ Visited(n)

\* The findings so far are those of the files looked at so far, each once.
FindingsInv ==
  /\ ASequence(findings)
  /\ \A k \in DOMAIN findings : findings[k].file \in Source /\ Visited(findings[k].file)
  /\ \A n \in DOMAIN tree.files : \A l, c :
       IF Looked(n) /\ <<l, c>> \in FilePairs(tree.files[n], TypedOf(n))
         THEN One(findings, n, l, c) ELSE None(findings, n, l, c)

TodoInv == todo \in Seq(Source) /\ NoRepeat(todo)

ScanInv ==
  /\ pc \in {"idle", "load", "walk", "packages", "exit"}
  /\ pc \in {"idle", "load"} => findings = <<>>
  /\ pc # "idle" => tree \in Trees /\ tool \in Tools
  /\ pc \in {"walk", "packages"} =>
       /\ skip = IF pc = "packages" THEN excludes ELSE FallbackExcludes
       /\ TodoInv /\ FindingsInv
  /\ CleanExitMeansClean

\* The trees are well formed.
LEMMA TreeShape ==
  ASSUME NEW t \in Trees
  PROVE  /\ MaxDepth \in Nat /\ Len(t.files) \in Nat /\ DOMAIN t.files = 1 .. Len(t.files)
         /\ \A n \in DOMAIN t.files : WellFormedFile(t.files[n])
<1>1. MaxDepth \in Nat /\ IsSequence(t.files) /\ \A n \in DOMAIN t.files : WellFormedFile(t.files[n])
  BY ScannersAssumption
<1>2. Len(t.files) \in Nat /\ DOMAIN t.files = 1 .. Len(t.files)  BY <1>1 DEF IsSequence
<1>3. QED  BY <1>1, <1>2

\* The head of the list of files is not in its tail.
LEMMA HeadOnce ==
  ASSUME NEW S, NEW s \in Seq(S), s # <<>>, NoRepeat(s)
  PROVE  /\ Head(s) \in S /\ Tail(s) \in Seq(S) /\ NoRepeat(Tail(s))
         /\ \A x : Occurs(x, s) <=> x = Head(s) \/ Occurs(x, Tail(s))
         /\ ~Occurs(Head(s), Tail(s))
<1>1. /\ Head(s) \in S /\ Tail(s) \in Seq(S) /\ Head(s) = s[1] /\ Len(s) \in Nat /\ Len(s) > 0
      /\ Len(Tail(s)) = Len(s) - 1
      /\ DOMAIN s = 1 .. Len(s) /\ DOMAIN Tail(s) = 1 .. Len(s) - 1
      /\ \A i \in 1 .. Len(s) - 1 : Tail(s)[i] = s[i + 1]
  OBVIOUS
<1>2. NoRepeat(Tail(s))
  <2> SUFFICES ASSUME NEW i \in 1 .. Len(s) - 1, NEW j \in 1 .. Len(s) - 1, s[i + 1] = s[j + 1] PROVE i = j
    BY <1>1 DEF NoRepeat
  <2>1. i + 1 = j + 1  BY <1>1 DEF NoRepeat
  <2>2. QED  BY <2>1
<1>3. \A x : Occurs(x, s) <=> x = Head(s) \/ Occurs(x, Tail(s))
  <2> SUFFICES ASSUME NEW x PROVE Occurs(x, s) <=> x = Head(s) \/ Occurs(x, Tail(s))  OBVIOUS
  <2>1. ASSUME Occurs(x, s), x # Head(s) PROVE Occurs(x, Tail(s))
    <3>1. PICK i \in 1 .. Len(s) : s[i] = x  BY <1>1, <2>1 DEF Occurs
    <3>2. i # 1  BY <1>1, <2>1, <3>1
    <3>3. i - 1 \in 1 .. Len(s) - 1 /\ Tail(s)[i - 1] = s[i]  BY <1>1, <3>2
    <3>4. QED  BY <1>1, <3>1, <3>3 DEF Occurs
  <2>2. ASSUME Occurs(x, Tail(s)) PROVE Occurs(x, s)
    <3>1. PICK i \in 1 .. Len(s) - 1 : s[i + 1] = x  BY <1>1, <2>2 DEF Occurs
    <3>2. i + 1 \in 1 .. Len(s)  BY <1>1
    <3>3. QED  BY <1>1, <3>1, <3>2 DEF Occurs
  <2>3. x = Head(s) => Occurs(x, s)  BY <1>1 DEF Occurs
  <2>4. QED  BY <2>1, <2>2, <2>3
<1>4. ~Occurs(Head(s), Tail(s))
  <2> SUFFICES ASSUME NEW i \in 1 .. Len(s) - 1, s[i + 1] = s[1] PROVE FALSE
    BY <1>1 DEF Occurs
  <2>1. i + 1 \in 1 .. Len(s) /\ 1 \in 1 .. Len(s)  BY <1>1
  <2>2. i + 1 = 1  BY <2>1 DEF NoRepeat
  <2>3. QED  BY <2>2
<1>5. QED  BY <1>1, <1>2, <1>3, <1>4

\* What is looked at depends on these variables only.
LEMMA ScopeUnchanged ==
  ASSUME UNCHANGED <<pc, args, load, skip>>
  PROVE  /\ Source' = Source
         /\ \A n : Visited(n)' <=> Visited(n)
         /\ \A n : FilePairs(tree.files[n], TypedOf(n))' = FilePairs(tree.files[n], TypedOf(n))
<1>0. /\ pc' = pc /\ tool' = tool /\ tree' = tree /\ excludes' = excludes /\ filter' = filter
      /\ failOn' = failOn /\ load' = load /\ skip' = skip
  BY DEF args
<1>1. Source' = Source  BY <1>0 DEF Source
<1>2. \A n : Visited(n)' <=> Visited(n)
  BY <1>0 DEF Visited, shouldSkipFile, shouldSkipRelPath, HasSyntax, WalkSkips, PkgOf
<1>3. ASSUME NEW n PROVE FilePairs(tree.files[n], TypedOf(n))' = FilePairs(tree.files[n], TypedOf(n))
  BY <1>0 DEF FilePairs, FuncPairs, TypedOf, UsesTypes, PkgOf
<1>4. QED  BY <1>1, <1>2, <1>3

\* One file.
LEMMA VisitStep ==
  ASSUME ScanInv, pc \in {"walk", "packages"}, todo # <<>>, todo' = Tail(todo),
         findings' = IF Visited(Head(todo)) THEN findings \o ScanFile(Head(todo), TypedOf(Head(todo)))
                                            ELSE findings,
         UNCHANGED <<pc, args, load, skip, exit>>
  PROVE  TodoInv' /\ FindingsInv'
<1> DEFINE m == Head(todo)
           q == ScanFile(m, TypedOf(m))
           pairs(n) == FilePairs(tree.files[n], TypedOf(n))
<1>1. tree \in Trees /\ TodoInv /\ FindingsInv  BY DEF ScanInv
<1>2. tree' = tree  BY DEF args
<1>3. /\ Source' = Source
      /\ \A n : Visited(n)' <=> Visited(n)
      /\ \A n : FilePairs(tree.files[n], TypedOf(n))' = pairs(n)
  BY ScopeUnchanged
<1>4. /\ m \in Source /\ Tail(todo) \in Seq(Source) /\ NoRepeat(Tail(todo))
      /\ \A x : Occurs(x, todo) <=> x = m \/ Occurs(x, Tail(todo))
      /\ ~Occurs(m, Tail(todo))
  BY <1>1, HeadOnce DEF TodoInv
<1>5. TodoInv'  BY <1>3, <1>4 DEF TodoInv
<1>6. m \in DOMAIN tree.files  BY <1>4 DEF Source
<1>7. Reports(q, m, pairs(m))
  <2>1. WellFormedFile(tree.files[m]) /\ MaxDepth \in Nat  BY <1>1, <1>6, TreeShape
  <2>2. QED  BY <2>1, ScanFileReports
<1>8. \A n : Looked(n)' <=> Looked(n) \/ (n = m /\ Visited(m))
  <2> SUFFICES ASSUME NEW n PROVE Looked(n)' <=> Looked(n) \/ (n = m /\ Visited(m))  OBVIOUS
  <2>1. Looked(n)' <=> n \in Source /\ ~Occurs(n, Tail(todo)) /\ Visited(n)
    <3>1. Looked(n)' <=> n \in Source' /\ ~Occurs(n, todo') /\ Visited(n)'  BY DEF Looked, Occurs
    <3>2. QED  BY <1>3, <3>1
  <2>2. QED  BY <1>4, <2>1 DEF Looked
<1>9. ~Looked(m)  BY <1>4 DEF Looked
<1> HIDE DEF q, pairs, m
<1>10. ASequence(findings')
  <2>1. ASequence(findings) /\ ASequence(q)  BY <1>1, <1>7 DEF FindingsInv, Reports
  <2>2. QED  BY <2>1, ASequenceConcat DEF q, m
<1>11. ASSUME NEW k \in DOMAIN findings' PROVE findings'[k].file \in Source /\ Visited(findings'[k].file)
  <2>2. \A x : Occurs(x, findings) => x.file \in Source /\ Visited(x.file)
    BY <1>1 DEF FindingsInv, Occurs
  <2>3. CASE Visited(m)
    <3>1. findings' = findings \o q  BY <2>3 DEF m, q
    <3>2. ASequence(findings) /\ ASequence(q)  BY <1>1, <1>7 DEF FindingsInv, Reports
    <3>3. Occurs(findings'[k], findings) \/ Occurs(findings'[k], q)
      <4>1. Occurs(findings'[k], findings')  BY <1>11 DEF Occurs
      <4>2. \A x : Occurs(x, findings \o q) <=> Occurs(x, findings) \/ Occurs(x, q)
        BY <3>2, ASequenceConcat
      <4>3. QED  BY <3>1, <4>1, <4>2
    <3>4. \A x : Occurs(x, q) => x.file = m
      <4> SUFFICES ASSUME NEW x, Occurs(x, q), x.file # m PROVE FALSE  OBVIOUS
      <4>1. None(q, x.file, x.line, x.cat)  BY <1>7 DEF Reports
      <4>2. QED  BY <4>1, NoneOccurs DEF Match
    <3>5. QED  BY <1>4, <2>2, <2>3, <3>3, <3>4
  <2>4. CASE ~Visited(m)
    <3>1. findings' = findings  BY <2>4 DEF m
    <3>2. Occurs(findings'[k], findings)  BY <1>11, <3>1 DEF Occurs
    <3>3. QED  BY <2>2, <3>2
  <2>5. QED  BY <2>3, <2>4
<1>12. ASSUME NEW n \in DOMAIN tree.files, NEW l, NEW c
       PROVE  IF (Looked(n) \/ (n = m /\ Visited(m))) /\ <<l, c>> \in pairs(n)
                THEN One(findings', n, l, c) ELSE None(findings', n, l, c)
  <2>1. IF Looked(n) /\ <<l, c>> \in pairs(n) THEN One(findings, n, l, c) ELSE None(findings, n, l, c)
    BY <1>1 DEF FindingsInv, pairs
  <2>2. CASE Visited(m)
    <3>1. findings' = findings \o q  BY <2>2 DEF m, q
    <3>2. ASequence(findings) /\ ASequence(q)  BY <1>1, <1>7 DEF FindingsInv, Reports
    <3>3. CASE n = m
      <4>1. None(findings, n, l, c)  BY <1>9, <2>1, <3>3
      <4>2. IF <<l, c>> \in pairs(n) THEN One(q, n, l, c) ELSE None(q, n, l, c)
        BY <1>7, <3>3 DEF Reports
      <4>3. QED  BY <2>2, <3>1, <3>2, <3>3, <4>1, <4>2, ConcatHits
    <3>4. CASE n # m
      <4>1. None(q, n, l, c)  BY <1>7, <3>4 DEF Reports
      <4>2. QED  BY <2>1, <3>1, <3>2, <3>4, <4>1, ConcatHits
    <3>5. QED  BY <3>3, <3>4
  <2>3. CASE ~Visited(m)
    <3>1. findings' = findings  BY <2>3 DEF m
    <3>2. QED  BY <2>1, <2>3, <3>1
  <2>4. QED  BY <2>2, <2>3
<1>13. \A n \in DOMAIN tree'.files : \A l, c :
         IF Looked(n)' /\ <<l, c>> \in FilePairs(tree.files[n], TypedOf(n))'
           THEN One(findings', n, l, c) ELSE None(findings', n, l, c)
  BY <1>2, <1>3, <1>8, <1>12
<1>14. FindingsInv'
  <2>1. \A n, l, c : One(findings, n, l, c)' <=> One(findings', n, l, c)  BY DEF One, Match
  <2>2. \A n, l, c : None(findings, n, l, c)' <=> None(findings', n, l, c)  BY DEF None, Match
  <2>3. ASequence(findings)' <=> ASequence(findings')  BY SMTT(60) DEF ASequence
  <2>4. (\A k \in DOMAIN findings : findings[k].file \in Source /\ Visited(findings[k].file))'
    <3>1. /\ pc' = pc /\ tool' = tool /\ tree' = tree /\ load' = load /\ skip' = skip  BY DEF args
    <3>2. QED  BY <1>11, <3>1, ZenonT(60)
            DEF Source, Visited, shouldSkipFile, shouldSkipRelPath, HasSyntax, WalkSkips, PkgOf
  <2>5. (\A n \in DOMAIN tree.files : \A l, c :
           IF Looked(n) /\ <<l, c>> \in FilePairs(tree.files[n], TypedOf(n))
             THEN One(findings, n, l, c) ELSE None(findings, n, l, c))'
    BY <1>13, <2>1, <2>2
  <2>6. QED  BY <1>10, <2>3, <2>4, <2>5 DEF FindingsInv
<1>15. QED  BY <1>5, <1>14

-------------------------------------------------------------------------------
\* When all files are visited, those in scope were looked at.
LEMMA ScopeLooked ==
  ASSUME ScanInv, Scanned, NEW n \in DOMAIN tree.files, InScope(n)
  PROVE  Looked(n)
<1>1. /\ tool \in Tools /\ todo = <<>> /\ pc \in {"walk", "packages"}
      /\ skip = IF pc = "packages" THEN excludes ELSE FallbackExcludes
  BY DEF ScanInv, Scanned
<1>2. n \in Source /\ ~Occurs(n, todo)  BY <1>1 DEF Source, InScope, Occurs
<1>3. ~shouldSkipRelPath(n)
  <2>1. skip \subseteq excludes  BY <1>1 DEF FallbackExcludes
  <2>2. QED  BY <2>1 DEF shouldSkipRelPath, InScope, Excluded
<1>4. ~shouldSkipFile(n)  BY DEF shouldSkipFile, InScope, PkgOf
<1>5. ~WalkSkips(n)  BY DEF WalkSkips, InScope, PkgOf
<1>6. Visited(n)  BY <1>3, <1>4, <1>5 DEF Visited, HasSyntax, InScope
<1>7. QED  BY <1>2, <1>6 DEF Looked

\* A write of shared state that is not of an overlooked form is one that lint looks for.
LEMMA WriteFound ==
  ASSUME NEW f, NEW fn, NEW s, NEW typed, s.kind = "write", IsSequence(s.path), ~OverlookedWrite(f, fn, s)
  PROVE  SharedStateOf(s) \subseteq LintSite(f, fn, s, typed)
<1>1. fn.isFunc /\ s.form = "assign" /\ ~isConstructor(fn.name)  BY DEF OverlookedWrite
<1>2. ASSUME s.holder = "keeper" PROVE "keeper_field" \in LintSite(f, fn, s, typed)
  <2>1. /\ fn.recv # "" /\ s.base = fn.recv /\ s.path # <<>> /\ s.path[1] # "[]"
        /\ \A k \in 2 .. Len(s.path) : s.path[k] = "[]"
        /\ ~isSafeField(s.path[1]) /\ ~isKVStoreBacked(s.type)
    BY <1>2 DEF OverlookedWrite
  <2>2. ToSet(Tail(s.path)) \subseteq {"[]"}
    <3> DEFINE p == s.path
               S == {p[k] : k \in 1 .. Len(p)}
    <3>1. Len(p) \in Nat /\ p = [k \in 1 .. Len(p) |-> p[k]] /\ p # <<>>  BY <2>1 DEF IsSequence
    <3>2. \A k \in 1 .. Len(p) : p[k] \in S  OBVIOUS
    <3>3. \A k \in 2 .. Len(p) : p[k] = "[]"  BY <2>1
    <3> HIDE DEF p, S
    <3>4. p \in Seq(S)
      <4>1. p \in [1 .. Len(p) -> S]  BY <3>1, <3>2
      <4>2. QED  BY <3>1, <4>1
    <3>5. /\ DOMAIN Tail(p) = 1 .. Len(p) - 1
          /\ \A k \in 1 .. Len(p) - 1 : Tail(p)[k] = p[k + 1]
      BY <3>1, <3>4
    <3>6. \A k \in 1 .. Len(p) - 1 : Tail(p)[k] = "[]"
      <4>1. \A k \in 1 .. Len(p) - 1 : k + 1 \in 2 .. Len(p)  BY <3>1
      <4>2. QED  BY <3>3, <3>5, <4>1
    <3>7. QED  BY <3>5, <3>6 DEF ToSet, p
  <2>3. receiverField(fn, s)  BY <2>1, <2>2 DEF receiverField
  <2>4. QED  BY <1>1, <2>1, <2>3 DEF LintSite, isTypeSafeField
<1>3. ASSUME s.holder = "package" PROVE "pkg_var" \in LintSite(f, fn, s, typed)
  <2>1. pkgVarTarget(f, s)  BY <1>3 DEF OverlookedWrite, pkgVarTarget
  <2>2. QED  BY <1>1, <2>1 DEF LintSite
<1>4. QED  BY <1>2, <1>3 DEF SharedStateOf

\* A site that must be a finding whatever is known of its type is found.
LEMMA CertainFound ==
  ASSUME NEW f, NEW fn, NEW s, NEW typed, Resolves(f, s), s.kind = "write" => IsSequence(s.path), tool \in Tools
  PROVE  CertainAt(f, fn, s) \subseteq SiteCats(f, fn, s, typed)
<1>1. CASE tool = "detect" /\ s.kind = "call" /\ ~OverlookedCall(fn, s)
  <2>1. CertainAt(f, fn, s) = Lookup(s.target, s.sel)  BY <1>1 DEF CertainAt
  <2>2. s.qual # "" /\ fn.isFunc /\ fn.name \notin abciHookFunctions
    BY <1>1 DEF OverlookedCall, DetectScans
  <2>3. SiteCats(f, fn, s, typed) = UNION {Lookup(path, s.sel) : path \in buildAliasMap(f, s.qual)}
    BY <1>1, <2>2 DEF SiteCats, DetectSite
  <2>4. Lookup(s.target, s.sel) # {} => buildAliasMap(f, s.qual) = {s.target}
    BY <1>1, <2>2 DEF Resolves
  <2>5. QED  BY <2>1, <2>3, <2>4
<1>2. CASE tool = "lint" /\ s.kind = "write" /\ ~OverlookedWrite(f, fn, s)
  <2>1. CertainAt(f, fn, s) = SharedStateOf(s)  BY <1>2 DEF CertainAt
  <2>2. SiteCats(f, fn, s, typed) = LintSite(f, fn, s, typed)  BY <1>2 DEF SiteCats, OverlookedWrite
  <2>3. QED  BY <1>2, <2>1, <2>2, WriteFound
<1>3. CASE /\ ~(tool = "detect" /\ s.kind = "call" /\ ~OverlookedCall(fn, s))
           /\ ~(tool = "lint" /\ s.kind = "write" /\ ~OverlookedWrite(f, fn, s))
  BY <1>3 DEF CertainAt
<1>4. QED  BY <1>1, <1>2, <1>3

\* Hence it is reported once.
LEMMA CertainReported ==
  ASSUME ScanInv, Scanned, NEW n \in DOMAIN tree.files, InScope(n), NEW c \in Certain(n)
  PROVE  One(findings, n, c.line, c.cat)
<1> DEFINE f == tree.files[n]
<1>1. tree \in Trees /\ tool \in Tools /\ FindingsInv  BY DEF ScanInv, Scanned
<1>2. MaxDepth \in Nat /\ WellFormedFile(f)  BY <1>1, TreeShape
<1>3. \E fn \in ToSet(f.decls) : \E s \in ToSet(fn.body) :
        c.line = s.line /\ c.cat \in CertainAt(f, fn, s)
  BY DEF Certain
<1>4. PICK k \in 1 .. Len(f.decls) : \E s \in ToSet(f.decls[k].body) :
        c.line = s.line /\ c.cat \in CertainAt(f, f.decls[k], s)
  BY <1>2, <1>3, FileShape, SMTT(60) DEF ToSet
<1>5. PICK j \in 1 .. Len(f.decls[k].body) :
        c.line = f.decls[k].body[j].line /\ c.cat \in CertainAt(f, f.decls[k], f.decls[k].body[j])
  <2>1. DOMAIN f.decls[k].body = 1 .. Len(f.decls[k].body)  BY <1>2, FileShape
  <2> DEFINE body == f.decls[k].body
  <2>2. PICK s \in ToSet(body) : c.line = s.line /\ c.cat \in CertainAt(f, f.decls[k], s)  BY <1>4
  <2> HIDE DEF body
  <2>3. PICK j \in DOMAIN body : s = body[j]  BY DEF ToSet
  <2>4. QED  BY <2>1, <2>2, <2>3 DEF body
<1>6. c.cat \in SiteCats(f, f.decls[k], f.decls[k].body[j], TypedOf(n))
  <2>1. /\ Resolves(f, f.decls[k].body[j])
        /\ f.decls[k].body[j].kind = "write" => IsSequence(f.decls[k].body[j].path)
    BY <1>2, FileShape
  <2>2. QED  BY <1>1, <1>5, <2>1, CertainFound
<1>7. <<c.line, c.cat>> \in FilePairs(f, TypedOf(n))
  BY <1>2, <1>5, <1>6, SitePairs
<1>8. QED  BY <1>1, <1>7, ScopeLooked DEF FindingsInv

\* The count the properties use.
LEMMA CountHits ==
  ASSUME NEW n, NEW l, NEW c
  PROVE  /\ One(findings, n, l, c) => ReportsOf(n, l, c) = 1
         /\ None(findings, n, l, c) => ReportsOf(n, l, c) = 0
<1> DEFINE K == {k \in DOMAIN findings : findings[k].file = n /\ findings[k].line = l /\ findings[k].cat = c}
<1>1. ASSUME One(findings, n, l, c) PROVE ReportsOf(n, l, c) = 1
  <2>1. PICK k \in DOMAIN findings : /\ Match(findings[k], n, l, c)
                                     /\ \A j \in DOMAIN findings : Match(findings[j], n, l, c) => j = k
    BY <1>1 DEF One
  <2>2. K = {k}  BY <2>1 DEF Match
  <2>3. QED  BY <2>2, FS_Singleton DEF ReportsOf
<1>2. ASSUME None(findings, n, l, c) PROVE ReportsOf(n, l, c) = 0
  <2>1. K = {}  BY <1>2 DEF None, Match
  <2>2. QED  BY <2>1, FS_EmptySet DEF ReportsOf
<1>3. QED  BY <1>1, <1>2

\* The invariant implies the properties.
LEMMA ScanInvProperties ==
  ASSUME ScanInv
  PROVE  EachSiteReportedOnce /\ ErrorsStayLocal /\ CleanExitMeansClean
<1>1. EachSiteReportedOnce
  <2> SUFFICES ASSUME Scanned, NEW n \in DOMAIN tree.files
               PROVE  /\ InScope(n) => \A c \in Certain(n) : ReportsOf(n, c.line, c.cat) = 1
                      /\ \/ tree.files[n].test
                         \/ tool = "lint" /\ Excluded(n)
                         => \A k \in DOMAIN findings : findings[k].file # n
    BY DEF EachSiteReportedOnce
  <2>1. InScope(n) => \A c \in Certain(n) : ReportsOf(n, c.line, c.cat) = 1
    BY CertainReported, CountHits
  <2>2. ASSUME tree.files[n].test \/ (tool = "lint" /\ Excluded(n)),
               NEW k \in DOMAIN findings, findings[k].file = n
        PROVE  FALSE
    <3>1. Visited(n)  BY <2>2 DEF ScanInv, Scanned, FindingsInv
    <3>2. ~tree.files[n].test  BY <3>1 DEF Visited, shouldSkipFile, WalkSkips
    <3>3. ~shouldSkipRelPath(n)  BY <3>1 DEF Visited
    <3>4. tool = "lint" => skip = excludes  BY DEF ScanInv, Scanned, FallbackExcludes
    <3>5. QED  BY <2>2, <3>2, <3>3, <3>4 DEF shouldSkipRelPath, Excluded
  <2>3. QED  BY <2>1, <2>2
<1>2. ErrorsStayLocal
  <2> SUFFICES ASSUME Scanned, pc = "packages", NEW n \in DOMAIN tree.files, InScope(n), load[PkgOf(n)] = "ok",
                      NEW fn \in ToSet(tree.files[n].decls), NEW s \in ToSet(fn.body)
               PROVE  /\ tool = "detect" /\ DetectScans(fn) /\ s.kind = "range" /\ s.type # "unknown"
                           => ReportsOf(n, s.line, "map_iter") = IF s.type = "map" THEN 1 ELSE 0
                      /\ tool = "lint" /\ s.kind = "write" /\ isKVStoreBacked(s.type)
                           => ReportsOf(n, s.line, "keeper_field") = 0
    BY DEF ErrorsStayLocal
  <2> DEFINE f == tree.files[n]
  <2>1. tree \in Trees /\ tool \in Tools /\ FindingsInv  BY DEF ScanInv
  <2>2. MaxDepth \in Nat /\ WellFormedFile(f)  BY <2>1, TreeShape
  <2>3. PICK k \in 1 .. Len(f.decls) : fn = f.decls[k]  BY <2>2, FileShape DEF ToSet
  <2>4. PICK j \in 1 .. Len(fn.body) : s = fn.body[j]  BY <2>2, <2>3, FileShape, SMTT(60) DEF ToSet
  <2>5. TypedOf(n) = TRUE  BY DEF TypedOf, UsesTypes
  <2>6. \A c : IF c \in SiteCats(f, fn, s, TRUE) THEN One(findings, n, s.line, c) ELSE None(findings, n, s.line, c)
    <3>1. \A c : <<s.line, c>> \in FilePairs(f, TRUE) <=> c \in SiteCats(f, fn, s, TRUE)
      BY <2>2, <2>3, <2>4, SitePairs
    <3>2. \A l, c : IF <<l, c>> \in FilePairs(f, TRUE) THEN One(findings, n, l, c) ELSE None(findings, n, l, c)
      BY <2>1, <2>5, ScopeLooked DEF FindingsInv
    <3>3. QED  BY <3>1, <3>2
  <2>7. ASSUME tool = "detect", DetectScans(fn), s.kind = "range", s.type # "unknown"
        PROVE  ReportsOf(n, s.line, "map_iter") = IF s.type = "map" THEN 1 ELSE 0
    <3>1. "map_iter" \in SiteCats(f, fn, s, TRUE) <=> s.type = "map"
      BY <2>7 DEF SiteCats, DetectSite, isMapRange, DetectScans
    <3>2. QED  BY <2>6, <3>1, CountHits
  <2>8. ASSUME tool = "lint", s.kind = "write", isKVStoreBacked(s.type)
        PROVE  ReportsOf(n, s.line, "keeper_field") = 0
    <3>1. "keeper_field" \notin SiteCats(f, fn, s, TRUE)
      BY <2>8 DEF SiteCats, LintSite, isTypeSafeField
    <3>2. QED  BY <2>6, <3>1, CountHits
  <2>9. QED  BY <2>7, <2>8
<1>3. QED  BY <1>1, <1>2 DEF ScanInv

-------------------------------------------------------------------------------
\* What is in scope and certain depends on the arguments of the command only.
LEMMA CertainUnchanged ==
  ASSUME UNCHANGED args
  PROVE  \A n : (InScope(n)' <=> InScope(n)) /\ Certain(n)' = Certain(n)
<1>1. tool' = tool /\ tree' = tree /\ excludes' = excludes  BY DEF args
<1>2. \A n : InScope(n)' <=> InScope(n)  BY <1>1 DEF InScope, Excluded, PkgOf
<1>3. \A n : Certain(n)' = Certain(n)
  <2>1. \A f, fn, s : CertainAt(f, fn, s)' = CertainAt(f, fn, s)  BY <1>1 DEF CertainAt
  <2>2. QED  BY <1>1, <2>1 DEF Certain, CertainAt
<1>4. QED  BY <1>2, <1>3

\* A clean exit is decided on all findings.
LEMMA ReportStep ==
  ASSUME ScanInv, Report
  PROVE  CleanExitMeansClean'
<1>1. /\ tool' = tool /\ tree' = tree /\ excludes' = excludes /\ filter' = filter /\ failOn' = failOn
      /\ Scanned
  BY DEF Report, args, Scanned
<1> DEFINE q == [k \in DOMAIN findings |-> IF Kept(findings[k]) THEN <<findings[k]>> ELSE <<>>]
<1>2. SUFFICES ASSUME exit' = 0, tool = "detect" \/ failOn,
                      NEW n \in DOMAIN tree.files, InScope(n), NEW c \in Certain(n)
               PROVE  filter # "" /\ c.cat # filter
  <2>1. \A n : (InScope(n)' <=> InScope(n)) /\ Certain(n)' = Certain(n)
    BY CertainUnchanged DEF Report
  <2>2. QED  BY <1>1, <2>1 DEF CleanExitMeansClean
<1>3. SortFindings(FilterFindings) = <<>>  BY <1>2 DEF Report
<1>4. DOMAIN FilterFindings = {}
  <2>1. DOMAIN SortFindings(FilterFindings) = DOMAIN FilterFindings  BY DEF SortFindings
  <2>2. QED  BY <1>3, <2>1
<1>5. \A k \in DOMAIN findings : ~Kept(findings[k])
  <2>1. ASequence(findings)  BY <1>1 DEF ScanInv, Scanned, FindingsInv
  <2>2. Len(findings) \in Nat /\ DOMAIN findings = 1 .. Len(findings)
    <3> HIDE DEF Range
    <3> QED  BY <2>1 DEF ASequence
  <2> DEFINE N == Len(findings)
  <2>3. q = [k \in 1 .. N |-> q[k]]  BY <2>2
  <2>4. \A k \in 1 .. N : ASequence(q[k])  BY <2>2, ASequenceOne
  <2>5. \A k \in 1 .. N : Kept(findings[k]) => Occurs(findings[k], q[k])  BY <2>2, ASequenceOne
  <2>6. FilterFindings = FlattenSeq(q)  BY DEF FilterFindings
  <2> HIDE DEF q, N
  <2>7. \A x : Occurs(x, FlattenSeq(q)) <=> \E k \in 1 .. N : Occurs(x, q[k])
    BY <2>2, <2>3, <2>4, ASequenceFlatten DEF N
  <2>8. \A x : ~Occurs(x, FilterFindings)  BY <1>4 DEF Occurs
  <2>9. QED  BY <2>2, <2>5, <2>6, <2>7, <2>8 DEF N
<1>6. PICK k \in DOMAIN findings : Match(findings[k], n, c.line, c.cat)
  BY <1>1, <1>2, CertainReported DEF One
<1>7. QED  BY <1>5, <1>6 DEF Kept, Match

\* Nothing is found before a file is visited.
LEMMA NothingYet ==
  ASSUME findings' = <<>>, \A n \in Source' : Occurs(n, todo')
  PROVE  FindingsInv'
<1>1. ASequence(findings)'
  <2>1. ASequence(findings') BY ASequenceOne
  <2>2. QED  BY <2>1 DEF ASequence
<1>2. \A n : ~Looked(n)'
  <2>1. \A n : Looked(n)' => n \in Source' /\ ~Occurs(n, todo')  BY DEF Looked, Occurs
  <2>2. QED  BY <2>1
<1>3. \A n, l, c : None(findings, n, l, c)'  BY DEF None
<1>4. QED  BY <1>1, <1>2, <1>3 DEF FindingsInv

\* ScanInv is an invariant.
LEMMA ScanInvariant == Spec => []ScanInv
<1>1. Init => ScanInv  BY DEF Init, ScanInv, CleanExitMeansClean
<1>2. ScanInv /\ [Next]_vars => ScanInv'
  <2> SUFFICES ASSUME ScanInv, [Next]_vars PROVE ScanInv'  OBVIOUS
  <2>1. ASSUME NEW t \in Tools, NEW tr \in Trees, NEW ex \in Excludes, NEW fo \in BOOLEAN, NEW fl \in Filters(t),
               Command(t, tr, ex, fl, fo)
        PROVE  ScanInv'
    BY <2>1 DEF Command, ScanInv, CleanExitMeansClean
  <2>2. CASE LoadFails
    <3>1. /\ pc = "load" /\ pc' = "walk" /\ tool' = tool /\ tree' = tree /\ excludes' = excludes
          /\ findings' = findings /\ skip' = FallbackExcludes /\ todo' = [n \in DOMAIN tree.files |-> n]
      BY <2>2 DEF LoadFails, args
    <3>2. tree \in Trees /\ tool \in Tools /\ findings = <<>>  BY <3>1 DEF ScanInv
    <3>3. Len(tree.files) \in Nat /\ DOMAIN tree.files = 1 .. Len(tree.files)  BY <3>2, TreeShape
    <3>4. Source' = 1 .. Len(tree.files)  BY <3>1, <3>3 DEF Source
    <3>5. todo' \in Seq(Source') /\ NoRepeat(todo')
      <4> DEFINE N == Len(tree.files)
      <4>1. todo' = [n \in 1 .. N |-> n] /\ N \in Nat  BY <3>1, <3>3
      <4> HIDE DEF N
      <4>2. todo' \in Seq(1 .. N) /\ Len(todo') = N  BY <4>1
      <4>3. QED  BY <3>4, <4>1, <4>2 DEF NoRepeat, N
    <3>6. \A n \in Source' : Occurs(n, todo')  BY <3>1, <3>3, <3>4 DEF Occurs
    <3>7. TodoInv' /\ FindingsInv'  BY <3>1, <3>2, <3>5, <3>6, NothingYet DEF TodoInv, NoRepeat
    <3>8. skip' = FallbackExcludes'  BY <3>1 DEF FallbackExcludes
    <3>9. QED  BY <3>1, <3>2, <3>7, <3>8 DEF ScanInv, CleanExitMeansClean
  <2>3. ASSUME NEW ld \in [Packages -> {"ok", "errors", "nosyntax"}], LoadReturns(ld) PROVE ScanInv'
    <3> DEFINE B == {n \in DOMAIN tree.files : tree.files[n].inBuild}
               N == Len(tree.files)
               q == [n \in DOMAIN tree.files |-> IF tree.files[n].inBuild THEN <<n>> ELSE <<>>]
    <3>1. /\ pc = "load" /\ pc' = "packages" /\ tool' = tool /\ tree' = tree /\ excludes' = excludes
          /\ findings' = findings /\ skip' = excludes /\ todo' = FlattenSeq(q)
      BY <2>3 DEF LoadReturns, args
    <3>2. tree \in Trees /\ tool \in Tools /\ findings = <<>>  BY <3>1 DEF ScanInv
    <3>3. N \in Nat /\ DOMAIN tree.files = 1 .. N  BY <3>2, TreeShape
    <3>4. Source' = B  BY <3>1 DEF Source
    <3>5. /\ q = [n \in 1 .. N |-> q[n]]
          /\ \A n \in 1 .. N : (n \in B => q[n] = <<n>>) /\ (n \notin B => q[n] = <<>>)
      BY <3>3
    <3>6. \A n \in B : n \in 1 .. N  BY <3>3
    <3> HIDE DEF B, N, q
    <3>7. /\ todo' \in Seq(1 .. N) /\ NoRepeat(todo')
          /\ \A x : Occurs(x, todo') <=> x \in 1 .. N /\ x \in B
      <4>1. /\ FlattenSeq(q) \in Seq(1 .. N) /\ NoRepeat(FlattenSeq(q))
            /\ \A x : Occurs(x, FlattenSeq(q)) <=> x \in 1 .. N /\ x \in B
        <5>1. N \in Nat  BY <3>3
        <5>2. QED  BY <3>5, <5>1, PickedOnce
      <4>2. QED  BY <3>1, <4>1
    <3>8. todo' \in Seq(B)
      <4>1. ASequence(todo')  BY <3>7, SeqIsASequence
      <4>2. QED  BY <3>7, <4>1, SeqOver
    <3>9. TodoInv' /\ FindingsInv'  BY <3>1, <3>2, <3>4, <3>6, <3>7, <3>8, NothingYet DEF TodoInv, NoRepeat
    <3>10. QED  BY <3>1, <3>2, <3>9 DEF ScanInv, CleanExitMeansClean
  <2>4. ASSUME WalkFile \/ PackageFile PROVE ScanInv'
    <3>1. /\ pc \in {"walk", "packages"} /\ todo # <<>> /\ todo' = Tail(todo)
          /\ UNCHANGED <<pc, args, load, skip, exit>>
      BY <2>4 DEF WalkFile, PackageFile, Visit
    <3>2. findings' = IF Visited(Head(todo)) THEN findings \o ScanFile(Head(todo), TypedOf(Head(todo)))
                                            ELSE findings
      <4>1. CASE WalkFile
        <5>1. TypedOf(Head(todo)) = FALSE  BY <4>1 DEF WalkFile, TypedOf
        <5>2. QED  BY <4>1, <5>1 DEF WalkFile, Visit, Visited
      <4>2. CASE PackageFile
        <5>1. TypedOf(Head(todo)) = UsesTypes(Head(todo))  BY <4>2 DEF PackageFile, TypedOf, UsesTypes
        <5>2. QED  BY <4>2, <5>1 DEF PackageFile, Visit, Visited
      <4>3. QED  BY <2>4, <4>1, <4>2
    <3>3. TodoInv' /\ FindingsInv'  BY <3>1, <3>2, VisitStep
    <3>4. /\ pc' = pc /\ tool' = tool /\ tree' = tree /\ excludes' = excludes /\ skip' = skip  BY <3>1 DEF args
    <3>5. QED  BY <3>1, <3>3, <3>4 DEF ScanInv, CleanExitMeansClean, FallbackExcludes
  <2>5. CASE WalkFails
    BY <2>5 DEF WalkFails, ScanInv, CleanExitMeansClean, args
  <2>6. CASE Report
    <3>1. CleanExitMeansClean'  BY <2>6, ReportStep
    <3>2. QED  BY <2>6, <3>1 DEF Report, ScanInv, args
  <2>7. CASE UNCHANGED vars
    <3>1. UNCHANGED <<pc, args, load, skip>> /\ todo' = todo /\ findings' = findings /\ exit' = exit
      BY <2>7 DEF vars
    <3>2. /\ pc' = pc /\ tool' = tool /\ tree' = tree /\ excludes' = excludes /\ filter' = filter
          /\ failOn' = failOn /\ load' = load /\ skip' = skip
      BY <3>1 DEF args
    <3>3. CleanExitMeansClean'
      <4>1. CleanExitMeansClean  BY DEF ScanInv
      <4>2. \A n : (InScope(n)' <=> InScope(n)) /\ Certain(n)' = Certain(n)  BY <3>1, CertainUnchanged
      <4>3. QED  BY <3>1, <3>2, <4>1, <4>2 DEF CleanExitMeansClean
    <3>4. TodoInv => TodoInv'  BY <3>1, ScopeUnchanged DEF TodoInv, NoRepeat
    <3>5. ASSUME FindingsInv PROVE FindingsInv'
      <4>1. /\ Source' = Source
            /\ \A n : Visited(n)' <=> Visited(n)
            /\ \A n : FilePairs(tree.files[n], TypedOf(n))' = FilePairs(tree.files[n], TypedOf(n))
        BY <3>1, ScopeUnchanged
      <4>2. \A n : Looked(n)' <=> Looked(n)
        <5>1. \A n : Looked(n)' <=> n \in Source' /\ ~Occurs(n, todo') /\ Visited(n)'  BY DEF Looked, Occurs
        <5>2. QED  BY <3>1, <4>1, <5>1 DEF Looked
      <4>3. \A n, l, c : (One(findings, n, l, c)' <=> One(findings, n, l, c))
                         /\ (None(findings, n, l, c)' <=> None(findings, n, l, c))
        BY <3>1 DEF One, None, Match
      <4>4. ASequence(findings)'  BY <3>1, <3>5 DEF FindingsInv, ASequence
      <4>5. (\A k \in DOMAIN findings : findings[k].file \in Source /\ Visited(findings[k].file))'
        BY <3>1, <3>2, <3>5
          DEF FindingsInv, Source, Visited, shouldSkipFile, shouldSkipRelPath, HasSyntax, WalkSkips, PkgOf
      <4>6. (\A n \in DOMAIN tree.files : \A l, c :
               IF Looked(n) /\ <<l, c>> \in FilePairs(tree.files[n], TypedOf(n))
                 THEN One(findings, n, l, c) ELSE None(findings, n, l, c))'
        BY <3>2, <3>5, <4>1, <4>2, <4>3 DEF FindingsInv
      <4>7. QED  BY <4>4, <4>5, <4>6 DEF FindingsInv
    <3>6. QED  BY <3>1, <3>2, <3>3, <3>4, <3>5 DEF ScanInv, FallbackExcludes
  <2>8. QED  BY <2>1, <2>2, <2>3, <2>4, <2>5, <2>6, <2>7 DEF Next, Done
<1>3. QED  BY <1>1, <1>2, PTL DEF Spec

\* Whichever packages of a tree fail to load, and however far, detect and lint report each call of
\* a listed function and each write of shared state in a file in scope exactly once, except those
\* of the forms that OverlookedCall and OverlookedWrite list, and nothing of a test file.
THEOREM SitesReportedOnce == Spec => []EachSiteReportedOnce
BY ScanInvariant, ScanInvProperties, PTL

\* In a package that loaded, a range in a function that detect scans is reported exactly if it is
\* over a map and a field kept in a KVStore never, whatever errors other packages have.
THEOREM ErrorsAreLocal == Spec => []ErrorsStayLocal
BY ScanInvariant, ScanInvProperties, PTL

\* Exit code 0 of a gate means that no file in scope has a site of the selected category, except
\* those of a form that is overlooked.
THEOREM CleanExitIsClean == Spec => []CleanExitMeansClean
BY ScanInvariant, ScanInvProperties, PTL
===============================================================================
