----------------------------- MODULE HarnessProofs -----------------------------
(***************************************************************************)
(* Proofs about RunHarness, for every corpus, every result set and every    *)
(* number of failures.                                                      *)
(***************************************************************************)
EXTENDS Harness, DataLemmas, TLAPS

StoreSpecs == [count : Nat, canary : BOOLEAN, snapshot : BOOLEAN,
               items : Seq([kind : {"block", "error"}, height : Nat, keys : Seq(STRING)])]

\* The argument is one of the corpora, and is never assigned.
StoresOK == stores \in Corpora

\* While a store is being worked on, cur points at it.
InStore == pc \in {"iter", "block"} => cur \in DOMAIN stores

TypeInv == StoresOK /\ InStore /\ TypeOK

USE DEF input

\* A store is a record of its type: every corpus is a sequence of them.
LEMMA StoreTyped ==
  ASSUME StoresOK
  PROVE  /\ stores \in Seq(StoreSpecs)
         /\ Len(stores) \in Nat /\ DOMAIN stores = 1 .. Len(stores)
         /\ \A n \in DOMAIN stores : stores[n] \in StoreSpecs
<1>1. stores \in Seq(StoreSpecs)  BY HarnessAssumption DEF StoresOK, StoreSpecs
<1>2. QED  BY <1>1

\* RunHarness's variables keep their types (the invariant carries what the loop knows
\* about its store).
THEOREM TypeInvariant == Spec => []TypeInv
<1>1. Init => TypeInv
  <2> SUFFICES ASSUME Init PROVE TypeInv  OBVIOUS
  <2>1. StoresOK  BY DEF Init, StoresOK
  <2>2. stores \in Seq(StoreSpecs)  BY <2>1, StoreTyped
  <2>3. QED  BY <2>1, <2>2, HarnessAssumption DEF Init, TypeInv, TypeOK, InStore
<1>2. TypeInv /\ [Next]_vars => TypeInv'
  <2> SUFFICES ASSUME TypeInv, [Next]_vars PROVE TypeInv'  OBVIOUS
  <2> USE DEF TypeInv, TypeOK, InStore
  <2>0. /\ Len(stores) \in Nat /\ DOMAIN stores = 1 .. Len(stores)
        /\ \A n \in DOMAIN stores : stores[n] \in StoreSpecs
    BY StoreTyped
  <2>1. ASSUME SkipStore, pc = "store", cur <= Len(stores), faults' \in 0 .. MaxFaults PROVE TypeInv'
    <3>1. cur \in DOMAIN stores  BY <2>0, <2>1
    <3>2. store \in StoreSpecs  BY <2>0, <3>1 DEF store
    <3>3. store.count \in Nat  BY <3>2 DEF StoreSpecs
    <3>4. closes' \in [DOMAIN stores -> Nat]  BY <2>1, <3>1 DEF SkipStore
    <3>5. blockNum' \in Nat  BY <2>1, <3>3 DEF SkipStore
    <3>6. cur' \in 1 .. Len(stores) + 1  BY <2>0, <2>1, <3>1 DEF SkipStore
    <3>7. UNCHANGED <<stores, pc, pos, localHeight, counters, ephase, outcomes, exit>>
      BY <2>1 DEF SkipStore
    <3>8. QED  BY <2>1, <3>4, <3>5, <3>6, <3>7 DEF StoresOK, counters
  <2>2. CASE Unsupported  BY <2>1, <2>2 DEF Unsupported
  <2>3. CASE InitFails
    <3>1. faults' \in 0 .. MaxFaults  BY <2>3, HarnessAssumption DEF InitFails
    <3>2. QED  BY <2>1, <2>3, <3>1 DEF InitFails
  <2>4. CASE InitStore
    <3>1. cur \in DOMAIN stores  BY <2>0, <2>4 DEF InitStore
    <3>2. QED  BY <2>0, <2>4, <3>1 DEF InitStore, StoresOK, counters
  <2>5. CASE CallRunBlock  BY <2>0, <2>5 DEF CallRunBlock, StoresOK, counters
  <2>6. CASE RunBlockFails
    <3>1. faults' \in 0 .. MaxFaults  BY <2>6, HarnessAssumption DEF RunBlockFails
    <3>2. (outcomes \in Seq({Match, Divergence, "error"}))'  BY <2>6 DEF RunBlockFails
    <3>3. QED  BY <2>0, <2>6, <3>1, <3>2 DEF RunBlockFails, StoresOK, counters
  <2>7. CASE \E r \in Results : ResultReturned(r)
    <3>1. PICK r \in Results : ResultReturned(r)  BY <2>7
    <3>2. r.verdict \in {Match, Divergence} /\ r.ratio \in Nat  BY HarnessAssumption
    <3>3. StoresOK' /\ InStore'  BY <3>1 DEF ResultReturned, StoresOK
    <3>4. (maxExecRatio \in Nat)' /\ (hotKeyBlocks \in Nat)' /\ (okCount \in Nat)'
          /\ (divergenceCount \in Nat)' /\ (canaryExpected \in Nat)' /\ (canaryMissed \in Nat)'
      BY <3>1, <3>2 DEF ResultReturned
    <3>5. (outcomes \in Seq({Match, Divergence, "error"}))'  BY <3>1, <3>2 DEF ResultReturned
    <3>6. QED  BY <2>0, <3>1, <3>3, <3>4, <3>5 DEF ResultReturned
  <2>8. CASE CloseStore
    <3>1. closes' \in [DOMAIN stores -> Nat]  BY <2>8 DEF CloseStore
    <3>2. cur' \in 1 .. Len(stores) + 1  BY <2>0, <2>8, SMTT(60) DEF CloseStore
    <3>3. QED  BY <2>0, <2>8, <3>1, <3>2 DEF CloseStore, StoresOK, counters
  <2>9. CASE Finish  BY <2>0, <2>9 DEF Finish, StoresOK, counters, ExitCode
  <2>10. CASE Done \/ UNCHANGED vars  BY <2>10 DEF Done, vars, StoresOK, counters
  <2>11. QED
    BY <2>2, <2>3, <2>4, <2>5, <2>6, <2>7, <2>8, <2>9, <2>10 DEF Next
<1>3. QED  BY <1>1, <1>2, PTL DEF Spec

\* RunHarness's variables have their types in every reachable state.
THEOREM TypeCorrect == Spec => []TypeOK
<1>1. TypeInv => TypeOK  BY DEF TypeInv
<1>2. QED  BY <1>1, TypeInvariant, PTL

-------------------------------------------------------------------------------
(* Accounting and exit code.                                                 *)

OutcomeRecords ==
  [index : Nat, store : Nat, item : Nat, canary : BOOLEAN, verdict : {Match, Divergence},
   hotKeys : {HotKeys(r) : r \in Results}, ratio : Nat]

\* The counters that decide the exit code are positive exactly if a report says why.
CountInv ==
  /\ reported \in Seq(OutcomeRecords)
  /\ EveryReportCounted
  /\ canaryMissed > 0 <=> \E n \in DOMAIN reported : Missed(reported[n])
  /\ divergenceCount > 0 <=> \E n \in DOMAIN reported : Diverged(reported[n])
  /\ pc = "done" => exit = ExitCode(canaryMissed, divergenceCount)

\* Appending o to the reports makes P hold of some report iff it did before or P(o) holds.
LEMMA AppendReport ==
  ASSUME NEW S, NEW s \in Seq(S), NEW o \in S
  PROVE  /\ Append(s, o) \in Seq(S)
         /\ Len(Append(s, o)) = Len(s) + 1
         /\ DOMAIN Append(s, o) = DOMAIN s \cup {Len(s) + 1}
         /\ \A n \in DOMAIN s : Append(s, o)[n] = s[n] /\ n # Len(s) + 1
         /\ Append(s, o)[Len(s) + 1] = o
  OBVIOUS

\* One step keeps the reports and the counters together.
LEMMA CountStep == TypeInv /\ CountInv /\ [Next]_vars => CountInv'
<1> SUFFICES ASSUME TypeInv, CountInv, [Next]_vars PROVE CountInv'  OBVIOUS
<1>1. ASSUME pc # "done", pc' # "done", UNCHANGED counters PROVE CountInv'
  BY <1>1 DEF CountInv, counters, EveryReportCounted
<1>2. CASE Unsupported  BY <1>1, <1>2 DEF Unsupported, SkipStore
<1>3. CASE InitFails  BY <1>1, <1>3 DEF InitFails, SkipStore
<1>4. CASE InitStore  BY <1>1, <1>4 DEF InitStore
<1>5. CASE CallRunBlock  BY <1>1, <1>5 DEF CallRunBlock
<1>6. CASE RunBlockFails  BY <1>1, <1>6 DEF RunBlockFails
<1>7. CASE CloseStore  BY <1>1, <1>7 DEF CloseStore
<1>8. CASE Finish  BY <1>8 DEF Finish, CountInv, counters, EveryReportCounted
<1>9. CASE Done \/ UNCHANGED vars
  BY <1>9 DEF Done, vars, CountInv, counters, EveryReportCounted
<1>10. CASE \E r \in Results : ResultReturned(r)
  <2>1. PICK r \in Results : ResultReturned(r)  BY <1>10
  <2>2. r.verdict \in {Match, Divergence} /\ r.ratio \in Nat  BY HarnessAssumption
  <2>3. cur \in DOMAIN stores /\ cur \in Nat  BY <2>1 DEF ResultReturned, TypeInv, InStore, TypeOK
  <2>4. store \in StoreSpecs  BY <2>3, StoreTyped DEF TypeInv, store
  <2>5. store.canary \in BOOLEAN  BY <2>4 DEF StoreSpecs
  <2> DEFINE o == [index |-> blockNum, store |-> cur, item |-> pos, canary |-> store.canary,
                   verdict |-> r.verdict, hotKeys |-> HotKeys(r), ratio |-> r.ratio]
  <2>6. o \in OutcomeRecords
    BY <2>2, <2>3, <2>5 DEF TypeInv, TypeOK, OutcomeRecords
  <2>7. reported' = Append(reported, o)  BY <2>1 DEF ResultReturned
  <2> o.canary = store.canary /\ o.verdict = r.verdict  OBVIOUS
  <2> HIDE DEF o
  <2>8. reported \in Seq(OutcomeRecords)  BY DEF CountInv
  <2>9. /\ reported' \in Seq(OutcomeRecords) /\ Len(reported') = Len(reported) + 1
        /\ DOMAIN reported' = DOMAIN reported \cup {Len(reported) + 1}
        /\ \A n \in DOMAIN reported : reported'[n] = reported[n]
        /\ reported'[Len(reported) + 1] = o
    BY <2>6, <2>7, <2>8, AppendReport
  <2>10. (\E n \in DOMAIN reported' : Missed(reported'[n]))
           <=> (\E n \in DOMAIN reported : Missed(reported[n])) \/ Missed(o)
    BY <2>9
  <2>11. (\E n \in DOMAIN reported' : Diverged(reported'[n]))
           <=> (\E n \in DOMAIN reported : Diverged(reported[n])) \/ Diverged(o)
    BY <2>9
  <2>12. pc' # "done"  BY <2>1 DEF ResultReturned
  <2> DEFINE class == Classify(store.canary, r.verdict)
  <2>13. /\ canaryExpected' = IF class = "canaryExpected" THEN canaryExpected + 1 ELSE canaryExpected
         /\ canaryMissed' = IF class = "canaryMissed" THEN canaryMissed + 1 ELSE canaryMissed
         /\ okCount' = IF class = "ok" THEN okCount + 1 ELSE okCount
         /\ divergenceCount' = IF class = "divergence" THEN divergenceCount + 1 ELSE divergenceCount
    BY <2>1 DEF ResultReturned
  <2>14. /\ class \in {"canaryExpected", "canaryMissed", "ok", "divergence"}
         /\ class = "canaryMissed" <=> Missed(o)
         /\ class = "divergence" <=> Diverged(o)
    BY <2>2, <2>5 DEF Classify, Missed, Diverged, Match, Divergence
  <2> HIDE DEF class
  <2>15. Len(reported) \in Nat  BY <2>8
  <2>16. EveryReportCounted'
    <3>1. okCount \in Nat /\ divergenceCount \in Nat /\ canaryExpected \in Nat /\ canaryMissed \in Nat
      BY DEF TypeInv, TypeOK
    <3>2. okCount + divergenceCount + canaryExpected + canaryMissed = Len(reported)
      BY DEF CountInv, EveryReportCounted
    <3>3. okCount' + divergenceCount' + canaryExpected' + canaryMissed' = Len(reported) + 1
      BY <2>13, <2>14, <2>15, <3>1, <3>2
    <3>4. QED  BY <2>9, <3>3 DEF EveryReportCounted
  <2>17. canaryMissed' > 0 <=> \E n \in DOMAIN reported' : Missed(reported'[n])
    BY <2>10, <2>13, <2>14 DEF CountInv, TypeInv, TypeOK
  <2>18. divergenceCount' > 0 <=> \E n \in DOMAIN reported' : Diverged(reported'[n])
    BY <2>11, <2>13, <2>14 DEF CountInv, TypeInv, TypeOK
  <2>19. QED  BY <2>9, <2>12, <2>16, <2>17, <2>18 DEF CountInv, Missed, Diverged
<1>11. QED
  BY <1>2, <1>3, <1>4, <1>5, <1>6, <1>7, <1>8, <1>9, <1>10 DEF Next

\* The counters always agree with the reports.
LEMMA CountInvariant == Spec => []CountInv
<1>1. Init => CountInv
  BY DEF Init, CountInv, EveryReportCounted
<1>2. QED  BY <1>1, CountStep, TypeInvariant, PTL DEF Spec

\* Whatever stores fail and whatever the executor returns, each reported block is counted
\* in exactly one of the four counters.
THEOREM ReportsCounted == Spec => []EveryReportCounted
<1>1. CountInv => EveryReportCounted  BY DEF CountInv
<1>2. QED  BY <1>1, CountInvariant, PTL

\* The exit code of RunHarness says exactly what the reported blocks say.
THEOREM ExitIsTruthful == Spec => []ExitReflectsReports
<1>1. TypeInv /\ CountInv => ExitReflectsReports
  BY HarnessAssumption DEF TypeInv, TypeOK, CountInv, ExitReflectsReports, ExitCode
<1>2. QED  BY <1>1, TypeInvariant, CountInvariant, PTL

-------------------------------------------------------------------------------
(* Resources.                                                                *)

\* The executor's phase follows the loop, and exactly the stores behind it are closed.
ReleaseInv ==
  /\ \A n \in DOMAIN stores : closes[n] = IF n < cur THEN 1 ELSE 0
  /\ pc = "iter" => ephase = "open"
  /\ pc = "block" => ephase = "running"
  /\ pc \in {"store", "done"} => ephase = "closed"

\* One step closes what it leaves behind and nothing else.
LEMMA ReleaseStep == TypeInv /\ ReleaseInv /\ [Next]_vars => ReleaseInv'
<1> SUFFICES ASSUME TypeInv, ReleaseInv, [Next]_vars PROVE ReleaseInv'  OBVIOUS
<1>0. /\ Len(stores) \in Nat /\ DOMAIN stores = 1 .. Len(stores)
      /\ cur \in Nat /\ closes \in [DOMAIN stores -> Nat]
  BY StoreTyped DEF TypeInv, TypeOK
<1>1. ASSUME cur \in DOMAIN stores, closes' = [closes EXCEPT ![cur] = @ + 1], cur' = cur + 1,
             stores' = stores
      PROVE  \A n \in DOMAIN stores' : closes'[n] = IF n < cur' THEN 1 ELSE 0
  BY <1>0, <1>1 DEF ReleaseInv
<1>2. ASSUME SkipStore, pc = "store", cur <= Len(stores) PROVE ReleaseInv'
  <2>1. cur \in DOMAIN stores  BY <1>0, <1>2 DEF TypeInv, TypeOK
  <2>2. QED  BY <1>1, <1>2, <2>1 DEF SkipStore, ReleaseInv
<1>3. CASE Unsupported  BY <1>2, <1>3 DEF Unsupported
<1>4. CASE InitFails  BY <1>2, <1>4 DEF InitFails
<1>5. CASE InitStore  BY <1>5 DEF InitStore, ReleaseInv
<1>6. CASE CallRunBlock  BY <1>6 DEF CallRunBlock, ReleaseInv
<1>7. CASE RunBlockFails  BY <1>7 DEF RunBlockFails, ReleaseInv
<1>8. CASE \E r \in Results : ResultReturned(r)  BY <1>8 DEF ResultReturned, ReleaseInv
<1>9. CASE CloseStore
  <2>1. cur \in DOMAIN stores  BY <1>9 DEF CloseStore, TypeInv, InStore
  <2>2. QED  BY <1>1, <1>9, <2>1 DEF CloseStore, ReleaseInv
<1>10. CASE Finish  BY <1>10 DEF Finish, ReleaseInv
<1>11. CASE Done \/ UNCHANGED vars  BY <1>11 DEF Done, vars, ReleaseInv
<1>12. QED
  BY <1>3, <1>4, <1>5, <1>6, <1>7, <1>8, <1>9, <1>10, <1>11 DEF Next

\* The loop always holds exactly the current store and the executor it opened.
LEMMA ReleaseInvariant == Spec => []ReleaseInv
<1>1. Init => ReleaseInv
  <2> SUFFICES ASSUME Init PROVE ReleaseInv  OBVIOUS
  <2>1. DOMAIN stores = 1 .. Len(stores)  BY StoreTyped DEF Init, StoresOK
  <2>2. QED  BY <2>1 DEF Init, ReleaseInv
<1>2. QED  BY <1>1, ReleaseStep, TypeInvariant, PTL DEF Spec

\* No path through the loop leaves a store open or closes it twice, and the executor is
\* never left open between stores.
THEOREM NothingLeaks == Spec => []ResourcesReleased
<1>1. TypeInv /\ ReleaseInv => ResourcesReleased
  BY DEF TypeInv, TypeOK, ReleaseInv, ResourcesReleased
<1>2. QED  BY <1>1, TypeInvariant, ReleaseInvariant, PTL

-------------------------------------------------------------------------------
(* Sums.                                                                     *)

\* f is the function of the partial sums of c.
PartialSums(c, n, f) == f = [k \in 0 .. n |-> IF k = 0 THEN 0 ELSE f[k - 1] + c[k]]

\* There is such a function.
LEMMA PartialSumsExist ==
  ASSUME NEW c, NEW n \in Nat
  PROVE  \E f : PartialSums(c, n, f)
<1> DEFINE next(f, i) == IF i = 0 THEN 0 ELSE f[i - 1] + c[i]
           Upto(k, f) == f = [i \in 0 .. k |-> f[i]] /\ \A i \in 0 .. k : f[i] = next(f, i)
           I == {k \in Nat : \E f : Upto(k, f)}
<1>1. 0 \in I
  <2>1. Upto(0, [i \in 0 .. 0 |-> 0])  OBVIOUS
  <2>2. QED  BY <2>1
<1>2. ASSUME NEW k \in Nat, k \in I PROVE k + 1 \in I
  <2>1. PICK f : Upto(k, f)  BY <1>2
  <2> DEFINE g == [i \in 0 .. k + 1 |-> IF i <= k THEN f[i] ELSE next(f, i)]
  <2>2. \A i \in 0 .. k + 1 : g[i] = next(g, i)
    <3> SUFFICES ASSUME NEW i \in 0 .. k + 1 PROVE g[i] = next(g, i)  OBVIOUS
    <3>1. i # 0 => i - 1 \in 0 .. k /\ g[i - 1] = f[i - 1]  OBVIOUS
    <3>2. i <= k => i \in 0 .. k  OBVIOUS
    <3>3. i <= k => f[i] = next(f, i)  BY <2>1, <3>2
    <3>4. g[i] = next(f, i)  BY <3>3
    <3>5. QED  BY <3>1, <3>4
  <2>3. Upto(k + 1, g)
    <3>1. g = [i \in 0 .. k + 1 |-> g[i]]  OBVIOUS
    <3> HIDE DEF g, next
    <3> QED  BY <2>2, <3>1
  <2>4. k + 1 \in Nat  OBVIOUS
  <2> HIDE DEF g, Upto
  <2>5. QED  BY <2>3, <2>4
<1>3. \A k \in Nat : k \in I
  <2> HIDE DEF I
  <2> QED  BY <1>1, <1>2, SetInduction
<1>4. PICK f : Upto(n, f)
  <2> HIDE DEF Upto
  <2> QED  BY <1>3
<1>5. f = [i \in 0 .. n |-> next(f, i)]
  <2> HIDE DEF next
  <2>1. QED  BY <1>4
<1>6. QED  BY <1>5 DEF PartialSums

\* SumUpTo is the last of the partial sums.
LEMMA SumByPartialSums ==
  ASSUME NEW c, NEW n \in Nat
  PROVE  \E f : PartialSums(c, n, f) /\ SumUpTo(c, n) = f[n]
<1> DEFINE f == CHOOSE g : PartialSums(c, n, g)
<1>1. PartialSums(c, n, f)  BY PartialSumsExist
<1>2. SumUpTo(c, n) = f[n]  BY DEF SumUpTo, PartialSums
<1>3. QED  BY <1>1, <1>2

\* Two sums agree as far as their summands do.
LEMMA PartialSumsAgree ==
  ASSUME NEW c, NEW d, NEW n \in Nat, NEW m \in Nat, NEW f, NEW g,
         PartialSums(c, n, f), PartialSums(d, m, g),
         NEW j \in Nat, j <= n, j <= m, \A i \in 1 .. j : c[i] = d[i]
  PROVE  f[j] = g[j]
<1> DEFINE I == {k \in Nat : k <= j => f[k] = g[k]}
<1>0. /\ \A k \in 0 .. n : f[k] = IF k = 0 THEN 0 ELSE f[k - 1] + c[k]
      /\ \A k \in 0 .. m : g[k] = IF k = 0 THEN 0 ELSE g[k - 1] + d[k]
  BY DEF PartialSums
<1>1. 0 \in I  BY <1>0
<1>2. ASSUME NEW k \in Nat, k \in I PROVE k + 1 \in I
  <2> SUFFICES ASSUME k + 1 <= j PROVE f[k + 1] = g[k + 1]  OBVIOUS
  <2>1. f[k] = g[k]  BY <1>2
  <2>2. k + 1 \in 0 .. n /\ k + 1 \in 0 .. m /\ k + 1 \in 1 .. j /\ k + 1 # 0 /\ (k + 1) - 1 = k
    OBVIOUS
  <2>3. QED  BY <1>0, <2>1, <2>2
<1>3. \A k \in Nat : k \in I
  <2> HIDE DEF I
  <2> QED  BY <1>1, <1>2, SetInduction
<1>4. QED  BY <1>3

\* What SumUpTo computes, one summand at a time.
LEMMA SumStep ==
  ASSUME NEW c, NEW n \in Nat
  PROVE  SumUpTo(c, 0) = 0 /\ SumUpTo(c, n + 1) = SumUpTo(c, n) + c[n + 1]
<1>1. SumUpTo(c, 0) = 0
  <2>1. PICK f : PartialSums(c, 0, f) /\ SumUpTo(c, 0) = f[0]  BY SumByPartialSums
  <2>2. QED  BY <2>1 DEF PartialSums
<1>2. PICK f : PartialSums(c, n, f) /\ SumUpTo(c, n) = f[n]  BY SumByPartialSums
<1>3. PICK g : PartialSums(c, n + 1, g) /\ SumUpTo(c, n + 1) = g[n + 1]  BY SumByPartialSums
<1>4. f[n] = g[n]
  <2>1. n + 1 \in Nat /\ n <= n /\ n <= n + 1 /\ \A i \in 1 .. n : c[i] = c[i]  OBVIOUS
  <2>2. PartialSums(c, n, f) /\ PartialSums(c, n + 1, g)  BY <1>2, <1>3
  <2>3. ASSUME NEW d, \A i \in 1 .. n : c[i] = d[i], NEW m \in Nat, n <= m, PartialSums(d, m, g)
        PROVE  f[n] = g[n]
    BY <2>1, <2>2, <2>3, PartialSumsAgree, SMTT(60)
  <2>4. QED  BY <2>1, <2>2, <2>3
<1>5. g[n + 1] = g[n] + c[n + 1]
  <2>1. n + 1 \in 0 .. n + 1 /\ n + 1 # 0 /\ (n + 1) - 1 = n  OBVIOUS
  <2>2. QED  BY <1>3, <2>1 DEF PartialSums
<1>6. QED  BY <1>1, <1>2, <1>3, <1>4, <1>5

\* A sum depends on its summands only.
LEMMA SumAgrees ==
  ASSUME NEW c, NEW d, NEW n \in Nat, \A i \in 1 .. n : c[i] = d[i]
  PROVE  SumUpTo(c, n) = SumUpTo(d, n)
<1>1. PICK f : PartialSums(c, n, f) /\ SumUpTo(c, n) = f[n]  BY SumByPartialSums
<1>2. PICK g : PartialSums(d, n, g) /\ SumUpTo(d, n) = g[n]  BY SumByPartialSums
<1>3. QED  BY <1>1, <1>2, PartialSumsAgree

\* Sums of natural numbers are natural numbers and grow.
LEMMA SumMonotone ==
  ASSUME NEW c, NEW n \in Nat, \A i \in 1 .. n : c[i] \in Nat
  PROVE  /\ \A k \in 0 .. n : SumUpTo(c, k) \in Nat
         /\ \A k \in 0 .. n : \A j \in 0 .. k : SumUpTo(c, j) <= SumUpTo(c, k)
<1> DEFINE Grows(k) == /\ SumUpTo(c, k) \in Nat
                       /\ \A j \in 0 .. k : SumUpTo(c, j) \in Nat /\ SumUpTo(c, j) <= SumUpTo(c, k)
           I == {k \in Nat : k <= n => Grows(k)}
<1>1. 0 \in I
  <2>1. SumUpTo(c, 0) = 0  BY SumStep
  <2>2. 0 .. 0 = {0}  OBVIOUS
  <2>3. QED  BY <2>1, <2>2
<1>2. ASSUME NEW k \in Nat, k \in I PROVE k + 1 \in I
  <2>0. SUFFICES ASSUME k + 1 <= n PROVE Grows(k + 1)
    <3> HIDE DEF Grows
    <3> QED  OBVIOUS
  <2>1. Grows(k)  BY <1>2, <2>0
  <2>2. SumUpTo(c, k + 1) = SumUpTo(c, k) + c[k + 1]  BY SumStep
  <2>3. c[k + 1] \in Nat  BY <2>0
  <2>4. SumUpTo(c, k + 1) \in Nat /\ SumUpTo(c, k) <= SumUpTo(c, k + 1)  BY <2>1, <2>2, <2>3
  <2>5. \A j \in 0 .. k : SumUpTo(c, j) \in Nat /\ SumUpTo(c, j) <= SumUpTo(c, k + 1)
    BY <2>1, <2>4
  <2>6. 0 .. k + 1 = (0 .. k) \cup {k + 1}  OBVIOUS
  <2>7. QED  BY <2>4, <2>5, <2>6
<1>3. \A k \in Nat : k \in I
  <2> HIDE DEF I
  <2> QED  BY <1>1, <1>2, SetInduction
<1>4. QED  BY <1>3

-------------------------------------------------------------------------------
(* What the loop knows of the store it iterates over.                        *)

\* Every block that was fetched is a block of the store; the heights are those of the state
\* and of the blocks fetched, the outcomes those of the calls that returned.
LoopInv ==
  pc \in {"iter", "block"} =>
    /\ pos \in 0 .. Len(store.items) /\ localHeight = pos
    /\ pc = "block" => pos > 0
    /\ \A n \in 1 .. pos : store.items[n].kind = "block"
    /\ heights \in Seq(Int) /\ Len(heights) = pos + 1 /\ heights[1] = StateHeight(store)
    /\ \A n \in 1 .. pos : heights[n + 1] = HeightIn(store, n)
    /\ Len(outcomes) = IF pc = "iter" THEN pos ELSE pos - 1

ItemSpecs == [kind : {"block", "error"}, height : Nat, keys : Seq(STRING)]

\* The current store is a well-formed sequence of items.
LEMMA CurrentStore ==
  ASSUME TypeInv, pc \in {"iter", "block"}
  PROVE  /\ cur \in DOMAIN stores /\ cur \in Nat /\ store.count \in Nat /\ store.snapshot \in BOOLEAN
         /\ Len(store.items) \in Nat /\ DOMAIN store.items = 1 .. Len(store.items)
         /\ \A n \in DOMAIN store.items : /\ store.items[n].kind \in {"block", "error"}
                                         /\ store.items[n].height \in Nat
                                         /\ store.items[n].keys \in Seq(STRING)
         /\ WellFormed(store)
<1>1. cur \in DOMAIN stores /\ cur \in Nat  BY DEF TypeInv, InStore, TypeOK
<1>2. store \in StoreSpecs  BY <1>1, StoreTyped DEF TypeInv, store
<1>3. WellFormed(store)
  <2>1. stores \in Corpora  BY DEF TypeInv, StoresOK
  <2>2. QED  BY <1>1, <2>1, HarnessAssumption DEF store
<1>4. store.count \in Nat /\ store.snapshot \in BOOLEAN /\ store.items \in Seq(ItemSpecs)
  BY <1>2 DEF StoreSpecs, ItemSpecs
<1>5. /\ Len(store.items) \in Nat /\ DOMAIN store.items = 1 .. Len(store.items)
      /\ \A n \in DOMAIN store.items : store.items[n] \in ItemSpecs
  BY <1>4
<1>6. QED  BY <1>1, <1>3, <1>4, <1>5 DEF ItemSpecs

\* Heights are numbers.
LEMMA HeightsTyped ==
  ASSUME StoresOK, NEW k \in DOMAIN stores
  PROVE  /\ StateHeight(stores[k]) \in Int
         /\ \A n \in DOMAIN stores[k].items : HeightIn(stores[k], n) \in Nat
<1>1. stores[k] \in StoreSpecs  BY StoreTyped
<1>2. stores[k].items \in Seq(ItemSpecs)  BY <1>1 DEF StoreSpecs, ItemSpecs
<1>3. /\ DOMAIN stores[k].items = 1 .. Len(stores[k].items) /\ Len(stores[k].items) \in Nat
      /\ \A n \in DOMAIN stores[k].items : stores[k].items[n] \in ItemSpecs
  BY <1>2
<1>4. \A n \in DOMAIN stores[k].items : stores[k].items[n].height \in Nat  BY <1>3 DEF ItemSpecs
<1>5. stores[k].snapshot => 1 \in DOMAIN stores[k].items
  <2>1. WellFormed(stores[k])  BY HarnessAssumption DEF StoresOK
  <2>2. stores[k].snapshot => stores[k].items # <<>>  BY <2>1 DEF WellFormed
  <2>3. QED  BY <1>2, <1>3, <2>2
<1>6. QED  BY <1>3, <1>4, <1>5 DEF StateHeight, HeightIn

\* One step keeps it.
LEMMA LoopStep == TypeInv /\ LoopInv /\ [Next]_vars => LoopInv'
<1> SUFFICES ASSUME TypeInv, LoopInv, [Next]_vars PROVE LoopInv'  OBVIOUS
<1>0. outcomes \in Seq({Match, Divergence, "error"})  BY DEF TypeInv, TypeOK
<1>1. CASE pc' \notin {"iter", "block"}  BY <1>1 DEF LoopInv
<1>2. CASE InitStore
  <2>1. /\ pos' = 0 /\ localHeight' = 0 /\ heights' = <<StateHeight(store)>> /\ outcomes' = <<>>
        /\ stores' = stores /\ cur' = cur /\ pc' = "iter" /\ cur \in DOMAIN stores
    BY <1>2, StoreTyped DEF InitStore, TypeInv, TypeOK
  <2>2. store' = store /\ store \in StoreSpecs  BY <2>1, StoreTyped DEF store, TypeInv
  <2>3. Len(store.items) \in Nat  BY <2>2 DEF StoreSpecs
  <2>4. 1 .. 0 = {}  OBVIOUS
  <2>5. StateHeight(store) \in Int  BY <2>1, HeightsTyped DEF TypeInv, store
  <2> DEFINE H == StateHeight(store)
  <2>6. StateHeight(store)' = H  BY <2>2 DEF StateHeight
  <2> HIDE DEF H
  <2>7. heights' = <<H>> /\ H \in Int  BY <2>1, <2>5 DEF H
  <2>8. heights' \in Seq(Int) /\ Len(heights') = 1 /\ heights'[1] = H  BY <2>7
  <2>9. QED  BY <2>1, <2>2, <2>3, <2>4, <2>6, <2>8 DEF LoopInv
<1>3. CASE CallRunBlock
  <2>1. /\ pc = "iter" /\ pos < Len(store.items) /\ store.items[pos + 1].kind = "block"
        /\ pos' = pos + 1 /\ localHeight' = localHeight + 1 /\ pc' = "block"
        /\ heights' = Append(heights, EffectiveHeight(store.items[pos + 1], localHeight + 1))
        /\ store' = store /\ outcomes' = outcomes
    BY <1>3 DEF CallRunBlock, store
  <2>2. /\ pos \in 0 .. Len(store.items) /\ localHeight = pos /\ pos \in Nat
        /\ \A n \in 1 .. pos : store.items[n].kind = "block"
        /\ heights \in Seq(Int) /\ Len(heights) = pos + 1 /\ heights[1] = StateHeight(store)
        /\ \A n \in 1 .. pos : heights[n + 1] = HeightIn(store, n)
        /\ Len(outcomes) = pos
    BY <2>1 DEF LoopInv, TypeInv, TypeOK
  <2>3. Len(store.items) \in Nat /\ DOMAIN store.items = 1 .. Len(store.items)
    BY <2>1, CurrentStore
  <2> DEFINE h == HeightIn(store, pos + 1)  H == StateHeight(store)
  <2>4. pos + 1 \in DOMAIN store.items  BY <2>1, <2>2, <2>3
  <2>5. h \in Nat
    <3>1. cur \in DOMAIN stores  BY <2>1, CurrentStore
    <3>2. QED  BY <2>4, <3>1, HeightsTyped DEF TypeInv, store
  <2>6. heights' = Append(heights, h)  BY <2>1, <2>2 DEF EffectiveHeight, HeightIn
  <2>7. StateHeight(store)' = H  BY <2>1 DEF StateHeight
  <2>8. \A n : HeightIn(store, n)' = HeightIn(store, n)  BY <2>1 DEF HeightIn
  <2> HIDE DEF h, H
  <2>9. /\ heights' \in Seq(Int) /\ Len(heights') = pos + 2
        /\ \A n \in 1 .. pos + 1 : heights'[n] = heights[n]
        /\ heights'[pos + 2] = h
    BY <2>2, <2>5, <2>6
  <2>10. \A n \in 1 .. pos' : n \in 1 .. pos \/ n = pos + 1  BY <2>1, <2>2
  <2>11. \A n \in 1 .. pos' : heights'[n + 1] = HeightIn(store, n)
    <3> SUFFICES ASSUME NEW n \in 1 .. pos' PROVE heights'[n + 1] = HeightIn(store, n)  OBVIOUS
    <3>1. CASE n \in 1 .. pos  BY <2>2, <2>9, <3>1
    <3>2. CASE n = pos + 1  BY <2>2, <2>9, <3>2 DEF h
    <3>3. QED  BY <2>10, <3>1, <3>2
  <2>12. \A n \in 1 .. pos' : store.items[n].kind = "block"  BY <2>1, <2>2, <2>10
  <2>13. heights'[1] = H  BY <2>2, <2>9 DEF H
  <2>14. pos' \in 0 .. Len(store.items) /\ localHeight' = pos' /\ Len(heights') = pos' + 1 /\ pos' > 0
         /\ Len(outcomes') = pos' - 1
    BY <2>1, <2>2, <2>3, <2>9
  <2>15. QED  BY <2>1, <2>7, <2>8, <2>9, <2>11, <2>12, <2>13, <2>14 DEF LoopInv
<1>4. ASSUME pc = "block", pc' = "iter", UNCHANGED <<stores, cur, pos, localHeight, heights>>,
             NEW r \in {Match, Divergence, "error"}, outcomes' = Append(outcomes, r)
      PROVE  LoopInv'
  <2>1. Len(outcomes') = Len(outcomes) + 1  BY <1>0, <1>4
  <2>2. pos \in Nat /\ Len(outcomes) = pos - 1  BY <1>4 DEF LoopInv, TypeInv, TypeOK
  <2>3. Len(outcomes') = pos'  BY <1>4, <2>1, <2>2
  <2>4. store' = store  BY <1>4 DEF store
  <2>5. StateHeight(store)' = StateHeight(store) /\ \A n : HeightIn(store, n)' = HeightIn(store, n)
    BY <2>4 DEF StateHeight, HeightIn
  <2>6. QED  BY <1>4, <2>3, <2>4, <2>5 DEF LoopInv
<1>5. CASE RunBlockFails  BY <1>4, <1>5 DEF RunBlockFails
<1>6. CASE \E r \in Results : ResultReturned(r)
  <2>1. PICK r \in Results : ResultReturned(r)  BY <1>6
  <2>2. r.verdict \in {Match, Divergence, "error"}  BY HarnessAssumption
  <2>3. QED  BY <1>4, <2>1, <2>2 DEF ResultReturned
<1>7. CASE Unsupported \/ InitFails  BY <1>1, <1>7 DEF Unsupported, InitFails, SkipStore
<1>8. CASE CloseStore  BY <1>1, <1>8 DEF CloseStore
<1>9. CASE Finish  BY <1>1, <1>9 DEF Finish
<1>10. CASE Done \/ UNCHANGED vars
  BY <1>10 DEF Done, vars, LoopInv, store, StateHeight, HeightIn
<1>11. QED
  BY <1>2, <1>3, <1>5, <1>6, <1>7, <1>8, <1>9, <1>10 DEF Next

\* The loop never loses track of its store.
LEMMA LoopInvariant == Spec => []LoopInv
<1>1. Init => LoopInv  BY DEF Init, LoopInv
<1>2. QED  BY <1>1, LoopStep, TypeInvariant, PTL DEF Spec

-------------------------------------------------------------------------------
(* The executor's contract.                                                  *)

\* Each step of the loop is a step of the contract, or none.
LEMMA ContractStep ==
  TypeInv /\ ReleaseInv /\ LoopInv /\ [Next]_vars => [Exec!CNext]_(Exec!cvars)
<1> SUFFICES ASSUME TypeInv, ReleaseInv, LoopInv, [Next]_vars PROVE [Exec!CNext]_(Exec!cvars)
  OBVIOUS
<1> USE DEF Exec!CNext, Exec!cvars
<1>1. CASE Unsupported  BY <1>1 DEF Unsupported, SkipStore
<1>2. CASE InitFails  BY <1>2 DEF InitFails, SkipStore
<1>3. CASE InitStore
  <2> DEFINE H == StateHeight(store)
  <2> HIDE DEF H
  <2>1. heights' = <<H>>  BY <1>3 DEF InitStore, H
  <2>2. heights' = <<heights'[1]>>  BY <2>1
  <2>3. QED  BY <1>3, <2>2 DEF InitStore, ReleaseInv, Exec!Open
<1>4. CASE CallRunBlock
  <2> DEFINE h == EffectiveHeight(store.items[pos + 1], localHeight + 1)
  <2>1. heights' = Append(heights, h) /\ heights \in Seq(Int)
    BY <1>4 DEF CallRunBlock, LoopInv
  <2> HIDE DEF h
  <2>2. heights'[Len(heights) + 1] = h  BY <2>1
  <2>3. Exec!Ask  BY <2>1, <2>2 DEF Exec!Ask
  <2>4. QED  BY <1>4, <2>3 DEF CallRunBlock, ReleaseInv, Exec!Call
<1>5. CASE RunBlockFails  BY <1>5 DEF RunBlockFails, ReleaseInv, Exec!ReturnError
<1>6. CASE \E r \in Results : ResultReturned(r)
  <2>1. PICK r \in Results : ResultReturned(r)  BY <1>6
  <2>2. r.verdict \in {"MATCH", "DIVERGENCE"}  BY HarnessAssumption DEF Match, Divergence
  <2>3. Exec!ReturnVerdict(r.verdict)
    BY <2>1 DEF ResultReturned, ReleaseInv, Exec!ReturnVerdict
  <2>4. QED  BY <2>2, <2>3
<1>7. CASE CloseStore  BY <1>7 DEF CloseStore, ReleaseInv, Exec!Shut
<1>8. CASE Finish  BY <1>8 DEF Finish
<1>9. CASE Done \/ UNCHANGED vars  BY <1>9 DEF Done, vars
<1>10. QED
  BY <1>1, <1>2, <1>3, <1>4, <1>5, <1>6, <1>7, <1>8, <1>9 DEF Next

\* RunHarness drives any executor as its contract allows.
THEOREM ContractFollowed == Spec => FollowsContract
<1>1. Init => Exec!CInit  BY DEF Init, Exec!CInit
<1>2. QED
  BY <1>1, ContractStep, TypeInvariant, ReleaseInvariant, LoopInvariant, PTL
     DEF Spec, FollowsContract, Exec!CSpec

-------------------------------------------------------------------------------
(* Reports are chains.                                                       *)

\* The height of the last block reported of the current store, or that of its state.
Top ==
  LET L == Len(reported)
  IN  IF L > 0 /\ reported[L].store = cur THEN HeightIn(store, reported[L].item)
      ELSE StateHeight(store)

\* Reported are blocks of the stores so far, the ones of the current store in the place of
\* the heights its apps have reached.
ReportedBlocks ==
  \A n \in DOMAIN reported :
    /\ reported[n].store \in DOMAIN stores /\ reported[n].store <= cur
    /\ pc = "store" => reported[n].store < cur
    /\ reported[n].item \in DOMAIN stores[reported[n].store].items
    /\ stores[reported[n].store].items[reported[n].item].kind = "block"

ChainInv ==
  /\ ReportedBlocks
  /\ HeightsFollowCorpus
  /\ pc \in {"iter", "block"} =>
       Exec!Reached = StateHeight(store) .. Top /\ StateHeight(store) <= Top

\* What a call returns that failed adds no height, a verdict that of its call.
LEMMA ReachedAppend ==
  ASSUME TypeInv, LoopInv, pc = "block", NEW r \in {Match, Divergence, "error"},
         outcomes' = Append(outcomes, r), heights' = heights
  PROVE  Exec!Reached' = Exec!Reached \cup IF r = "error" THEN {} ELSE {HeightIn(store, pos)}
<1>1. /\ outcomes \in Seq({Match, Divergence, "error"}) /\ pos \in Nat /\ Len(outcomes) = pos - 1
      /\ pos > 0 /\ heights[pos + 1] = HeightIn(store, pos)
  BY DEF TypeInv, TypeOK, LoopInv
<1>2. /\ DOMAIN outcomes = 1 .. pos - 1 /\ DOMAIN outcomes' = 1 .. pos /\ outcomes'[pos] = r
      /\ \A n \in 1 .. pos - 1 : outcomes'[n] = outcomes[n]
  BY <1>1
<1> DEFINE A == {m \in DOMAIN outcomes : outcomes[m] # "error"}
           B == {m \in DOMAIN outcomes' : outcomes'[m] # "error"}
<1>3. B = A \cup IF r = "error" THEN {} ELSE {pos}  BY <1>1, <1>2
<1>4. Exec!Reached = {heights[1]} \cup {heights[n + 1] : n \in A}  BY DEF Exec!Reached
<1>5. Exec!Reached' = {heights[1]} \cup {heights[n + 1] : n \in B}  BY DEF Exec!Reached
<1> HIDE DEF A, B
<1>6. QED  BY <1>1, <1>3, <1>4, <1>5

\* One step extends the chain or leaves it alone.
LEMMA ChainStep == TypeInv /\ CountInv /\ LoopInv /\ ChainInv /\ [Next]_vars => ChainInv'
<1> SUFFICES ASSUME TypeInv, CountInv, LoopInv, ChainInv, [Next]_vars PROVE ChainInv'  OBVIOUS
<1>0. /\ cur \in Nat /\ \A n \in DOMAIN reported : reported[n].store \in Nat
      /\ Len(reported) \in Nat /\ DOMAIN reported = 1 .. Len(reported)
  <2>1. reported \in Seq(OutcomeRecords)  BY DEF CountInv
  <2>2. \A o \in OutcomeRecords : o.store \in Nat  BY DEF OutcomeRecords
  <2>3. QED  BY <2>1, <2>2 DEF TypeInv, TypeOK
<1>1. ASSUME UNCHANGED <<reported, stores>> PROVE HeightsFollowCorpus'
  BY <1>1 DEF ChainInv, HeightsFollowCorpus, HeightIn, StateHeight
<1>2. ASSUME UNCHANGED <<reported, stores>>, pc' \notin {"iter", "block"},
             cur' = cur + 1 \/ (cur' = cur /\ pc' # "store")
      PROVE  ChainInv'
  BY <1>0, <1>1, <1>2 DEF ChainInv, ReportedBlocks
<1>3. ASSUME UNCHANGED <<reported, stores, cur>>, pc \in {"iter", "block"}, pc' \in {"iter", "block"},
             Exec!Reached' = Exec!Reached
      PROVE  ChainInv'
  BY <1>1, <1>3 DEF ChainInv, ReportedBlocks, Top, store, HeightIn, StateHeight
<1>4. CASE Unsupported  BY <1>2, <1>4 DEF Unsupported, SkipStore, counters
<1>5. CASE InitFails  BY <1>2, <1>5 DEF InitFails, SkipStore, counters
<1>6. CASE CloseStore  BY <1>2, <1>6 DEF CloseStore, counters
<1>7. CASE Finish  BY <1>2, <1>7 DEF Finish, counters
<1>8. CASE InitStore
  <2> DEFINE H == StateHeight(store)
  <2>1. /\ UNCHANGED <<reported, stores, cur>> /\ pc = "store" /\ pc' = "iter"
        /\ heights' = <<H>> /\ outcomes' = <<>>
    BY <1>8 DEF InitStore, counters
  <2>2. cur \in DOMAIN stores  BY <1>8, StoreTyped DEF InitStore, TypeInv, TypeOK
  <2>3. H \in Int  BY <2>2, HeightsTyped DEF TypeInv, store
  <2>4. StateHeight(store)' = H  BY <2>1 DEF StateHeight, store
  <2>5. Top' = H
    <3>1. \A n \in DOMAIN reported : reported[n].store # cur
      BY <1>0, <2>1 DEF ChainInv, ReportedBlocks
    <3>2. Len(reported) > 0 => reported[Len(reported)].store # cur  BY <1>0, <3>1
    <3>3. QED  BY <2>1, <2>4, <3>2 DEF Top
  <2> HIDE DEF H
  <2>6. Exec!Reached' = {H}
    <3>1. DOMAIN outcomes' = {} /\ heights'[1] = H  BY <2>1
    <3>2. QED  BY <3>1 DEF Exec!Reached
  <2>7. H .. H = {H} /\ H <= H  BY <2>3
  <2>8. ReportedBlocks'  BY <2>1 DEF ChainInv, ReportedBlocks
  <2>9. QED  BY <1>1, <2>1, <2>4, <2>5, <2>6, <2>7, <2>8 DEF ChainInv
<1>9. CASE CallRunBlock
  <2>1. /\ UNCHANGED <<reported, stores, cur, outcomes>> /\ pc = "iter" /\ pc' = "block"
        /\ heights' = Append(heights, EffectiveHeight(store.items[pos + 1], localHeight + 1))
    BY <1>9 DEF CallRunBlock, counters
  <2>2. /\ outcomes \in Seq({Match, Divergence, "error"}) /\ pos \in Nat /\ Len(outcomes) = pos
        /\ heights \in Seq(Int) /\ Len(heights) = pos + 1
    BY <2>1 DEF TypeInv, TypeOK, LoopInv
  <2>3. \A n \in 1 .. pos + 1 : heights'[n] = heights[n]
    <3> DEFINE h == EffectiveHeight(store.items[pos + 1], localHeight + 1)
    <3> HIDE DEF h
    <3>1. heights' = Append(heights, h)  BY <2>1 DEF h
    <3>2. QED  BY <2>2, <3>1
  <2>4. \A n \in DOMAIN outcomes : heights'[n + 1] = heights[n + 1]  BY <2>2, <2>3
  <2>5. heights'[1] = heights[1]  BY <2>2, <2>3
  <2>6. Exec!Reached' = Exec!Reached  BY <2>1, <2>4, <2>5 DEF Exec!Reached
  <2>7. QED  BY <1>3, <2>1, <2>6
<1>10. CASE RunBlockFails
  <2>1. /\ UNCHANGED <<reported, stores, cur, heights>> /\ pc = "block" /\ pc' = "iter"
        /\ outcomes' = Append(outcomes, "error")
    BY <1>10 DEF RunBlockFails, counters
  <2>2. Exec!Reached' = Exec!Reached  BY <2>1, ReachedAppend
  <2>3. QED  BY <1>3, <2>1, <2>2
<1>11. CASE \E r \in Results : ResultReturned(r)
  <2>1. PICK r \in Results : ResultReturned(r)  BY <1>11
  <2>2. PICK o : /\ reported' = Append(reported, o) /\ o.store = cur /\ o.item = pos
    BY <2>1, SMTT(60) DEF ResultReturned
  <2>3. /\ UNCHANGED <<stores, cur, pos, heights>> /\ pc = "block" /\ pc' = "iter"
        /\ outcomes' = Append(outcomes, r.verdict) /\ Exec!Accepts
    BY <2>1 DEF ResultReturned
  <2>4. r.verdict \in {Match, Divergence} /\ r.verdict # "error"
    BY HarnessAssumption DEF Match, Divergence
  <2> DEFINE L == Len(reported) + 1  H == StateHeight(store)  h == HeightIn(store, pos)
  <2>5. reported \in Seq(OutcomeRecords) /\ reported' \in Seq(OutcomeRecords)
    BY CountStep DEF CountInv
  <2>6. /\ DOMAIN reported' = 1 .. L /\ Len(reported') = L /\ L \in Nat /\ L > 0
        /\ \A n \in DOMAIN reported : reported'[n] = reported[n] /\ n < L
        /\ \A n \in 1 .. L : n \in DOMAIN reported \/ n = L
        /\ reported'[L] = o
    BY <1>0, <2>2, <2>5
  <2>7. /\ cur \in DOMAIN stores /\ pos \in DOMAIN store.items /\ store.items[pos].kind = "block"
        /\ heights[Len(heights)] = h
    <3>1. /\ cur \in DOMAIN stores /\ Len(store.items) \in Nat
          /\ DOMAIN store.items = 1 .. Len(store.items)
      BY <2>3, CurrentStore
    <3>2. /\ pos \in 1 .. Len(store.items) /\ pos \in 1 .. pos /\ Len(heights) = pos + 1
          /\ store.items[pos].kind = "block" /\ heights[pos + 1] = h
      BY <2>3, <3>1, SMTT(30) DEF LoopInv
    <3>3. QED  BY <3>1, <3>2
  <2>8. H \in Int /\ h \in Nat  BY <2>7, HeightsTyped DEF TypeInv, store
  <2>9. Top \in Int /\ (Len(reported) > 0 /\ reported[Len(reported)].store = cur =>
                          Top = HeightIn(stores[cur], reported[Len(reported)].item))
    <3>1. CASE Len(reported) > 0 /\ reported[Len(reported)].store = cur
      <4>1. Len(reported) \in DOMAIN reported  BY <1>0, <3>1
      <4>2. reported[Len(reported)].item \in DOMAIN store.items
        BY <3>1, <4>1 DEF ChainInv, ReportedBlocks, store
      <4>3. HeightIn(store, reported[Len(reported)].item) \in Nat
        BY <2>7, <4>2, HeightsTyped DEF TypeInv, store
      <4>4. QED  BY <3>1, <4>3 DEF Top, store
    <3>2. CASE ~(Len(reported) > 0 /\ reported[Len(reported)].store = cur)  BY <2>8, <3>2 DEF Top
    <3>3. QED  BY <3>1, <3>2
  <2>10. Exec!Reached = H .. Top /\ H <= Top  BY <2>3 DEF ChainInv
  <2>11. h = Top + 1
    <3>1. h - 1 \in Exec!Reached /\ h \notin Exec!Reached  BY <2>3, <2>7 DEF Exec!Accepts
    <3> HIDE DEF h, H
    <3>2. QED  BY <2>8, <2>9, <2>10, <3>1
  <2>12. Exec!Reached' = Exec!Reached \cup {h}  BY <2>3, <2>4, ReachedAppend
  <2>13. Top' = h /\ StateHeight(store)' = H
    BY <2>2, <2>3, <2>6 DEF Top, store, HeightIn, StateHeight
  <2>14. ReportedBlocks'
    <3> SUFFICES ASSUME NEW n \in DOMAIN reported'
                 PROVE  /\ reported'[n].store \in DOMAIN stores /\ reported'[n].store <= cur
                        /\ reported'[n].item \in DOMAIN stores[reported'[n].store].items
                        /\ stores[reported'[n].store].items[reported'[n].item].kind = "block"
      BY <2>3 DEF ReportedBlocks
    <3>1. CASE n \in DOMAIN reported  BY <2>6, <3>1 DEF ChainInv, ReportedBlocks
    <3>2. CASE n = L  BY <1>0, <2>2, <2>6, <2>7, <3>2 DEF store
    <3>3. QED  BY <2>6, <3>1, <3>2
  <2>15. HeightsFollowCorpus'
    <3> SUFFICES ASSUME NEW n \in DOMAIN reported'
                 PROVE  LET p == reported'[n]
                            s == stores[p.store]
                        IN  IF n > 1 /\ reported'[n - 1].store = p.store
                              THEN HeightIn(s, p.item) = HeightIn(s, reported'[n - 1].item) + 1
                              ELSE HeightIn(s, p.item) = StateHeight(s) + 1
      BY <2>3 DEF HeightsFollowCorpus, HeightIn, StateHeight
    <3>1. CASE n \in DOMAIN reported
      <4>1. reported'[n] = reported[n] /\ (n > 1 => reported'[n - 1] = reported[n - 1])
        BY <1>0, <2>6, <3>1
      <4>2. LET p == reported[n]
                s == stores[p.store]
            IN  IF n > 1 /\ reported[n - 1].store = p.store
                  THEN HeightIn(s, p.item) = HeightIn(s, reported[n - 1].item) + 1
                  ELSE HeightIn(s, p.item) = StateHeight(s) + 1
        BY <3>1 DEF ChainInv, HeightsFollowCorpus
      <4>3. QED  BY <4>1, <4>2
    <3>2. CASE n = L
      <4>1. reported'[n] = o /\ o.store = cur /\ o.item = pos  BY <2>2, <2>6, <3>2
      <4>2. n > 1 => n - 1 = Len(reported) /\ Len(reported) > 0 /\ reported'[n - 1] = reported[n - 1]
        BY <1>0, <2>6, <3>2
      <4>3. n <= 1 => Len(reported) = 0  BY <1>0, <2>6, <3>2
      <4>4. HeightIn(stores[cur], pos) = Top + 1  BY <2>11 DEF store
      <4>5. CASE n > 1 /\ reported'[n - 1].store = cur
        <5>1. Top = HeightIn(stores[cur], reported'[n - 1].item)  BY <2>9, <4>2, <4>5
        <5>2. QED  BY <4>1, <4>4, <4>5, <5>1
      <4>6. CASE ~(n > 1 /\ reported'[n - 1].store = cur)
        <5>1. ~(Len(reported) > 0 /\ reported[Len(reported)].store = cur)
          BY <1>0, <2>6, <3>2, <4>2, <4>3, <4>6
        <5>2. Top = StateHeight(stores[cur])  BY <5>1 DEF Top, store
        <5>3. QED  BY <4>1, <4>4, <4>6, <5>2
      <4>7. QED  BY <4>5, <4>6
    <3>3. QED  BY <2>6, <3>1, <3>2
  <2>16. (H .. Top) \cup {h} = H .. h /\ H <= h
    <3> HIDE DEF h, H
    <3>1. QED  BY <2>8, <2>9, <2>10, <2>11
  <2>17. QED  BY <2>10, <2>12, <2>13, <2>14, <2>15, <2>16 DEF ChainInv
<1>12. CASE Done \/ UNCHANGED vars
  <2>1. UNCHANGED vars  BY <1>12 DEF Done
  <2>2. Exec!Reached' = Exec!Reached  BY <2>1 DEF vars, Exec!Reached
  <2>3. QED
    BY <1>1, <2>1, <2>2 DEF vars, counters, ChainInv, ReportedBlocks, Top, store, HeightIn, StateHeight
<1>13. QED
  BY <1>4, <1>5, <1>6, <1>7, <1>8, <1>9, <1>10, <1>11, <1>12 DEF Next

\* The blocks reported of a store are the heights its apps have reached.
LEMMA ChainInvariant == Spec => []ChainInv
<1>1. Init => ChainInv  BY DEF Init, ChainInv, ReportedBlocks, HeightsFollowCorpus
<1>2. QED
  BY <1>1, ChainStep, TypeInvariant, CountInvariant, LoopInvariant, PTL DEF Spec

\* Whatever own heights the blocks of a fixture have and whatever calls fail, the blocks
\* reported of a store have consecutive heights, from the one after its state.
THEOREM HeightsAreConsecutive == Spec => []HeightsFollowCorpus
<1>1. ChainInv => HeightsFollowCorpus  BY DEF ChainInv
<1>2. QED  BY <1>1, ChainInvariant, PTL

\* With an executor that keeps its contract, what is reported of a store whose heights
\* follow one another is an initial segment of its blocks.
THEOREM ReportsArePrefixes == Spec => []ReportedPrefix
<1>1. TypeInv /\ CountInv /\ ChainInv => ReportedPrefix
  <2> SUFFICES ASSUME TypeInv, CountInv, ChainInv, NEW n \in DOMAIN reported,
                      Regular(stores[reported[n].store]), reported[n].item > 1
               PROVE  /\ n > 1 /\ reported[n - 1].store = reported[n].store
                      /\ reported[n - 1].item = reported[n].item - 1
    BY DEF ReportedPrefix
  <2> DEFINE k == reported[n].store  s == stores[k]  i == reported[n].item  H == StateHeight(s)
  <2>1. reported \in Seq(OutcomeRecords)  BY DEF CountInv
  <2>2. /\ \A m \in DOMAIN reported : reported[m].item \in Nat
        /\ n \in Nat /\ (n > 1 => n - 1 \in DOMAIN reported)
    <3>1. \A o \in OutcomeRecords : o.item \in Nat  BY DEF OutcomeRecords
    <3>2. QED  BY <2>1, <3>1
  <2>3. /\ k \in DOMAIN stores
        /\ i \in DOMAIN s.items /\ s.items[i].kind = "block"
    BY DEF ChainInv, ReportedBlocks
  <2>4. H \in Int  BY <2>3, HeightsTyped DEF TypeInv
  <2>5. HeightIn(s, i) = H + i  BY <2>3 DEF Regular
  <2>6. IF n > 1 /\ reported[n - 1].store = k
          THEN HeightIn(s, i) = HeightIn(s, reported[n - 1].item) + 1
          ELSE HeightIn(s, i) = H + 1
    BY DEF ChainInv, HeightsFollowCorpus
  <2>7. n > 1 /\ reported[n - 1].store = k
    <3> HIDE DEF k, s, H
    <3>1. QED  BY <2>2, <2>4, <2>5, <2>6
  <2>8. HeightIn(s, reported[n - 1].item) = H + reported[n - 1].item
    BY <2>2, <2>7 DEF ChainInv, ReportedBlocks, Regular
  <2>9. reported[n - 1].item = i - 1
    <3>1. reported[n - 1].item \in Nat /\ i \in Nat  BY <2>2, <2>7
    <3> HIDE DEF k, s, H, i
    <3>2. QED  BY <2>4, <2>5, <2>6, <2>7, <2>8, <3>1
  <2>10. QED  BY <2>7, <2>9
<1>2. QED  BY <1>1, TypeInvariant, CountInvariant, ChainInvariant, PTL

-------------------------------------------------------------------------------
(* The corpora keep the promise that RunHarness relies on.                   *)
\* FixtureCorpus keeps the promise that RunHarness relies on.
LEMMA FixtureWellFormed ==
  ASSUME NEW canary, NEW S, NEW blocks \in Seq(S)
  PROVE  WellFormed(FixtureCorpus(canary, blocks))
BY DEF WellFormed, FixtureCorpus, Block

\* FuzzCorpus does, with or without a key to sample from.
LEMMA FuzzWellFormed ==
  ASSUME NEW weights, NEW registry, NEW S, NEW draws \in Seq(S)
  PROVE  WellFormed(FuzzCorpus(weights, registry, draws))
<1> DEFINE keys == WeightedKeys(weights, registry)
<1> HIDE DEF keys
<1> QED  BY DEF WellFormed, FuzzCorpus, Block, keys

\* SnapshotCorpus does for every range that validation lets through, whatever heights are
\* missing.
LEMMA SnapshotWellFormed ==
  ASSUME NEW start \in Nat, NEW end \in Nat, ValidRange(start, end), NEW held, NEW keys
  PROVE  WellFormed(SnapshotCorpus(start, end, held, keys))
<1> DEFINE missing == {h \in start .. end : h \notin held}
           last == IF missing = {} THEN end ELSE Min(missing) - 1
           blocks == [n \in 1 .. last - start + 1 |-> Block(start + n - 1, keys[start + n - 1])]
           items == IF missing = {} THEN blocks ELSE Append(blocks, IterError)
           s == SnapshotCorpus(start, end, held, keys)
<1>1. /\ s.count = end - start + 1 /\ s.snapshot = TRUE /\ s.items = items
  BY DEF SnapshotCorpus
<1>2. last \in Nat /\ start - 1 <= last /\ last <= end /\ start > 0
  <2>1. start > 0 /\ end >= start  BY DEF ValidRange
  <2>2. CASE missing = {}  BY <2>1, <2>2
  <2>3. CASE missing # {}
    <3>1. \E x \in missing : \A y \in missing : x <= y
      <4>1. missing \subseteq Nat  OBVIOUS
      <4> HIDE DEF missing
      <4>2. QED  BY <2>3, <4>1, LeastNatural
    <3>2. Min(missing) \in missing
      <4> HIDE DEF missing
      <4> QED  BY <3>1 DEF Min
    <3>3. Min(missing) \in start .. end  BY <3>2
    <3>4. QED  BY <2>1, <2>3, <3>3
  <2>4. QED  BY <2>2, <2>3
<1> HIDE DEF last, missing, s
<1> DEFINE N == last - start + 1
<1>3. N \in Nat /\ N <= end - start + 1  BY <1>2
<1>4. /\ blocks = [n \in 1 .. N |-> Block(start + n - 1, keys[start + n - 1])]
      /\ DOMAIN blocks = 1 .. N
      /\ \A n \in 1 .. N : blocks[n].kind = "block" /\ blocks[n].height = start + n - 1
  BY DEF Block
<1> HIDE DEF N
<1> DEFINE T == {blocks[n] : n \in 1 .. N} \cup {IterError}
<1>5. blocks \in Seq(T) /\ Len(blocks) = N /\ IterError \in T
  <2>1. blocks \in [1 .. N -> T] /\ IterError \in T
    <3> HIDE DEF blocks
    <3> QED  BY <1>4
  <2> HIDE DEF T, blocks
  <2>2. QED  BY <1>3, <2>1
<1> HIDE DEF T
<1>6. /\ \A n \in DOMAIN items : n \in 1 .. N \/ (missing # {} /\ n = N + 1 /\ n = Len(items))
      /\ \A n \in 1 .. N : items[n] = blocks[n]
      /\ missing # {} => items[N + 1] = IterError
  <2> HIDE DEF blocks
  <2>1. CASE missing = {}  BY <1>3, <1>4, <1>5, <2>1
  <2>2. CASE missing # {}
    <3>1. items = Append(blocks, IterError)  BY <2>2
    <3> HIDE DEF items
    <3>2. /\ Len(items) = N + 1 /\ DOMAIN items = 1 .. N + 1 /\ items[N + 1] = IterError
          /\ \A n \in 1 .. N : items[n] = blocks[n]
      BY <1>3, <1>5, <3>1
    <3>3. QED  BY <1>3, <2>2, <3>2
  <2>3. QED  BY <2>1, <2>2
<1> HIDE DEF items, blocks
<1>6a. items # <<>>
  <2>1. CASE missing = {}
    <3>1. items = blocks /\ last = end  BY <2>1 DEF items, last
    <3>2. N >= 1  BY <1>2, <3>1 DEF N, ValidRange
    <3>3. QED  BY <1>3, <1>5, <3>1, <3>2
  <2>2. CASE missing # {}
    <3>1. items[N + 1] = IterError  BY <1>6, <2>2
    <3>2. items = Append(blocks, IterError)  BY <2>2 DEF items
    <3>3. QED  BY <1>3, <1>5, <3>2
  <2>3. QED  BY <2>1, <2>2
<1>7. \A n \in 1 .. N : /\ items[n].kind = "block" /\ items[1].height = start
                        /\ items[n].height = items[1].height + n - 1
  <2> SUFFICES ASSUME NEW n \in 1 .. N
               PROVE  /\ items[n].kind = "block" /\ items[1].height = start
                      /\ items[n].height = items[1].height + n - 1
    OBVIOUS
  <2>1. 1 \in 1 .. N  BY <1>3
  <2>2. items[n].kind = "block" /\ items[n].height = start + n - 1  BY <1>4, <1>6
  <2>3. items[1].height = start + 1 - 1  BY <1>4, <1>6, <2>1
  <2>4. QED  BY <2>2, <2>3
<1>8. IterError.kind = "error"  BY DEF IterError
<1>9. ASSUME NEW n \in DOMAIN s.items, s.items[n].kind = "error" PROVE n = Len(s.items)
  <2>1. n \notin 1 .. N  BY <1>1, <1>7, <1>9
  <2>2. QED  BY <1>1, <1>6, <1>9, <2>1
<1>10. ASSUME NEW n \in DOMAIN s.items, s.items[n].kind = "block"
       PROVE  n <= s.count /\ s.items[1].height > 0 /\ s.items[n].height = s.items[1].height + n - 1
  <2>1. n \in 1 .. N  BY <1>1, <1>6, <1>8, <1>10
  <2>2. n <= s.count  BY <1>1, <1>2, <1>3, <2>1
  <2>3. items[1].height = start /\ items[n].height = items[1].height + n - 1  BY <1>7, <2>1
  <2>4. QED  BY <1>1, <1>2, <2>2, <2>3
<1>11. WellFormed(s)  BY <1>1, <1>6a, <1>9, <1>10 DEF WellFormed
<1>12. QED  BY <1>11 DEF s

-------------------------------------------------------------------------------
(* The numbering of the blocks.                                              *)

\* The announced blocks, store by store.
LEMMA BlockSums ==
  ASSUME StoresOK
  PROVE  /\ BlocksUpTo(0) = 0
         /\ \A k \in 0 .. Len(stores) : BlocksUpTo(k) \in Nat /\ BlocksUpTo(k) <= TotalBlocks
         /\ \A k \in DOMAIN stores : BlocksUpTo(k) = BlocksUpTo(k - 1) + stores[k].count
<1> DEFINE c == [n \in DOMAIN stores |-> stores[n].count]
<1>1. /\ Len(stores) \in Nat /\ DOMAIN stores = 1 .. Len(stores)
      /\ \A n \in DOMAIN stores : stores[n] \in StoreSpecs
  BY StoreTyped
<1>2. \A n \in 1 .. Len(stores) : c[n] = stores[n].count /\ c[n] \in Nat  BY <1>1 DEF StoreSpecs
<1>3. \A k : BlocksUpTo(k) = SumUpTo(c, k)  BY DEF BlocksUpTo
<1> HIDE DEF c
<1>4. /\ \A k \in 0 .. Len(stores) : SumUpTo(c, k) \in Nat
      /\ \A k \in 0 .. Len(stores) : \A j \in 0 .. k : SumUpTo(c, j) <= SumUpTo(c, k)
  BY <1>1, <1>2, SumMonotone
<1>5. BlocksUpTo(0) = 0  BY <1>3, SumStep, 0 \in Nat
<1>6. \A k \in 0 .. Len(stores) : BlocksUpTo(k) \in Nat /\ BlocksUpTo(k) <= TotalBlocks
  BY <1>1, <1>3, <1>4 DEF TotalBlocks
<1>7. ASSUME NEW k \in DOMAIN stores PROVE BlocksUpTo(k) = BlocksUpTo(k - 1) + stores[k].count
  <2>1. k - 1 \in Nat /\ (k - 1) + 1 = k  BY <1>1
  <2>2. SumUpTo(c, (k - 1) + 1) = SumUpTo(c, k - 1) + c[(k - 1) + 1]
    <3> DEFINE m == k - 1
    <3>1. m \in Nat  BY <2>1
    <3> HIDE DEF m
    <3>2. SumUpTo(c, m + 1) = SumUpTo(c, m) + c[m + 1]  BY <3>1, SumStep
    <3>3. QED  BY <3>2 DEF m
  <2>3. QED  BY <1>1, <1>2, <1>3, <2>1, <2>2
<1>8. QED  BY <1>5, <1>6, <1>7

\* The number of the block that is next in the corpus, if every store yields all it announced.
Position == BlocksUpTo(cur - 1) + IF pc \in {"iter", "block"} THEN pos ELSE 0

\* blockNum never gets ahead of the corpus and never falls behind the reports.
IndexInv ==
  /\ IndexIsPosition
  /\ \A n \in DOMAIN reported : /\ reported[n].index <= blockNum
                                /\ pc = "block" => reported[n].index < blockNum
  /\ blockNum <= Position
  /\ (\A k \in 1 .. cur - 1 : Whole(stores[k])) => blockNum = Position

\* No more blocks were fetched from the store than it announced.
LEMMA FetchedAnnounced ==
  ASSUME TypeInv, LoopInv, pc \in {"iter", "block"}
  PROVE  pos <= store.count
<1>1. /\ store.count \in Nat /\ Len(store.items) \in Nat
      /\ DOMAIN store.items = 1 .. Len(store.items) /\ WellFormed(store)
  BY CurrentStore
<1>2. pos \in 0 .. Len(store.items) /\ \A n \in 1 .. pos : store.items[n].kind = "block"
  BY DEF LoopInv
<1>3. CASE pos = 0  BY <1>1, <1>3
<1>4. CASE pos # 0
  <2>1. pos \in DOMAIN store.items /\ pos \in 1 .. pos  BY <1>1, <1>2, <1>4
  <2>2. store.items[pos].kind = "block"  BY <1>2, <2>1
  <2>3. QED  BY <1>1, <2>1, <2>2 DEF WellFormed
<1>5. QED  BY <1>3, <1>4

\* One step keeps the numbering.
LEMMA IndexStep == TypeInv /\ CountInv /\ LoopInv /\ IndexInv /\ [Next]_vars => IndexInv'
<1> SUFFICES ASSUME TypeInv, CountInv, LoopInv, IndexInv, [Next]_vars PROVE IndexInv'  OBVIOUS
<1>0. /\ Len(stores) \in Nat /\ DOMAIN stores = 1 .. Len(stores) /\ cur \in 1 .. Len(stores) + 1
      /\ pos \in Nat /\ blockNum \in Nat /\ reported \in Seq(OutcomeRecords)
      /\ \A k \in DOMAIN stores : stores[k].count \in Nat
  BY StoreTyped DEF TypeInv, TypeOK, CountInv, StoreSpecs
<1>1. /\ \A k \in 0 .. Len(stores) : BlocksUpTo(k) \in Nat /\ BlocksUpTo(k) <= TotalBlocks
      /\ \A k \in DOMAIN stores : BlocksUpTo(k) = BlocksUpTo(k - 1) + stores[k].count
  BY BlockSums DEF TypeInv
<1>2. BlocksUpTo(cur - 1) \in Nat /\ cur - 1 \in Nat  BY <1>0, <1>1
<1>3. \A n \in DOMAIN reported : reported[n].index \in Nat
  <2>1. \A n \in DOMAIN reported : reported[n] \in OutcomeRecords  BY <1>0
  <2>2. \A o \in OutcomeRecords : o.index \in Nat  BY DEF OutcomeRecords
  <2>3. QED  BY <2>1, <2>2
<1>4. ASSUME stores' = stores
      PROVE  TotalBlocks' = TotalBlocks /\ \A k : BlocksUpTo(k)' = BlocksUpTo(k)
  BY <1>4 DEF TotalBlocks, BlocksUpTo
<1>5. ASSUME stores' = stores, reported' = reported PROVE IndexIsPosition'
  <2>1. IndexIsPosition  BY DEF IndexInv
  <2>2. QED  BY <1>4, <1>5, <2>1 DEF IndexIsPosition
<1>6. ASSUME UNCHANGED <<stores, reported>>, pc' # "block", cur \in DOMAIN stores, cur' = cur + 1,
             pc' \notin {"iter", "block"}, blockNum' \in Nat, blockNum' >= blockNum,
             blockNum' <= BlocksUpTo(cur),
             (\A k \in 1 .. cur : Whole(stores[k])) => blockNum' = BlocksUpTo(cur)
      PROVE  IndexInv'
  <2>1. Position' = BlocksUpTo(cur)
    <3>1. cur' - 1 = cur  BY <1>0, <1>6
    <3>2. Position' = SumUpTo([n \in DOMAIN stores' |-> stores'[n].count], cur' - 1) + 0
      BY <1>6 DEF Position, BlocksUpTo
    <3>3. SumUpTo([n \in DOMAIN stores' |-> stores'[n].count], cur' - 1) = BlocksUpTo(cur)
      BY <1>6, <3>1 DEF BlocksUpTo
    <3>4. BlocksUpTo(cur) \in Nat  BY <1>0, <1>1, <1>6
    <3>5. QED  BY <3>2, <3>3, <3>4
  <2>2. IndexIsPosition'  BY <1>5, <1>6
  <2>3. \A n \in DOMAIN reported' : reported'[n].index <= blockNum'
    <3>1. \A n \in DOMAIN reported : reported[n].index <= blockNum  BY DEF IndexInv
    <3>2. QED  BY <1>0, <1>3, <1>6, <3>1
  <2>4. (\A k \in 1 .. cur' - 1 : Whole(stores'[k])) => blockNum' = Position'
    BY <1>0, <1>6, <2>1
  <2>5. QED  BY <1>6, <2>1, <2>2, <2>3, <2>4 DEF IndexInv
<1>7. ASSUME SkipStore, pc = "store", cur <= Len(stores) PROVE IndexInv'
  <2>1. /\ cur \in DOMAIN stores /\ UNCHANGED <<stores, reported, pc>> /\ cur' = cur + 1
        /\ blockNum' = blockNum + stores[cur].count
    BY <1>0, <1>7 DEF SkipStore, counters, store
  <2>2. Position = BlocksUpTo(cur - 1)  BY <1>2, <1>7 DEF Position
  <2>3. blockNum' \in Nat /\ blockNum' >= blockNum  BY <1>0, <2>1
  <2>4. blockNum' <= BlocksUpTo(cur)  BY <1>0, <1>1, <1>2, <2>1, <2>2, SMTT(60) DEF IndexInv
  <2>5. (\A k \in 1 .. cur : Whole(stores[k])) => blockNum' = BlocksUpTo(cur)
    <3>1. (\A k \in 1 .. cur : Whole(stores[k])) => \A k \in 1 .. cur - 1 : Whole(stores[k])  BY <1>0
    <3>2. QED  BY <1>1, <2>1, <2>2, <3>1 DEF IndexInv
  <2>6. QED  BY <1>6, <1>7, <2>1, <2>3, <2>4, <2>5
<1>8. CASE Unsupported  BY <1>7, <1>8 DEF Unsupported
<1>9. CASE InitFails  BY <1>7, <1>9 DEF InitFails
<1>10. ASSUME UNCHANGED <<stores, reported, cur, blockNum>>, Position' = Position, pc' # "block"
       PROVE  IndexInv'
  <2>1. IndexIsPosition'  BY <1>5, <1>10
  <2>2. QED  BY <1>10, <2>1 DEF IndexInv
<1>11. CASE InitStore
  <2>1. UNCHANGED <<stores, reported, cur, blockNum>> /\ pc = "store" /\ pc' = "iter" /\ pos' = 0
    BY <1>11 DEF InitStore, counters
  <2>2. Position' = Position  BY <1>2, <2>1 DEF Position, BlocksUpTo
  <2>3. QED  BY <1>10, <2>1, <2>2
<1>12. CASE RunBlockFails
  <2>1. UNCHANGED <<stores, reported, cur, blockNum, pos>> /\ pc = "block" /\ pc' = "iter"
    BY <1>12 DEF RunBlockFails, counters
  <2>2. Position' = Position  BY <1>2, <2>1 DEF Position, BlocksUpTo
  <2>3. QED  BY <1>10, <2>1, <2>2
<1>13. CASE Finish
  <2>1. UNCHANGED <<stores, reported, cur, blockNum, pos>> /\ pc = "store" /\ pc' = "done"
    BY <1>13 DEF Finish, counters
  <2>2. Position' = Position  BY <1>2, <2>1 DEF Position, BlocksUpTo
  <2>3. QED  BY <1>10, <2>1, <2>2
<1>14. CASE CallRunBlock
  <2>1. /\ UNCHANGED <<stores, reported, cur>> /\ pc = "iter" /\ pc' = "block"
        /\ pos' = pos + 1 /\ blockNum' = blockNum + 1
    BY <1>14 DEF CallRunBlock, counters
  <2>2. Position' = Position + 1 /\ Position \in Nat
    <3>1. Position = BlocksUpTo(cur - 1) + pos  BY <2>1 DEF Position
    <3>2. Position' = BlocksUpTo(cur - 1) + (pos + 1)  BY <2>1 DEF Position, BlocksUpTo
    <3>3. QED  BY <1>0, <1>2, <3>1, <3>2
  <2>3. IndexIsPosition'  BY <1>5, <2>1
  <2>4. \A n \in DOMAIN reported' : reported'[n].index < blockNum' /\ reported'[n].index <= blockNum'
    <3>1. \A n \in DOMAIN reported : reported[n].index <= blockNum  BY DEF IndexInv
    <3>2. QED  BY <1>0, <1>3, <2>1, <3>1
  <2>5. blockNum' <= Position'  BY <1>0, <2>1, <2>2 DEF IndexInv
  <2>6. QED  BY <2>1, <2>2, <2>3, <2>4, <2>5 DEF IndexInv
<1>15. CASE CloseStore
  <2>1. /\ UNCHANGED <<stores, reported, blockNum>> /\ pc = "iter" /\ pc' = "store" /\ cur' = cur + 1
        /\ pos < Len(store.items) => store.items[pos + 1].kind = "error"
    BY <1>15 DEF CloseStore, counters
  <2>2. /\ cur \in DOMAIN stores /\ store.count \in Nat /\ Len(store.items) \in Nat
        /\ DOMAIN store.items = 1 .. Len(store.items) /\ WellFormed(store)
    BY <2>1, CurrentStore
  <2>3. pos \in 0 .. Len(store.items) /\ \A n \in 1 .. pos : store.items[n].kind = "block"
    BY <2>1 DEF LoopInv
  <2>4. pos <= store.count  BY <2>1, FetchedAnnounced
  <2>5. Position = BlocksUpTo(cur - 1) + pos  BY <2>1 DEF Position
  <2>6. BlocksUpTo(cur) = BlocksUpTo(cur - 1) + store.count  BY <1>1, <2>2 DEF store
  <2>7. blockNum' <= BlocksUpTo(cur)
    BY <1>0, <1>2, <2>1, <2>2, <2>4, <2>5, <2>6, SMTT(60) DEF IndexInv
  <2>8. (\A k \in 1 .. cur : Whole(stores[k])) => blockNum' = BlocksUpTo(cur)
    <3> SUFFICES ASSUME \A k \in 1 .. cur : Whole(stores[k]) PROVE blockNum' = BlocksUpTo(cur)
      OBVIOUS
    <3>1. \A k \in 1 .. cur - 1 : Whole(stores[k])  BY <1>0
    <3>2. Whole(store)  BY <1>0 DEF store
    <3>3. ~(pos < Len(store.items))
      <4> SUFFICES ASSUME pos < Len(store.items) PROVE FALSE  OBVIOUS
      <4>1. pos + 1 \in DOMAIN store.items  BY <1>0, <2>2
      <4>2. store.items[pos + 1].kind = "block"  BY <3>2, <4>1 DEF Whole
      <4>3. QED  BY <2>1, <4>2
    <3>4. pos = store.count  BY <2>2, <2>3, <3>2, <3>3 DEF Whole
    <3>5. QED  BY <2>1, <2>5, <2>6, <3>1, <3>4 DEF IndexInv
  <2>9. blockNum' \in Nat /\ blockNum' >= blockNum  BY <1>0, <2>1
  <2>10. QED  BY <1>6, <2>1, <2>2, <2>7, <2>8, <2>9
<1>16. CASE \E r \in Results : ResultReturned(r)
  <2>1. PICK r \in Results : ResultReturned(r)  BY <1>16
  <2>2. PICK o : /\ reported' = Append(reported, o) /\ o.index = blockNum /\ o.store = cur /\ o.item = pos
    BY <2>1 DEF ResultReturned
  <2>3. UNCHANGED <<stores, cur, blockNum, pos>> /\ pc = "block" /\ pc' = "iter"
    BY <2>1 DEF ResultReturned
  <2> DEFINE L == Len(reported) + 1
  <2>4. reported' \in Seq(OutcomeRecords)  BY CountStep DEF CountInv
  <2>5. /\ DOMAIN reported' = 1 .. L /\ Len(reported) \in Nat /\ DOMAIN reported = 1 .. Len(reported)
        /\ \A n \in 1 .. Len(reported) : reported'[n] = reported[n]
        /\ reported'[L] = o
    BY <1>0, <2>2, <2>4
  <2>6. Position = BlocksUpTo(cur - 1) + pos /\ Position' = Position
    BY <2>3 DEF Position, BlocksUpTo
  <2>7. blockNum <= TotalBlocks
    <3>1. cur \in DOMAIN stores /\ store.count \in Nat  BY <2>3, CurrentStore
    <3>3. pos <= store.count  BY <2>3, FetchedAnnounced
    <3>4. BlocksUpTo(cur) = BlocksUpTo(cur - 1) + store.count  BY <1>1, <3>1 DEF store
    <3>5. BlocksUpTo(cur) \in Nat /\ BlocksUpTo(cur) <= TotalBlocks  BY <1>0, <1>1, <3>1
    <3>6. TotalBlocks \in Nat  BY <1>0, <1>1 DEF TotalBlocks
    <3>7. blockNum <= Position  BY DEF IndexInv
    <3>8. QED  BY <1>0, <1>2, <2>6, <3>1, <3>3, <3>4, <3>5, <3>6, <3>7, SMTT(60)
  <2>8. (\A k \in 1 .. cur - 1 : Whole(stores[k])) => blockNum = BlocksUpTo(cur - 1) + pos
    BY <2>6 DEF IndexInv
  <2>9. \A n \in DOMAIN reported : reported[n].index < blockNum /\ reported[n].index <= blockNum
    BY <2>3 DEF IndexInv
  <2>10. IndexIsPosition'
    <3> SUFFICES ASSUME NEW n \in DOMAIN reported'
                 PROVE  /\ reported'[n].index <= TotalBlocks
                        /\ \A m \in 1 .. n - 1 : reported'[m].index < reported'[n].index
                        /\ (\A k \in 1 .. reported'[n].store - 1 : Whole(stores[k])) =>
                             reported'[n].index = BlocksUpTo(reported'[n].store - 1) + reported'[n].item
      BY <1>4, <2>3 DEF IndexIsPosition
    <3>1. CASE n \in DOMAIN reported
      <4>1. reported'[n] = reported[n] /\ \A m \in 1 .. n - 1 : reported'[m] = reported[m]
        BY <2>5, <3>1
      <4>2. QED  BY <3>1, <4>1 DEF IndexInv, IndexIsPosition
    <3>2. CASE n = L
      <4>1. /\ reported'[n].index = blockNum /\ reported'[n].store = cur /\ reported'[n].item = pos
        BY <2>2, <2>5, <3>2
      <4>2. \A m \in 1 .. n - 1 : m \in DOMAIN reported /\ reported'[m] = reported[m]
        BY <2>5, <3>2
      <4>3. QED  BY <2>7, <2>8, <2>9, <4>1, <4>2
    <3>3. QED  BY <2>5, <3>1, <3>2
  <2>11. \A n \in DOMAIN reported' : reported'[n].index <= blockNum'
    BY <1>0, <2>2, <2>3, <2>5, <2>9
  <2>12. blockNum' <= Position' /\ ((\A k \in 1 .. cur' - 1 : Whole(stores'[k])) => blockNum' = Position')
    BY <2>3, <2>6 DEF IndexInv
  <2>13. QED  BY <2>3, <2>10, <2>11, <2>12 DEF IndexInv
<1>17. CASE Done \/ UNCHANGED vars
  <2>1. UNCHANGED <<stores, reported, cur, pc, pos, blockNum>>  BY <1>17 DEF Done, vars, counters
  <2>2. IndexIsPosition'  BY <1>5, <2>1
  <2>3. Position' = Position  BY <2>1 DEF Position, BlocksUpTo
  <2>4. QED  BY <2>1, <2>2, <2>3 DEF IndexInv
<1>18. QED
  BY <1>8, <1>9, <1>11, <1>12, <1>13, <1>14, <1>15, <1>16, <1>17 DEF Next

\* "[Index/Total]" is right whatever stores are skipped, break off or yield less than they
\* announced.
THEOREM IndexIsRight == Spec => []IndexIsPosition
<1>1. Init => IndexInv
  <2> SUFFICES ASSUME Init PROVE IndexInv  OBVIOUS
  <2>1. Position = 0
    <3>1. BlocksUpTo(0) = 0  BY BlockSums DEF Init, StoresOK
    <3>2. QED  BY <3>1 DEF Init, Position
  <2>2. QED  BY <2>1 DEF Init, IndexInv, IndexIsPosition
<1>2. IndexInv => IndexIsPosition  BY DEF IndexInv
<1>3. QED  BY <1>1, <1>2, IndexStep, TypeInvariant, CountInvariant, LoopInvariant, PTL DEF Spec

-------------------------------------------------------------------------------
(* The summary and the three reports.                                        *)

\* The outcomes each counter stands for.
OkOutcomes == {o \in OutcomeRecords : ~o.canary /\ o.verdict = Match}
DivergedOutcomes == {o \in OutcomeRecords : Diverged(o)}
CaughtOutcomes == {o \in OutcomeRecords : o.canary /\ o.verdict = Divergence}
MissedOutcomes == {o \in OutcomeRecords : Missed(o)}
HotOutcomes == {o \in OutcomeRecords : o.hotKeys # <<>>}

Among(s, T) == {n \in DOMAIN s : s[n] \in T}

\* Each counter has counted its outcomes, and maxExecRatio is the largest ratio reported.
SummaryInv ==
  /\ okCount = Cardinality(Among(reported, OkOutcomes))
  /\ divergenceCount = Cardinality(Among(reported, DivergedOutcomes))
  /\ canaryExpected = Cardinality(Among(reported, CaughtOutcomes))
  /\ canaryMissed = Cardinality(Among(reported, MissedOutcomes))
  /\ hotKeyBlocks = Cardinality(Among(reported, HotOutcomes))
  /\ \A n \in DOMAIN reported : reported[n].ratio <= maxExecRatio
  /\ maxExecRatio > 0 => \E n \in DOMAIN reported : reported[n].ratio = maxExecRatio

\* The positions with a property are finitely many.
LEMMA AmongFinite ==
  ASSUME NEW S, NEW s \in Seq(S), NEW A, A \subseteq DOMAIN s
  PROVE  IsFiniteSet(A) /\ Cardinality(A) \in Nat /\ (Cardinality(A) = 0 <=> A = {})
<1>1. Len(s) \in Nat /\ DOMAIN s = 1 .. Len(s)  OBVIOUS
<1>2. IsFiniteSet(DOMAIN s)  BY <1>1, FS_Interval, 1 \in Int, Len(s) \in Int
<1>3. IsFiniteSet(A)  BY <1>2, FS_Subset
<1>4. QED  BY <1>3, FS_CardinalityType, FS_EmptySet

\* An appended outcome counts where it belongs.
LEMMA AmongAppend ==
  ASSUME NEW S, NEW s \in Seq(S), NEW o \in S, NEW T
  PROVE  Cardinality(Among(Append(s, o), T)) = Cardinality(Among(s, T)) + IF o \in T THEN 1 ELSE 0
<1> DEFINE t == Append(s, o)
           L == Len(s) + 1
<1>1. /\ DOMAIN t = DOMAIN s \cup {L} /\ t[L] = o /\ L \notin DOMAIN s
      /\ \A n \in DOMAIN s : t[n] = s[n]
  BY AppendReport
<1> HIDE DEF t, L
<1>2. Among(t, T) = Among(s, T) \cup (IF o \in T THEN {L} ELSE {})  BY <1>1 DEF Among
<1>3. Among(s, T) \subseteq DOMAIN s  BY DEF Among
<1>4. IsFiniteSet(Among(s, T)) /\ Cardinality(Among(s, T)) \in Nat  BY <1>3, AmongFinite
<1>5. L \notin Among(s, T)  BY <1>1, <1>3
<1>6. CASE o \in T
  <2>1. Among(t, T) = Among(s, T) \cup {L}  BY <1>2, <1>6
  <2>2. Cardinality(Among(s, T) \cup {L}) = Cardinality(Among(s, T)) + 1  BY <1>4, <1>5, FS_AddElement
  <2>3. QED  BY <1>6, <2>1, <2>2 DEF t
<1>7. CASE o \notin T
  <2>1. Among(t, T) = Among(s, T)  BY <1>2, <1>7
  <2>2. QED  BY <1>4, <1>7, <2>1 DEF t
<1>8. QED  BY <1>6, <1>7

\* One step keeps the counters and the reports together.
LEMMA SummaryStep == TypeInv /\ CountInv /\ SummaryInv /\ [Next]_vars => SummaryInv'
<1> SUFFICES ASSUME TypeInv, CountInv, SummaryInv, [Next]_vars PROVE SummaryInv'  OBVIOUS
<1>1. ASSUME UNCHANGED counters PROVE SummaryInv'  BY <1>1 DEF SummaryInv, counters, Among
<1>2. CASE Unsupported \/ InitFails  BY <1>1, <1>2 DEF Unsupported, InitFails, SkipStore
<1>3. CASE InitStore  BY <1>1, <1>3 DEF InitStore
<1>4. CASE CallRunBlock  BY <1>1, <1>4 DEF CallRunBlock
<1>5. CASE RunBlockFails  BY <1>1, <1>5 DEF RunBlockFails
<1>6. CASE CloseStore  BY <1>1, <1>6 DEF CloseStore
<1>7. CASE Finish  BY <1>1, <1>7 DEF Finish
<1>8. CASE Done \/ UNCHANGED vars  BY <1>1, <1>8 DEF Done, vars
<1>9. CASE \E r \in Results : ResultReturned(r)
  <2>1. PICK r \in Results : ResultReturned(r)  BY <1>9
  <2>2. r.verdict \in {Match, Divergence} /\ r.ratio \in Nat  BY HarnessAssumption
  <2>3. cur \in DOMAIN stores /\ cur \in Nat  BY <2>1 DEF ResultReturned, TypeInv, InStore, TypeOK
  <2>4. store \in StoreSpecs  BY <2>3, StoreTyped DEF TypeInv, store
  <2>5. store.canary \in BOOLEAN  BY <2>4 DEF StoreSpecs
  <2> DEFINE o == [index |-> blockNum, store |-> cur, item |-> pos, canary |-> store.canary,
                   verdict |-> r.verdict, hotKeys |-> HotKeys(r), ratio |-> r.ratio]
             class == Classify(store.canary, r.verdict)
  <2>6. o \in OutcomeRecords
    BY <2>2, <2>3, <2>5 DEF TypeInv, TypeOK, OutcomeRecords
  <2>7. reported' = Append(reported, o)  BY <2>1 DEF ResultReturned
  <2>8. /\ o.canary = store.canary /\ o.verdict = r.verdict /\ o.hotKeys = HotKeys(r)
        /\ o.ratio = r.ratio
    OBVIOUS
  <2>9. /\ canaryExpected' = canaryExpected + IF class = "canaryExpected" THEN 1 ELSE 0
        /\ canaryMissed' = canaryMissed + IF class = "canaryMissed" THEN 1 ELSE 0
        /\ okCount' = okCount + IF class = "ok" THEN 1 ELSE 0
        /\ divergenceCount' = divergenceCount + IF class = "divergence" THEN 1 ELSE 0
        /\ hotKeyBlocks' = hotKeyBlocks + IF HotKeys(r) # <<>> THEN 1 ELSE 0
        /\ maxExecRatio' = IF r.ratio > maxExecRatio THEN r.ratio ELSE maxExecRatio
    BY <2>1 DEF ResultReturned, TypeInv, TypeOK
  <2> HIDE DEF o
  <2>10. /\ class = "canaryExpected" <=> o \in CaughtOutcomes
         /\ class = "canaryMissed" <=> o \in MissedOutcomes
         /\ class = "ok" <=> o \in OkOutcomes
         /\ class = "divergence" <=> o \in DivergedOutcomes
    BY <2>2, <2>5, <2>6, <2>8 DEF Classify, CaughtOutcomes, MissedOutcomes, OkOutcomes,
                                 DivergedOutcomes, Missed, Diverged, Match, Divergence
  <2>11. HotKeys(r) # <<>> <=> o \in HotOutcomes  BY <2>6, <2>8 DEF HotOutcomes
  <2> HIDE DEF class
  <2>12. reported \in Seq(OutcomeRecords)  BY DEF CountInv
  <2>13. \A T : Cardinality(Among(reported', T))
                  = Cardinality(Among(reported, T)) + IF o \in T THEN 1 ELSE 0
    BY <2>6, <2>7, <2>12, AmongAppend
  <2>14. /\ DOMAIN reported' = DOMAIN reported \cup {Len(reported) + 1}
         /\ \A n \in DOMAIN reported : reported'[n] = reported[n]
         /\ reported'[Len(reported) + 1] = o
    BY <2>6, <2>7, <2>12, AppendReport
  <2>15. \A n \in DOMAIN reported : reported[n].ratio \in Nat
    <3>1. \A n \in DOMAIN reported : reported[n] \in OutcomeRecords  BY <2>12
    <3>2. \A p \in OutcomeRecords : p.ratio \in Nat  BY DEF OutcomeRecords
    <3>3. QED  BY <3>1, <3>2
  <2>16. maxExecRatio \in Nat  BY DEF TypeInv, TypeOK
  <2>17. \A n \in DOMAIN reported' : reported'[n].ratio <= maxExecRatio'
    <3>1. \A n \in DOMAIN reported : reported[n].ratio <= maxExecRatio  BY DEF SummaryInv
    <3>2. QED  BY <2>2, <2>8, <2>9, <2>14, <2>15, <2>16, <3>1
  <2>18. maxExecRatio' > 0 => \E n \in DOMAIN reported' : reported'[n].ratio = maxExecRatio'
    <3>1. CASE r.ratio > maxExecRatio  BY <2>8, <2>9, <2>14, <3>1
    <3>2. CASE ~(r.ratio > maxExecRatio)  BY <2>9, <2>14, <3>2 DEF SummaryInv
    <3>3. QED  BY <3>1, <3>2
  <2>19. /\ okCount' = Cardinality(Among(reported', OkOutcomes))
         /\ divergenceCount' = Cardinality(Among(reported', DivergedOutcomes))
         /\ canaryExpected' = Cardinality(Among(reported', CaughtOutcomes))
         /\ canaryMissed' = Cardinality(Among(reported', MissedOutcomes))
         /\ hotKeyBlocks' = Cardinality(Among(reported', HotOutcomes))
    BY <2>9, <2>10, <2>11, <2>13 DEF SummaryInv
  <2>20. QED  BY <2>17, <2>18, <2>19 DEF SummaryInv, OkOutcomes, DivergedOutcomes, CaughtOutcomes,
                                         MissedOutcomes, HotOutcomes, OutcomeRecords, Missed, Diverged
<1>10. QED
  BY <1>2, <1>3, <1>4, <1>5, <1>6, <1>7, <1>8, <1>9 DEF Next

\* The hot keys of a result are listed in a sequence.
LEMMA HotKeysListed == \A r \in Results : ASequence(HotKeys(r))
<1> SUFFICES ASSUME NEW r \in Results PROVE ASequence(HotKeys(r))  OBVIOUS
<1>1. CASE ~(HotKeyMinTxs > 0)  BY <1>1, ASequenceOne DEF HotKeys
<1>2. CASE HotKeyMinTxs > 0
  <2> DEFINE seqs == [n \in DOMAIN r.hot |-> IF r.hot[n] >= HotKeyMinTxs THEN <<r.hot[n]>> ELSE <<>>]
             N == Len(r.hot)
  <2>1. r.hot \in Seq(Nat)  BY HarnessAssumption
  <2>2. N \in Nat /\ DOMAIN r.hot = 1 .. N  BY <2>1
  <2>3. seqs = [n \in 1 .. N |-> seqs[n]]  BY <2>2
  <2>4. \A n \in 1 .. N : seqs[n] = <<r.hot[n]>> \/ seqs[n] = <<>>  BY <2>2
  <2>5. HotKeys(r) = FlattenSeq(seqs)  BY <1>2 DEF HotKeys
  <2> HIDE DEF seqs, N
  <2>6. \A n \in 1 .. N : ASequence(seqs[n])  BY <2>4, ASequenceOne
  <2>7. ASequence(FlattenSeq(seqs))  BY <2>2, <2>3, <2>6, ASequenceFlatten
  <2>8. QED  BY <2>5, <2>7
<1>3. QED  BY <1>1, <1>2

\* writePerf prints something exactly if there is a ratio or a hot key.
LEMMA PerfLines ==
  ASSUME NEW o \in OutcomeRecords
  PROVE  CLIPerf(o) # <<>> <=> o.ratio > 0 \/ o.hotKeys # <<>>
<1>1. ASequence(o.hotKeys)  BY HotKeysListed DEF OutcomeRecords
<1> DEFINE first == IF o.ratio > 0 THEN <<"exec-ratio">> ELSE <<>>
           rest == [n \in DOMAIN o.hotKeys |-> "hot key"]
<1>2. CLIPerf(o) = first \o rest  BY DEF CLIPerf
<1>3. ASequence(first) /\ (first = <<>> <=> ~(o.ratio > 0))  BY ASequenceOne
<1>4. ASequence(rest)
  <2>1. rest = [n \in DOMAIN o.hotKeys |-> rest[n]]  OBVIOUS
  <2> HIDE DEF rest
  <2>2. QED  BY <1>1, <2>1, ASequenceMap
<1>5. (\E x : Occurs(x, rest)) <=> \E x : Occurs(x, o.hotKeys)  BY DEF Occurs
<1> HIDE DEF first, rest
<1>6. ASequence(first \o rest) /\ \A x : Occurs(x, first \o rest) <=> Occurs(x, first) \/ Occurs(x, rest)
  BY <1>3, <1>4, ASequenceConcat
<1>7. /\ first \o rest = <<>> <=> \A x : ~Occurs(x, first \o rest)
      /\ first = <<>> <=> \A x : ~Occurs(x, first)
      /\ o.hotKeys = <<>> <=> \A x : ~Occurs(x, o.hotKeys)
  BY <1>1, <1>3, <1>6, ASequenceEmpty
<1>8. QED  BY <1>2, <1>3, <1>5, <1>6, <1>7

\* Whatever is reported, the summary, the CLI lines, the Markdown sections and the JSON
\* blocks agree.
THEOREM SummaryIsTruthful == Spec => []SummaryMatchesReports
<1>1. Init => SummaryInv
  <2> SUFFICES ASSUME Init PROVE SummaryInv  OBVIOUS
  <2>1. reported = <<>>  BY DEF Init
  <2>2. \A T : Among(reported, T) = {}  BY <2>1 DEF Among
  <2>3. \A T : Cardinality(Among(reported, T)) = 0  BY <2>2, FS_EmptySet
  <2>4. DOMAIN reported = {}  BY <2>1
  <2>5. QED  BY <2>3, <2>4 DEF Init, SummaryInv
<1>2. TypeInv /\ CountInv /\ SummaryInv => SummaryMatchesReports
  <2> SUFFICES ASSUME TypeInv, CountInv, SummaryInv PROVE SummaryMatchesReports  OBVIOUS
  <2>1. reported \in Seq(OutcomeRecords)  BY DEF CountInv
  <2>2. \A n \in DOMAIN reported : reported[n] \in OutcomeRecords  BY <2>1
  <2>3. \A o \in OutcomeRecords : /\ o.canary \in BOOLEAN /\ o.verdict \in {Match, Divergence}
                                  /\ o.ratio \in Nat
    BY DEF OutcomeRecords
  <2> DEFINE Ok == Among(reported, OkOutcomes)
             Div == Among(reported, DivergedOutcomes)
             Caught == Among(reported, CaughtOutcomes)
             Miss == Among(reported, MissedOutcomes)
             Hot == Among(reported, HotOutcomes)
  <2> USE DEF Match, Divergence
  <2>4. \A n : /\ n \in Ok <=> n \in DOMAIN reported /\ ~reported[n].canary /\ reported[n].verdict = Match
               /\ n \in Div <=> n \in DOMAIN reported /\ ~reported[n].canary /\ reported[n].verdict = Divergence
               /\ n \in Caught <=> n \in DOMAIN reported /\ reported[n].canary /\ reported[n].verdict = Divergence
               /\ n \in Miss <=> n \in DOMAIN reported /\ reported[n].canary /\ reported[n].verdict = Match
               /\ n \in Hot <=> n \in DOMAIN reported /\ reported[n].hotKeys # <<>>
    BY <2>2 DEF Among, OkOutcomes, DivergedOutcomes, CaughtOutcomes, MissedOutcomes, HotOutcomes,
                Missed, Diverged
  <2>5. /\ okCount = Cardinality(Ok) /\ divergenceCount = Cardinality(Div)
        /\ canaryExpected = Cardinality(Caught) /\ canaryMissed = Cardinality(Miss)
        /\ hotKeyBlocks = Cardinality(Hot)
    BY DEF SummaryInv
  <2>6. \A A : A \subseteq DOMAIN reported =>
               IsFiniteSet(A) /\ Cardinality(A) \in Nat /\ (Cardinality(A) = 0 <=> A = {})
    BY <2>1, AmongFinite
  <2>7. /\ Ok \subseteq DOMAIN reported /\ Div \subseteq DOMAIN reported /\ Caught \subseteq DOMAIN reported
        /\ Miss \subseteq DOMAIN reported /\ Hot \subseteq DOMAIN reported
    BY DEF Among
  <2> HIDE DEF Ok, Div, Caught, Miss, Hot
  <2>8. divergenceCount + canaryExpected = Cardinality(Div \cup Caught)
    <3>1. Div \cap Caught = {}  BY <2>4
    <3>2. Cardinality(Div \cup Caught) = Cardinality(Div) + Cardinality(Caught) - Cardinality(Div \cap Caught)
      BY <2>6, <2>7, FS_Union
    <3>3. QED  BY <2>5, <2>6, <2>7, <3>1, <3>2, FS_EmptySet
  <2>9. /\ okCount = ReportedAs(LAMBDA o : CLILine(o) = "ok")
        /\ canaryMissed = ReportedAs(LAMBDA o : CLILine(o) = "CANARY MISSED")
        /\ divergenceCount + canaryExpected = ReportedAs(LAMBDA o : CLILine(o) = "DIVERGENCE")
    <3>1. Ok = {n \in DOMAIN reported : CLILine(reported[n]) = "ok"}  BY <2>2, <2>3, <2>4 DEF CLILine
    <3>2. Miss = {n \in DOMAIN reported : CLILine(reported[n]) = "CANARY MISSED"}
      BY <2>2, <2>3, <2>4 DEF CLILine
    <3>3. Div \cup Caught = {n \in DOMAIN reported : CLILine(reported[n]) = "DIVERGENCE"}
      BY <2>2, <2>3, <2>4 DEF CLILine
    <3>4. QED  BY <2>5, <2>8, <3>1, <3>2, <3>3 DEF ReportedAs
  <2>10. /\ canaryMissed = ReportedAs(LAMBDA o : "Missed Canaries" \in MarkdownSections(o))
         /\ divergenceCount + canaryExpected = ReportedAs(LAMBDA o : "Divergences" \in MarkdownSections(o))
         /\ hotKeyBlocks = ReportedAs(LAMBDA o : "Hot Conflict Keys" \in MarkdownSections(o))
    <3>1. Miss = {n \in DOMAIN reported : "Missed Canaries" \in MarkdownSections(reported[n])}
      BY <2>2, <2>3, <2>4 DEF MarkdownSections
    <3>2. Div \cup Caught = {n \in DOMAIN reported : "Divergences" \in MarkdownSections(reported[n])}
      BY <2>2, <2>3, <2>4 DEF MarkdownSections
    <3>3. Hot = {n \in DOMAIN reported : "Hot Conflict Keys" \in MarkdownSections(reported[n])}
      BY <2>2, <2>3, <2>4 DEF MarkdownSections
    <3>4. QED  BY <2>5, <2>8, <3>1, <3>2, <3>3 DEF ReportedAs
  <2>11. \A n \in DOMAIN reported :
           /\ JSONBlock(reported[n]).is_canary = reported[n].canary
           /\ JSONBlock(reported[n]).verdict = reported[n].verdict
           /\ JSONBlock(reported[n]).hot_keys = reported[n].hotKeys
           /\ JSONBlock(reported[n]).execution_ratio = reported[n].ratio
    BY DEF JSONBlock
  <2> DEFINE js == JSONSummary(summary)
  <2>12. /\ js.ok = okCount /\ js.divergences = divergenceCount /\ js.canary_expected = canaryExpected
         /\ js.canary_missed = canaryMissed /\ js.hot_key_blocks = hotKeyBlocks
         /\ js.max_execution_ratio = maxExecRatio
    BY DEF JSONSummary, summary
  <2> HIDE DEF js
  <2>13. /\ js.ok = JSONBlocksWith(LAMBDA b : ~b.is_canary /\ b.verdict = Match)
         /\ js.divergences = JSONBlocksWith(LAMBDA b : ~b.is_canary /\ b.verdict = Divergence)
         /\ js.canary_expected = JSONBlocksWith(LAMBDA b : b.is_canary /\ b.verdict = Divergence)
         /\ js.canary_missed = JSONBlocksWith(LAMBDA b : b.is_canary /\ b.verdict = Match)
         /\ js.hot_key_blocks = JSONBlocksWith(LAMBDA b : b.hot_keys # <<>>)
    <3>1. Ok = {n \in DOMAIN reported : ~JSONBlock(reported[n]).is_canary /\ JSONBlock(reported[n]).verdict = Match}
      BY <2>4, <2>11
    <3>2. Div = {n \in DOMAIN reported : ~JSONBlock(reported[n]).is_canary /\ JSONBlock(reported[n]).verdict = Divergence}
      BY <2>4, <2>11
    <3>3. Caught = {n \in DOMAIN reported : JSONBlock(reported[n]).is_canary /\ JSONBlock(reported[n]).verdict = Divergence}
      BY <2>4, <2>11
    <3>4. Miss = {n \in DOMAIN reported : JSONBlock(reported[n]).is_canary /\ JSONBlock(reported[n]).verdict = Match}
      BY <2>4, <2>11
    <3>5. Hot = {n \in DOMAIN reported : JSONBlock(reported[n]).hot_keys # <<>>}
      BY <2>4, <2>11
    <3>6. QED  BY <2>5, <2>12, <3>1, <3>2, <3>3, <3>4, <3>5 DEF JSONBlocksWith, ReportedAs
  <2>14. \A n \in DOMAIN reported : reported[n].ratio \in Nat /\ reported[n].ratio <= maxExecRatio
    BY <2>2, <2>3 DEF SummaryInv
  <2>15. maxExecRatio \in Nat  BY DEF TypeInv, TypeOK
  <2>16. JSONBlocksWith(LAMBDA b : b.execution_ratio > js.max_execution_ratio) = 0
    <3>1. {n \in DOMAIN reported : JSONBlock(reported[n]).execution_ratio > js.max_execution_ratio} = {}
      BY <2>11, <2>12, <2>14, <2>15
    <3>2. QED  BY <3>1, FS_EmptySet DEF JSONBlocksWith, ReportedAs
  <2>17. CLIShowsPerf(summary) <=> ReportedAs(LAMBDA o : CLIPerf(o) # <<>>) > 0
    <3> DEFINE A == {n \in DOMAIN reported : CLIPerf(reported[n]) # <<>>}
    <3>1. \A n \in DOMAIN reported : CLIPerf(reported[n]) # <<>> <=> reported[n].ratio > 0 \/ reported[n].hotKeys # <<>>
      BY <2>2, PerfLines
    <3>2. CLIShowsPerf(summary) <=> hotKeyBlocks > 0 \/ maxExecRatio > 0  BY DEF CLIShowsPerf, summary
    <3>3. hotKeyBlocks > 0 <=> Hot # {}  BY <2>5, <2>6, <2>7
    <3>4. maxExecRatio > 0 <=> \E n \in DOMAIN reported : reported[n].ratio > 0
      BY <2>14, <2>15 DEF SummaryInv
    <3>5. CLIShowsPerf(summary) <=> A # {}  BY <2>4, <3>1, <3>2, <3>3, <3>4
    <3>6. A # {} <=> Cardinality(A) > 0
      <4>1. A \subseteq DOMAIN reported  OBVIOUS
      <4> HIDE DEF A
      <4>2. QED  BY <2>6, <4>1
    <3>7. QED  BY <3>5, <3>6 DEF ReportedAs
  <2>18. MarkdownShowsRatio(summary) <=> ReportedAs(LAMBDA o : o.ratio > 0) > 0
    <3> DEFINE A == {n \in DOMAIN reported : reported[n].ratio > 0}
    <3>1. maxExecRatio > 0 <=> A # {}  BY <2>14, <2>15 DEF SummaryInv
    <3>2. A # {} <=> Cardinality(A) > 0
      <4>1. A \subseteq DOMAIN reported  OBVIOUS
      <4> HIDE DEF A
      <4>2. QED  BY <2>6, <4>1
    <3>3. QED  BY <3>1, <3>2 DEF ReportedAs, MarkdownShowsRatio, summary
  <2>19. CanaryWarning <=> /\ ReportedAs(LAMBDA o : o.canary) > 0
                           /\ ReportedAs(LAMBDA o : o.canary /\ CLILine(o) # "CANARY MISSED") = 0
    <3> DEFINE A == {n \in DOMAIN reported : reported[n].canary}
               B == {n \in DOMAIN reported : reported[n].canary /\ CLILine(reported[n]) # "CANARY MISSED"}
    <3>1. A = Caught \cup Miss  BY <2>2, <2>3, <2>4
    <3>2. B = Caught  BY <2>2, <2>3, <2>4 DEF CLILine
    <3>3. CanaryWarning <=> Miss # {} /\ Caught = {}  BY <2>5, <2>6, <2>7 DEF CanaryWarning
    <3>4. A \subseteq DOMAIN reported  OBVIOUS
    <3>5. ReportedAs(LAMBDA o : o.canary) = Cardinality(A)  BY DEF ReportedAs
    <3>6. ReportedAs(LAMBDA o : o.canary /\ CLILine(o) # "CANARY MISSED") = Cardinality(B)
      BY DEF ReportedAs
    <3> HIDE DEF A, B
    <3>7. Cardinality(A) > 0 <=> A # {}  BY <2>6, <3>4
    <3>8. Cardinality(B) = 0 <=> Caught = {}  BY <2>6, <2>7, <3>2
    <3>9. QED  BY <3>1, <3>3, <3>5, <3>6, <3>7, <3>8
  <2>20. QED
    BY <2>9, <2>10, <2>13, <2>16, <2>17, <2>18, <2>19 DEF SummaryMatchesReports, js
<1>3. QED  BY <1>1, <1>2, SummaryStep, TypeInvariant, CountInvariant, PTL DEF Spec

-------------------------------------------------------------------------------
(* Coverage.                                                                 *)

\* What the two trackers hold for a key.
CountOf(k) == IF k \in DOMAIN counts THEN counts[k] ELSE 0
PatternsOf(k) == IF k \in DOMAIN patterns THEN patterns[k] ELSE {}

\* With an executor that names its messages, the tracker has counted the transactions of
\* the reported blocks, and the write sets seen are no more than those.
CoverInv ==
  exec.keys =>
    \A k \in Registered :
      /\ KeysReported(k) \in Nat /\ CountOf(k) = KeysReported(k)
      /\ IsFiniteSet(PatternsOf(k)) /\ Cardinality(PatternsOf(k)) <= KeysReported(k)

\* The image of a finite set has at most as many elements.
LEMMA ImageBound ==
  ASSUME NEW M, IsFiniteSet(M), NEW f, f = [m \in M |-> f[m]]
  PROVE  IsFiniteSet({f[m] : m \in M}) /\ Cardinality({f[m] : m \in M}) <= Cardinality(M)
<1> DEFINE T == {f[m] : m \in M}
<1>1. f \in [M -> T] /\ \A t \in T : \E m \in M : f[m] = t  OBVIOUS
<1>2. f \in Surjection(M, T)
  <2> HIDE DEF T
  <2> QED  BY <1>1 DEF Surjection
<1>3. IsFiniteSet(T) /\ Cardinality(T) <= Cardinality(M)
  <2> HIDE DEF T
  <2> QED  BY <1>2, FS_Surjection
<1>4. QED  BY <1>3

\* A report adds the transactions of its block to the sum over the reports.
LEMMA KeysReportedAppend ==
  ASSUME reported \in Seq(OutcomeRecords), NEW o \in OutcomeRecords, reported' = Append(reported, o),
         stores' = stores, NEW k
  PROVE  KeysReported(k)' = KeysReported(k) + KeysOf(o, k)
<1> DEFINE L == Len(reported)
           c == [n \in DOMAIN reported |-> KeysOf(reported[n], k)]
           d == [n \in DOMAIN reported' |-> KeysOf(reported'[n], k)]
<1>1. /\ L \in Nat /\ DOMAIN reported = 1 .. L /\ Len(reported') = L + 1
      /\ DOMAIN reported' = 1 .. L + 1 /\ reported'[L + 1] = o
      /\ \A n \in 1 .. L : reported'[n] = reported[n]
  <2>1. reported' \in Seq(OutcomeRecords) /\ Len(reported') = L + 1
    BY AppendReport
  <2>2. QED  BY <2>1
<1>2. KeysReported(k) = SumUpTo(c, L)  BY DEF KeysReported
<1>3. KeysReported(k)' = SumUpTo(d, L + 1)
  <2>1. \A p : KeysOf(p, k)' = KeysOf(p, k)  BY DEF KeysOf
  <2>2. KeysReported(k)' = SumUpTo([n \in DOMAIN reported' |-> KeysOf(reported'[n], k)], Len(reported'))
    BY <2>1 DEF KeysReported, KeysOf
  <2>3. QED  BY <1>1, <2>2
<1>4. (\A n \in 1 .. L : c[n] = d[n]) /\ d[L + 1] = KeysOf(o, k)  BY <1>1
<1> HIDE DEF c, d, L
<1>5. SumUpTo(c, L) = SumUpTo(d, L)  BY <1>1, <1>4, SumAgrees
<1>6. SumUpTo(d, L + 1) = SumUpTo(d, L) + d[L + 1]  BY <1>1, SumStep, SMTT(60)
<1>7. QED  BY <1>2, <1>3, <1>4, <1>5, <1>6

\* One step keeps the trackers and the reports together.
LEMMA CoverStep ==
  TypeInv /\ CountInv /\ LoopInv /\ CoverInv /\ [Next]_vars => CoverInv'
<1> SUFFICES ASSUME TypeInv, CountInv, LoopInv, CoverInv, [Next]_vars PROVE CoverInv'
  OBVIOUS
<1>1. ASSUME UNCHANGED counters, UNCHANGED input PROVE CoverInv'
  BY <1>1 DEF CoverInv, counters, CountOf, PatternsOf, KeysReported, KeysOf
<1>2. CASE Unsupported \/ InitFails  BY <1>1, <1>2 DEF Unsupported, InitFails, SkipStore
<1>3. CASE InitStore  BY <1>1, <1>3 DEF InitStore
<1>4. CASE CallRunBlock  BY <1>1, <1>4 DEF CallRunBlock
<1>5. CASE RunBlockFails  BY <1>1, <1>5 DEF RunBlockFails
<1>6. CASE CloseStore  BY <1>1, <1>6 DEF CloseStore
<1>7. CASE Finish  BY <1>1, <1>7 DEF Finish
<1>8. CASE Done \/ UNCHANGED vars  BY <1>1, <1>8 DEF Done, vars
<1>9. CASE \E r \in Results : ResultReturned(r)
  <2> SUFFICES ASSUME exec'.keys, NEW k \in Registered
               PROVE  /\ KeysReported(k)' \in Nat /\ CountOf(k)' = KeysReported(k)'
                      /\ IsFiniteSet(PatternsOf(k)') /\ Cardinality(PatternsOf(k)') <= KeysReported(k)'
    BY DEF CoverInv
  <2>1. PICK r \in Results : ResultReturned(r)  BY <1>9
  <2>2. pc = "block" /\ UNCHANGED <<stores, exec, cur, pos>> /\ exec.keys
    BY <2>1 DEF ResultReturned
  <2> DEFINE keys == store.items[pos].keys
             M == {m \in DOMAIN keys : keys[m] = k}
  <2>3. counts' = RecordBlock(counts, keys) /\ patterns' = RecordPatterns(patterns, keys, r.ws)
    BY <2>1, <2>2 DEF ResultReturned
  <2>4. PICK o : reported' = Append(reported, o) /\ o.store = cur /\ o.item = pos
    BY <2>1, SMTT(60) DEF ResultReturned
  <2>5. reported \in Seq(OutcomeRecords) /\ reported' \in Seq(OutcomeRecords)
    BY CountStep DEF CountInv
  <2>6. o \in OutcomeRecords
    <3>1. Len(reported) + 1 \in DOMAIN reported' /\ reported'[Len(reported) + 1] = o
      BY <2>4, <2>5
    <3>2. QED  BY <2>5, <3>1
  <2>7. keys \in Seq(STRING)
    <3>1. pos \in 1 .. Len(store.items)  BY <2>2 DEF LoopInv
    <3>2. QED  BY <2>2, <3>1, CurrentStore
  <2>8. KeysOf(o, k) = Cardinality(M)  BY <2>4 DEF KeysOf, store
  <2>9. k \notin ToSet(keys) => M = {}  BY DEF ToSet
  <2> HIDE DEF keys
  <2>10. IsFiniteSet(M) /\ Cardinality(M) \in Nat /\ (Cardinality(M) = 0 <=> M = {})
    <3>1. M \subseteq DOMAIN keys  OBVIOUS
    <3> HIDE DEF M
    <3>2. QED  BY <2>7, <3>1, AmongFinite
  <2>11. /\ KeysReported(k) \in Nat /\ CountOf(k) = KeysReported(k)
         /\ IsFiniteSet(PatternsOf(k)) /\ Cardinality(PatternsOf(k)) <= KeysReported(k)
    BY <2>2 DEF CoverInv
  <2>12. KeysReported(k)' = KeysReported(k) + Cardinality(M)
    BY <2>2, <2>4, <2>5, <2>6, <2>8, KeysReportedAppend
  <2>13. CountOf(k)' = CountOf(k) + Cardinality(M)
    <3>1. /\ DOMAIN counts' = DOMAIN counts \cup ToSet(keys)
          /\ k \in DOMAIN counts' => counts'[k] = CountOf(k) + Cardinality(M)
      BY <2>3 DEF RecordBlock, CountOf
    <3>2. CASE k \in DOMAIN counts'  BY <3>1, <3>2 DEF CountOf
    <3>3. CASE k \notin DOMAIN counts'
      <4>1. CountOf(k)' = 0 /\ CountOf(k) = 0 /\ Cardinality(M) = 0
        BY <2>9, <2>10, <3>1, <3>3 DEF CountOf
      <4>2. QED  BY <4>1
    <3>4. QED  BY <3>2, <3>3
  <2>14. /\ IsFiniteSet(PatternsOf(k)')
         /\ Cardinality(PatternsOf(k)') <= Cardinality(PatternsOf(k)) + Cardinality(M)
    <3> DEFINE f == [n \in M |-> IF n \in DOMAIN r.ws THEN r.ws[n] ELSE {}]
               Seen == {f[n] : n \in M}
    <3>0. Cardinality(PatternsOf(k)) \in Nat  BY <2>11, FS_CardinalityType
    <3>1. PatternsOf(k)' = PatternsOf(k) \/ PatternsOf(k)' = PatternsOf(k) \cup Seen
      <4>1. CASE r.ws = <<>>  BY <2>3, <4>1 DEF RecordPatterns, PatternsOf
      <4>2. CASE r.ws # <<>>
        <5>1. /\ DOMAIN patterns' = DOMAIN patterns \cup ToSet(keys)
              /\ k \in DOMAIN patterns' =>
                   patterns'[k] = PatternsOf(k) \cup {IF n \in DOMAIN r.ws THEN r.ws[n] ELSE {} : n \in M}
          BY <2>3, <4>2 DEF RecordPatterns, PatternsOf
        <5>2. Seen = {IF n \in DOMAIN r.ws THEN r.ws[n] ELSE {} : n \in M}  OBVIOUS
        <5>3. k \notin DOMAIN patterns' => PatternsOf(k) = {} /\ PatternsOf(k)' = {}
          BY <5>1 DEF PatternsOf
        <5>4. k \in DOMAIN patterns' => PatternsOf(k)' = PatternsOf(k) \cup Seen
          BY <5>1, <5>2 DEF PatternsOf
        <5>5. QED  BY <5>3, <5>4
      <4>3. QED  BY <4>1, <4>2
    <3>2. f = [n \in M |-> f[n]]  OBVIOUS
    <3>3. IsFiniteSet(Seen) /\ Cardinality(Seen) <= Cardinality(M)
      <4> HIDE DEF f, M
      <4> QED  BY <2>10, <3>2, ImageBound
    <3> HIDE DEF Seen, f, M
    <3>4. /\ IsFiniteSet(PatternsOf(k) \cup Seen)
          /\ Cardinality(PatternsOf(k) \cup Seen) <= Cardinality(PatternsOf(k)) + Cardinality(Seen)
      <4>1. IsFiniteSet(PatternsOf(k) \cap Seen)  BY <2>11, <3>3, FS_Intersection
      <4>2. Cardinality(PatternsOf(k) \cap Seen) \in Nat /\ Cardinality(Seen) \in Nat
        BY <3>3, <4>1, FS_CardinalityType
      <4>3. /\ IsFiniteSet(PatternsOf(k) \cup Seen)
            /\ Cardinality(PatternsOf(k) \cup Seen)
                 = Cardinality(PatternsOf(k)) + Cardinality(Seen) - Cardinality(PatternsOf(k) \cap Seen)
        BY <2>11, <3>3, FS_Union
      <4>4. QED  BY <3>0, <4>2, <4>3
    <3>5. Cardinality(Seen) \in Nat /\ Cardinality(PatternsOf(k) \cup Seen) \in Nat
      BY <3>3, <3>4, FS_CardinalityType
    <3>6. CASE PatternsOf(k)' = PatternsOf(k)  BY <2>10, <2>11, <3>0, <3>6
    <3>7. CASE PatternsOf(k)' = PatternsOf(k) \cup Seen
      <4>1. Cardinality(PatternsOf(k) \cup Seen) <= Cardinality(PatternsOf(k)) + Cardinality(M)
        BY <2>10, <3>0, <3>3, <3>4, <3>5
      <4>2. QED  BY <3>4, <3>7, <4>1
    <3>8. QED  BY <3>1, <3>6, <3>7
  <2> HIDE DEF M
  <2>15. Cardinality(PatternsOf(k)) \in Nat /\ Cardinality(PatternsOf(k)') \in Nat
    BY <2>11, <2>14, FS_CardinalityType
  <2>16. KeysReported(k)' \in Nat /\ CountOf(k)' = KeysReported(k)'  BY <2>10, <2>11, <2>12, <2>13
  <2>17. Cardinality(PatternsOf(k)') <= KeysReported(k)'
    BY <2>10, <2>11, <2>12, <2>14, <2>15
  <2>18. QED  BY <2>14, <2>16, <2>17
<1>10. QED
  BY <1>2, <1>3, <1>4, <1>5, <1>6, <1>7, <1>8, <1>9 DEF Next

\* The coverage the CLI prints is the coverage of the blocks that were reported.
THEOREM CoverageIsTruthful == Spec => []CoverageOfExecuted
<1>1. Init => CoverInv
  <2> SUFFICES ASSUME Init, NEW k \in Registered
               PROVE  /\ KeysReported(k) = 0 /\ CountOf(k) = 0 /\ PatternsOf(k) = {}
    BY FS_EmptySet DEF CoverInv
  <2>1. Len(reported) = 0 /\ DOMAIN counts = {} /\ DOMAIN patterns = {}  BY DEF Init
  <2>2. KeysReported(k) = 0
    <3>1. \A c : SumUpTo(c, 0) = 0  BY SumStep, 0 \in Nat
    <3>2. QED  BY <2>1, <3>1 DEF KeysReported
  <2>3. QED  BY <2>1, <2>2 DEF CountOf, PatternsOf
<1>2. CoverInv => CoverageOfExecuted
  <2> SUFFICES ASSUME CoverInv, exec.keys, NEW k \in Registered
               PROVE  /\ <<"!", k>> \in CLICoverage(summary) <=> KeysReported(k) = 0
                      /\ <<" ", k>> \in CLICoverage(summary) => counts[k] = KeysReported(k)
                      /\ DistinctCount(k) <= KeysReported(k)
    BY DEF CoverageOfExecuted
  <2>1. /\ KeysReported(k) \in Nat /\ CountOf(k) = KeysReported(k)
        /\ Cardinality(PatternsOf(k)) <= KeysReported(k)
    BY DEF CoverInv
  <2>2. CLICoverage(summary) = {<<" ", j>> : j \in Covered} \cup {<<"!", j>> : j \in Uncovered}
    BY DEF CLICoverage, summary
  <2>3. <<"!", k>> \in CLICoverage(summary) <=> k \in Uncovered  BY <2>2
  <2>4. <<" ", k>> \in CLICoverage(summary) <=> k \in Covered  BY <2>2
  <2>5. k \in Covered <=> k \in DOMAIN counts /\ counts[k] > 0  BY DEF Covered
  <2>6. k \in Uncovered <=> k \notin Covered  BY DEF Uncovered
  <2>7. k \in Covered => counts[k] = KeysReported(k) /\ KeysReported(k) # 0
    BY <2>1, <2>5 DEF CountOf
  <2>8. k \notin Covered => KeysReported(k) = 0
    BY <2>1, <2>5 DEF CountOf
  <2>9. DistinctCount(k) <= KeysReported(k)
    BY <2>1, FS_EmptySet DEF DistinctCount, PatternsOf
  <2>10. QED  BY <2>3, <2>4, <2>6, <2>7, <2>8, <2>9
<1>3. QED
  BY <1>1, <1>2, CoverStep, TypeInvariant, CountInvariant, LoopInvariant, PTL DEF Spec
================================================================================
