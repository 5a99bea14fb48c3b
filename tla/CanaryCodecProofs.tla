--------------------------- MODULE CanaryCodecProofs ---------------------------
(***************************************************************************)
(* Theorems about CanaryCodec: Marshal's buffer has the size it needs, and  *)
(* a message whose numbers fit one varint byte survives Marshal and         *)
(* Unmarshal, whatever follows it or is missing at its end.                 *)
(***************************************************************************)
EXTENDS CanaryCodec, DataLemmas

-------------------------------------------------------------------------------
(* Numbers.                                                                  *)

\* The least element of a non-empty set of natural numbers.
LEMMA MinOfNaturals ==
  ASSUME NEW T, T \subseteq Nat, T # {}
  PROVE  Min(T) \in T /\ \A y \in T : Min(T) <= y
<1>1. \E x \in T : \A y \in T : x <= y  BY LeastNatural
<1>2. QED  BY <1>1 DEF Min

\* 128^k is what its recursive definition says.
LEMMA PowerUnfolds ==
  \A k \in 0 .. MaxVarintLen : Pow128[k] = IF k = 0 THEN 1 ELSE 128 * Pow128[k - 1]
<1> DEFINE next(f, k) == IF k = 0 THEN 1 ELSE 128 * f[k - 1]
           Upto(n, f) == f = [k \in 0 .. n |-> f[k]] /\ \A k \in 0 .. n : f[k] = next(f, k)
           I == {n \in Nat : \E f : Upto(n, f)}
<1>1. 0 \in I
  <2>1. Upto(0, [k \in 0 .. 0 |-> 1])  OBVIOUS
  <2>2. QED  BY <2>1
<1>2. ASSUME NEW n \in Nat, n \in I PROVE n + 1 \in I
  <2>1. PICK f : Upto(n, f)  BY <1>2
  <2> DEFINE g == [k \in 0 .. n + 1 |-> IF k <= n THEN f[k] ELSE next(f, k)]
  <2>2. \A k \in 0 .. n + 1 : g[k] = next(g, k)
    <3> SUFFICES ASSUME NEW k \in 0 .. n + 1 PROVE g[k] = next(g, k)  OBVIOUS
    <3>1. k # 0 => k - 1 \in 0 .. n /\ g[k - 1] = f[k - 1]  OBVIOUS
    <3>2. k <= n => k \in 0 .. n  OBVIOUS
    <3>3. k <= n => f[k] = next(f, k)  BY <2>1, <3>2
    <3>4. g[k] = next(f, k)  BY <3>3
    <3>5. QED  BY <3>1, <3>4
  <2>3. Upto(n + 1, g)
    <3>1. g = [k \in 0 .. n + 1 |-> g[k]]  OBVIOUS
    <3> HIDE DEF g, next
    <3> QED  BY <2>2, <3>1
  <2>4. n + 1 \in Nat  OBVIOUS
  <2> HIDE DEF g, Upto
  <2>5. QED  BY <2>3, <2>4
<1>3. \A n \in Nat : n \in I
  <2> HIDE DEF I
  <2> QED  BY <1>1, <1>2, SetInduction
<1>4. PICK f : Upto(MaxVarintLen, f)
  <2>1. MaxVarintLen \in Nat  BY CodecAssumption
  <2> HIDE DEF Upto
  <2> QED  BY <1>3, <2>1
<1>5. f = [k \in 0 .. MaxVarintLen |-> next(f, k)]
  <2> HIDE DEF next
  <2>1. QED  BY <1>4
<1>6. Pow128 = [k \in 0 .. MaxVarintLen |-> next(Pow128, k)]
  BY <1>5 DEF Pow128
<1>7. QED  BY <1>6

\* The powers are positive and grow.
LEMMA PowersGrow ==
  /\ Pow128[0] = 1 /\ Pow128[1] = 128
  /\ \A k \in 0 .. MaxVarintLen : Pow128[k] \in Nat \ {0}
  /\ \A k \in 0 .. MaxVarintLen : \A j \in 0 .. k : Pow128[j] <= Pow128[k]
<1>0. MaxVarintLen \in Nat \ {0, 1}  BY CodecAssumption
<1> DEFINE Good(n) == \A j \in 0 .. n : Pow128[j] \in Nat \ {0} /\ Pow128[j] <= Pow128[n]
           I == {n \in Nat : n <= MaxVarintLen => Good(n)}
<1>1. Pow128[0] = 1 /\ Pow128[1] = 128
  <2>1. 0 \in 0 .. MaxVarintLen /\ 1 \in 0 .. MaxVarintLen  BY <1>0
  <2>2. Pow128[0] = 1  BY <2>1, PowerUnfolds
  <2>3. Pow128[1] = 128 * Pow128[1 - 1]  BY <2>1, PowerUnfolds
  <2>4. QED  BY <2>2, <2>3
<1>2. 0 \in I
  <2>1. \A j \in 0 .. 0 : j = 0  OBVIOUS
  <2>2. QED  BY <1>1, <2>1
<1>3. ASSUME NEW n \in Nat, n \in I PROVE n + 1 \in I
  <2> SUFFICES ASSUME n + 1 <= MaxVarintLen PROVE Good(n + 1)  OBVIOUS
  <2>1. Good(n)  BY <1>3, <1>0
  <2>2. n + 1 \in 0 .. MaxVarintLen /\ n + 1 # 0 /\ (n + 1) - 1 = n  BY <1>0
  <2>3. Pow128[n + 1] = 128 * Pow128[n]  BY <2>2, PowerUnfolds
  <2>4. Pow128[n] \in Nat \ {0}  BY <2>1
  <2>5. Pow128[n + 1] \in Nat \ {0} /\ Pow128[n] <= Pow128[n + 1]  BY <2>3, <2>4
  <2>6. ASSUME NEW j \in 0 .. n + 1 PROVE Pow128[j] \in Nat \ {0} /\ Pow128[j] <= Pow128[n + 1]
    <3>1. CASE j = n + 1  BY <3>1, <2>5
    <3>2. CASE j \in 0 .. n  BY <3>2, <2>1, <2>4, <2>5
    <3>3. QED  BY <3>1, <3>2
  <2>7. QED  BY <2>6
<1>4. \A n \in Nat : n \in I
  <2> HIDE DEF I
  <2> QED  BY <1>2, <1>3, SetInduction
<1>5. \A n \in 0 .. MaxVarintLen : Good(n)  BY <1>4, <1>0
<1>6. \A n \in 0 .. MaxVarintLen : n \in 0 .. n  BY <1>0
<1>7. QED  BY <1>1, <1>5, <1>6

\* A quotient is zero exactly below the divisor; a group of seven bits.
LEMMA Quotients ==
  ASSUME NEW x \in Nat, NEW p \in Nat \ {0}
  PROVE  /\ (x \div p = 0) <=> (x < p)
         /\ (x \div p) \in Nat /\ ((x \div p) % 128) \in 0 .. 127
<1>1. (x \div p = 0) <=> (x < p)  BY SMT
<1>2. (x \div p) \in Nat  BY SMT
<1> DEFINE q == x \div p
<1> HIDE DEF q
<1>3. q \in Nat => (q % 128) \in 0 .. 127  OBVIOUS
<1>4. QED  BY <1>1, <1>2, <1>3 DEF q

\* The numbers that are encoded: as many bits as MaxVarintLen bytes hold.
LEMMA UintRange ==
  /\ MaxInt64 \in Nat /\ MaxUint64 \in Nat /\ MaxInt64 >= 127
  /\ MaxUint64 = 2 * MaxInt64 + 1 /\ MaxUint64 < Pow128[MaxVarintLen]
  /\ \A x \in -MaxInt64 - 1 .. MaxInt64 : AsUint(x) \in 0 .. MaxUint64
<1>0. MaxVarintLen \in Nat \ {0, 1}  BY CodecAssumption
<1> DEFINE p == Pow128[MaxVarintLen - 1]
<1>1. MaxVarintLen \in 0 .. MaxVarintLen /\ MaxVarintLen - 1 \in 0 .. MaxVarintLen /\ 1 \in 0 .. MaxVarintLen - 1
  BY <1>0
<1>2. p \in Nat \ {0}  BY <1>1, PowersGrow
<1>3. 128 <= p  BY <1>1, PowersGrow
<1>4. Pow128[MaxVarintLen] = 128 * p  BY <1>0, <1>1, PowerUnfolds
<1>5. MaxInt64 = p - 1  BY DEF MaxInt64
<1>6. MaxUint64 = 2 * MaxInt64 + 1  BY DEF MaxUint64
<1> HIDE DEF p
<1>7. MaxInt64 \in Nat /\ MaxUint64 \in Nat /\ MaxUint64 < 128 * p /\ MaxInt64 >= 127  BY <1>2, <1>3, <1>5, <1>6
<1>8. \A x \in -MaxInt64 - 1 .. MaxInt64 : AsUint(x) \in 0 .. MaxUint64
  BY <1>6, <1>7 DEF AsUint
<1>9. QED  BY <1>4, <1>6, <1>7, <1>8

\* A sum that is an int is the sum.
LEMMA PlusAdds ==
  ASSUME NEW a \in Nat, NEW b \in Nat, a + b <= MaxInt64
  PROVE  Plus(a, b) = a + b
<1> DEFINE c == a + b
           m == MaxUint64 + 1
<1>1. c \in Nat /\ m \in Nat /\ m > 0 /\ c < m  BY UintRange
<1>2. Plus(a, b) = AsInt(c % m)  BY DEF Plus
<1>3. ~(c > MaxInt64)  BY <1>1, UintRange
<1> HIDE DEF c, m
<1>4. c % m = c  BY <1>1
<1>5. Plus(a, b) = c  BY <1>2, <1>3, <1>4 DEF AsInt
<1>6. QED  BY <1>5 DEF c

\* Size counts the bytes that encodeVarint writes.
LEMMA VarintLength ==
  ASSUME NEW v \in 0 .. MaxUint64
  PROVE  /\ sovLen(v) \in 1 .. MaxVarintLen
         /\ encodeVarint(v) = [k \in 1 .. sovLen(v) |-> Group(v, sovLen(v) - k) + (IF k > 1 THEN 128 ELSE 0)]
         /\ v < Pow128[sovLen(v)]
         /\ v < 128 => sovLen(v) = 1
<1>0. MaxVarintLen \in Nat \ {0, 1}  BY CodecAssumption
<1> DEFINE T == {n \in 1 .. MaxVarintLen : v \div Pow128[n] = 0}
           n == sovLen(v)
           K == {k \in 1 .. MaxVarintLen - 1 : v >= Pow128[k]}
<1>1. v \in Nat /\ v < Pow128[MaxVarintLen]
  <2>1. MaxVarintLen \in 0 .. MaxVarintLen  BY <1>0
  <2>2. Pow128[MaxVarintLen] \in Nat  BY <2>1, PowersGrow
  <2>3. QED  BY <2>2, UintRange
<1>2. \A k \in 1 .. MaxVarintLen : Pow128[k] \in Nat \ {0} /\ (v \div Pow128[k] = 0 <=> v < Pow128[k])
  <2> SUFFICES ASSUME NEW k \in 1 .. MaxVarintLen
               PROVE  Pow128[k] \in Nat \ {0} /\ (v \div Pow128[k] = 0 <=> v < Pow128[k])
    OBVIOUS
  <2>1. k \in 0 .. MaxVarintLen  BY <1>0
  <2>2. Pow128[k] \in Nat \ {0}  BY <2>1, PowersGrow
  <2>3. QED  BY <2>2, <1>1, Quotients
<1>3. n = Min(T)  BY DEF sovLen
<1>4. T \subseteq Nat /\ T # {}
  <2>1. MaxVarintLen \in 1 .. MaxVarintLen  BY <1>0
  <2>2. MaxVarintLen \in T  BY <2>1, <1>1, <1>2
  <2>3. QED  BY <2>2
<1>5. n \in T /\ \A y \in T : n <= y
  <2> HIDE DEF T, n
  <2> QED  BY <1>3, <1>4, MinOfNaturals
<1> HIDE DEF n
<1>6. n \in 1 .. MaxVarintLen /\ v < Pow128[n]  BY <1>5, <1>2
<1>7. \A k \in 1 .. MaxVarintLen : k < n => v >= Pow128[k]
  <2> SUFFICES ASSUME NEW k \in 1 .. MaxVarintLen, k < n, v < Pow128[k] PROVE FALSE  BY <1>1, <1>2
  <2>1. k \in T  BY <1>2
  <2>2. QED  BY <2>1, <1>5, <1>6
<1>8. \A k \in 1 .. MaxVarintLen : k >= n => v < Pow128[k]
  <2> SUFFICES ASSUME NEW k \in 1 .. MaxVarintLen, k >= n PROVE v < Pow128[k]  OBVIOUS
  <2>1. n \in 0 .. k /\ k \in 0 .. MaxVarintLen /\ n \in 1 .. MaxVarintLen  BY <1>6, <1>0
  <2>2. Pow128[n] <= Pow128[k]  BY <2>1, PowersGrow
  <2>3. QED  BY <2>1, <2>2, <1>1, <1>2, <1>6
<1>9. K = 1 .. n - 1
  <2>1. ASSUME NEW k \in K PROVE k \in 1 .. n - 1
    <3>1. k \in 1 .. MaxVarintLen /\ k \in Int  BY <1>0
    <3>2. ~(k >= n)  BY <3>1, <1>8, <1>1, <1>2
    <3>3. QED  BY <3>1, <3>2, <1>6
  <2>2. ASSUME NEW k \in 1 .. n - 1 PROVE k \in K
    <3>1. k \in 1 .. MaxVarintLen - 1 /\ k \in 1 .. MaxVarintLen /\ k < n  BY <1>0, <1>6
    <3>2. QED  BY <3>1, <1>7
  <2> HIDE DEF K
  <2>3. QED  BY <2>1, <2>2
<1>10. Cardinality(K) = n - 1
  <2>1. Cardinality(1 .. n - 1) = n - 1
    <3>1. 1 \in Int /\ n - 1 \in Int /\ (1 <= n - 1 \/ n = 1)  BY <1>6
    <3>2. Cardinality(1 .. n - 1) = IF 1 > n - 1 THEN 0 ELSE n - 1 - 1 + 1  BY <3>1, FS_Interval
    <3>3. QED  BY <3>1, <3>2, <1>6
  <2>2. QED  BY <2>1, <1>9
<1>11. 1 + Cardinality(K) = n
  <2> HIDE DEF K
  <2> QED  BY <1>10, <1>6
<1>12. encodeVarint(v) = [k \in 1 .. n |-> Group(v, n - k) + (IF k > 1 THEN 128 ELSE 0)]
  BY <1>11 DEF encodeVarint
<1>13. v < 128 => n = 1
  <2>1. 1 \in 1 .. MaxVarintLen /\ Pow128[1] = 128  BY <1>0, PowersGrow
  <2>2. n > 1 => v >= 128  BY <2>1, <1>7
  <2>3. QED  BY <2>2, <1>6
<1>14. QED  BY <1>6, <1>12, <1>13 DEF n

\* The bytes of a varint, and the one byte of a number below 128, in either order of the groups.
LEMMA VarintBytes ==
  ASSUME NEW v \in 0 .. MaxUint64
  PROVE  /\ encodeVarint(v) \in Seq(0 .. 255) /\ Len(encodeVarint(v)) = sovLen(v) /\ sovLen(v) \in Nat \ {0}
         /\ v < 128 => encodeVarint(v) = <<v>> /\ GogoVarint(v) = <<v>>
<1>0. MaxVarintLen \in Nat \ {0, 1}  BY CodecAssumption
<1> DEFINE n == sovLen(v)
<1>1. n \in 1 .. MaxVarintLen /\ (v < 128 => n = 1)  BY VarintLength
<1>2. encodeVarint(v) = [k \in 1 .. n |-> Group(v, n - k) + (IF k > 1 THEN 128 ELSE 0)]  BY VarintLength
<1>3. GogoVarint(v) = [k \in 1 .. n |-> Group(v, k - 1) + (IF k < n THEN 128 ELSE 0)]  BY DEF GogoVarint
<1> HIDE DEF n
<1>4. v \in Nat  BY UintRange
<1>5. \A j \in 0 .. MaxVarintLen : Group(v, j) \in 0 .. 127
  <2> SUFFICES ASSUME NEW j \in 0 .. MaxVarintLen PROVE Group(v, j) \in 0 .. 127  OBVIOUS
  <2>1. Pow128[j] \in Nat \ {0}  BY PowersGrow
  <2>2. QED  BY <2>1, <1>4, Quotients DEF Group
<1>6. \A k \in 1 .. n : Group(v, n - k) + (IF k > 1 THEN 128 ELSE 0) \in 0 .. 255
  <2> SUFFICES ASSUME NEW k \in 1 .. n PROVE Group(v, n - k) + (IF k > 1 THEN 128 ELSE 0) \in 0 .. 255  OBVIOUS
  <2>1. n - k \in 0 .. MaxVarintLen  BY <1>1, <1>0
  <2>2. Group(v, n - k) \in 0 .. 127  BY <2>1, <1>5
  <2>3. QED  BY <2>2
<1>7. n \in Nat \ {0}  BY <1>1
<1>8. encodeVarint(v) \in [1 .. n -> 0 .. 255]  BY <1>2, <1>6, ZenonT(60)
<1>9. encodeVarint(v) \in Seq(0 .. 255) /\ Len(encodeVarint(v)) = n  BY <1>7, <1>8
<1>10. ASSUME v < 128 PROVE encodeVarint(v) = <<v>> /\ GogoVarint(v) = <<v>>
  <2>1. n = 1  BY <1>10, <1>1
  <2>2. Group(v, 0) = v
    <3>1. Group(v, 0) = ((v \div 1) % 128)  BY PowersGrow DEF Group
    <3>2. (v \div 1) = v  BY <1>4, SMT
    <3>3. (v % 128) = v  BY <1>4, <1>10
    <3>4. QED  BY <3>1, <3>2, <3>3
  <2> HIDE DEF Group
  <2>3. encodeVarint(v) = [k \in 1 .. 1 |-> v]
    <3>1. \A k \in 1 .. 1 : k = 1  OBVIOUS
    <3>2. \A k \in 1 .. 1 : Group(v, 1 - k) + (IF k > 1 THEN 128 ELSE 0) = v  BY <3>1, <2>2, <1>4
    <3>3. QED  BY <3>2, <2>1, <1>2
  <2>4. GogoVarint(v) = [k \in 1 .. 1 |-> v]
    <3>1. \A k \in 1 .. 1 : k = 1  OBVIOUS
    <3>2. \A k \in 1 .. 1 : Group(v, k - 1) + (IF k < 1 THEN 128 ELSE 0) = v  BY <3>1, <2>2, <1>4
    <3>3. QED  BY <3>2, <2>1, <1>3
  <2>5. <<v>> = [k \in 1 .. 1 |-> v]  OBVIOUS
  <2>6. QED  BY <2>3, <2>4, <2>5
<1>11. QED  BY <1>7, <1>9, <1>10 DEF n

-------------------------------------------------------------------------------
(* Messages and their bytes.                                                 *)

Kinds == {"string", "int64"}

\* Every type has up to three fields of the two kinds, and the descriptor says the same.
LEMMA TypeShapes ==
  ASSUME NEW t \in Types
  PROVE  /\ Schema[t] \in Seq(Kinds)
         /\ Len(Schema[t]) \in 0 .. 3 /\ DOMAIN Schema[t] = 1 .. Len(Schema[t])
         /\ DOMAIN buildFileDescriptor[t] = DOMAIN Schema[t]
         /\ \A f \in DOMAIN Schema[t] : buildFileDescriptor[t][f].type = Schema[t][f]
<1> USE DEF Schema, buildFileDescriptor, fieldString, fieldInt64, Kinds
<1>1. CASE t = "MapSet"  BY <1>1 DEF MsgCanaryMapSet
<1>2. CASE t = "MapSetResponse"  BY <1>2 DEF MsgCanaryMapSetResponse
<1>3. CASE t = "MapReadAndWrite"  BY <1>3 DEF MsgCanaryMapReadAndWrite
<1>4. CASE t = "MapReadAndWriteResp"  BY <1>4 DEF MsgCanaryMapReadAndWriteResponse
<1>5. CASE t = "BlockContextSet"  BY <1>5 DEF MsgCanaryBlockContextSet
<1>6. CASE t = "BlockContextSetResp"  BY <1>6 DEF MsgCanaryBlockContextSetResponse
<1>7. CASE t = "BlockContextRead"  BY <1>7 DEF MsgCanaryBlockContextRead
<1>8. CASE t = "BlockContextReadResp"  BY <1>8 DEF MsgCanaryBlockContextReadResponse
<1>9. QED  BY <1>1, <1>2, <1>3, <1>4, <1>5, <1>6, <1>7, <1>8 DEF Types

\* A message has a value of its kind in each field.
IsMessage(t, m) ==
  /\ t \in Types /\ Len(m) = Len(Schema[t]) /\ m = [f \in DOMAIN Schema[t] |-> m[f]]
  /\ \A f \in DOMAIN m : m[f] \in IF Schema[t][f] = "string" THEN Strings ELSE Ints

\* Every message that is marshalled is one.
LEMMA MessageShapes ==
  ASSUME NEW t \in Types, NEW m \in Messages(t)
  PROVE  IsMessage(t, m)
<1>1. PICK x \in ValuesOf(t, 1), y \in ValuesOf(t, 2), z \in ValuesOf(t, 3) :
         m = [f \in DOMAIN Schema[t] |-> <<x, y, z>>[f]]
  BY SMTT(60) DEF Messages
<1> DEFINE n == Len(Schema[t])
<1>2. n \in 0 .. 3 /\ DOMAIN Schema[t] = 1 .. n  BY TypeShapes
<1> HIDE DEF n
<1>3. ASSUME NEW f \in 1 .. n PROVE m[f] \in ValuesOf(t, f)
  <2>1. m[f] = <<x, y, z>>[f]  BY <1>1, <1>2
  <2>2. f = 1 \/ f = 2 \/ f = 3  BY <1>2
  <2>3. QED  BY <2>1, <2>2
<1>4. \A f \in 1 .. n : m[f] \in IF Schema[t][f] = "string" THEN Strings ELSE Ints
  BY <1>2, <1>3 DEF ValuesOf
<1>5. DOMAIN m = 1 .. n /\ m = [f \in DOMAIN Schema[t] |-> m[f]]  BY <1>1, <1>2
<1>6. Len(m) = n
  <2>1. m \in [1 .. n -> Strings \cup Ints]  BY <1>2, <1>4, <1>5
  <2>2. QED  BY <2>1, <1>2
<1>7. QED  BY <1>2, <1>4, <1>5, <1>6 DEF IsMessage, n

\* The bytes of field f, the bytes of the message, and the offset at which field f starts.
Bytes(t, m, f) == IF f \in DOMAIN m THEN FieldBytes(f, Schema[t][f], m[f]) ELSE <<>>
Wire(t, m) == (Bytes(t, m, 1) \o Bytes(t, m, 2)) \o Bytes(t, m, 3)
Off(t, m, f) ==
  (IF f > 1 THEN SizeOf(t, m, 1) ELSE 0) + (IF f > 2 THEN SizeOf(t, m, 2) ELSE 0)
    + (IF f > 3 THEN SizeOf(t, m, 3) ELSE 0)

\* The values that are encoded have a varint.
LEMMA EncodedValues ==
  ASSUME NEW t, NEW m, IsMessage(t, m), NEW f \in DOMAIN m
  PROVE  /\ Schema[t][f] = "string" => m[f] \in Seq(0 .. 255) /\ Len(m[f]) \in 0 .. MaxUint64 /\ Len(m[f]) <= MaxInt64
         /\ Schema[t][f] # "string" => m[f] \in -MaxInt64 - 1 .. MaxInt64 /\ AsUint(m[f]) \in 0 .. MaxUint64
<1>1. ASSUME Schema[t][f] = "string" PROVE m[f] \in Seq(0 .. 255) /\ Len(m[f]) \in 0 .. MaxUint64 /\ Len(m[f]) <= MaxInt64
  <2>1. m[f] \in Strings  BY <1>1 DEF IsMessage
  <2>2. m[f] \in Seq(0 .. 255) /\ Len(m[f]) <= MaxInt64  BY <2>1, CodecAssumption
  <2>3. Len(m[f]) \in Nat  BY <2>2
  <2>4. QED  BY <2>2, <2>3, UintRange
<1>2. ASSUME Schema[t][f] # "string" PROVE m[f] \in -MaxInt64 - 1 .. MaxInt64 /\ AsUint(m[f]) \in 0 .. MaxUint64
  <2>1. m[f] \in Ints  BY <1>2 DEF IsMessage
  <2>2. m[f] \in -MaxInt64 - 1 .. MaxInt64  BY <2>1, CodecAssumption
  <2>3. QED  BY <2>2, UintRange
<1>3. QED  BY <1>1, <1>2

\* Marshal writes as many bytes for a field as Size counts.
LEMMA FieldLength ==
  ASSUME NEW t, NEW m, IsMessage(t, m), NEW f \in 1 .. 3
  PROVE  /\ Bytes(t, m, f) \in Seq(0 .. 255) /\ Len(Bytes(t, m, f)) = SizeOf(t, m, f)
         /\ SizeOf(t, m, f) \in Nat
<1>1. CASE f \notin DOMAIN m \/ m[f] = ZeroOf(Schema[t][f])
  <2>1. Bytes(t, m, f) = <<>> /\ SizeOf(t, m, f) = 0  BY <1>1 DEF Bytes, SizeOf, FieldBytes, FieldSize
  <2>2. QED  BY <2>1
<1>2. CASE f \in DOMAIN m /\ m[f] # ZeroOf(Schema[t][f]) /\ Schema[t][f] = "string"
  <2> DEFINE e == encodeVarint(Len(m[f]))
             n == sovLen(Len(m[f]))
             x == m[f]
  <2>1. x \in Seq(0 .. 255) /\ Len(x) \in 0 .. MaxUint64  BY <1>2, EncodedValues
  <2>2. e \in Seq(0 .. 255) /\ Len(e) = n /\ n \in Nat  BY <2>1, VarintBytes
  <2>3. Bytes(t, m, f) = <<8 * f + 2>> \o e \o x  BY <1>2 DEF Bytes, FieldBytes
  <2>4. SizeOf(t, m, f) = 1 + n + Len(x)  BY <1>2 DEF SizeOf, FieldSize
  <2> HIDE DEF e, n, x
  <2>5. <<8 * f + 2>> \in Seq(0 .. 255) /\ Len(<<8 * f + 2>>) = 1  OBVIOUS
  <2>6. QED  BY <2>1, <2>2, <2>3, <2>4, <2>5
<1>3. CASE f \in DOMAIN m /\ m[f] # ZeroOf(Schema[t][f]) /\ Schema[t][f] # "string"
  <2> DEFINE e == encodeVarint(AsUint(m[f]))
             n == sovLen(AsUint(m[f]))
  <2>1. AsUint(m[f]) \in 0 .. MaxUint64  BY <1>3, EncodedValues
  <2>2. e \in Seq(0 .. 255) /\ Len(e) = n /\ n \in Nat  BY <2>1, VarintBytes
  <2>3. Bytes(t, m, f) = <<8 * f>> \o e  BY <1>3 DEF Bytes, FieldBytes
  <2>4. SizeOf(t, m, f) = 1 + n  BY <1>3 DEF SizeOf, FieldSize
  <2> HIDE DEF e, n
  <2>5. <<8 * f>> \in Seq(0 .. 255) /\ Len(<<8 * f>>) = 1  OBVIOUS
  <2>6. QED  BY <2>2, <2>3, <2>4, <2>5
<1>4. QED  BY <1>1, <1>2, <1>3

\* The bytes of field f are in the message's bytes at its offset.
Placed(t, m, f) ==
  /\ Off(t, m, f) \in 0 .. Size(t, m) /\ Off(t, m, f + 1) \in 0 .. Size(t, m)
  /\ Off(t, m, f + 1) = Off(t, m, f) + Len(Bytes(t, m, f))
  /\ \A k \in 1 .. Len(Bytes(t, m, f)) : Wire(t, m)[Off(t, m, f) + k] = Bytes(t, m, f)[k]

\* Where the fields are in the message's bytes.
LEMMA WireAt ==
  ASSUME NEW t, NEW m, IsMessage(t, m)
  PROVE  /\ Wire(t, m) \in Seq(0 .. 255) /\ Len(Wire(t, m)) = Size(t, m) /\ Size(t, m) = Off(t, m, 4)
         /\ Size(t, m) \in Nat /\ Off(t, m, 1) = 0
         /\ \A f \in 1 .. 3 : Placed(t, m, f)
<1> DEFINE a == Bytes(t, m, 1)
           b == Bytes(t, m, 2)
           c == Bytes(t, m, 3)
<1>1. a \in Seq(0 .. 255) /\ Len(a) = SizeOf(t, m, 1) /\ Len(a) \in Nat  BY FieldLength
<1>2. b \in Seq(0 .. 255) /\ Len(b) = SizeOf(t, m, 2) /\ Len(b) \in Nat  BY FieldLength
<1>3. c \in Seq(0 .. 255) /\ Len(c) = SizeOf(t, m, 3) /\ Len(c) \in Nat  BY FieldLength
<1>4. Wire(t, m) = (a \o b) \o c  BY DEF Wire
<1>5. Size(t, m) = Len(a) + Len(b) + Len(c)  BY <1>1, <1>2, <1>3 DEF Size
<1> HIDE DEF a, b, c
<1>6. /\ Off(t, m, 1) = 0 /\ Off(t, m, 2) = Len(a) /\ Off(t, m, 3) = Len(a) + Len(b)
      /\ Off(t, m, 4) = Len(a) + Len(b) + Len(c)
  <2>1. /\ Off(t, m, 1) = 0 + 0 + 0 /\ Off(t, m, 2) = SizeOf(t, m, 1) + 0 + 0
        /\ Off(t, m, 3) = SizeOf(t, m, 1) + SizeOf(t, m, 2) + 0
        /\ Off(t, m, 4) = SizeOf(t, m, 1) + SizeOf(t, m, 2) + SizeOf(t, m, 3)
    BY DEF Off
  <2>2. QED  BY <2>1, <1>1, <1>2, <1>3
<1>7. /\ a \o b \in Seq(0 .. 255) /\ Len(a \o b) = Len(a) + Len(b)
      /\ \A k \in 1 .. Len(a) : (a \o b)[k] = a[k]
      /\ \A k \in 1 .. Len(b) : (a \o b)[Len(a) + k] = b[k]
  BY <1>1, <1>2, SMTT(60)
<1> DEFINE d == a \o b
<1>8. d \in Seq(0 .. 255)  BY <1>7
<1> HIDE DEF d
<1>9. /\ d \o c \in Seq(0 .. 255) /\ Len(d \o c) = Len(d) + Len(c)
      /\ \A k \in 1 .. Len(d) : (d \o c)[k] = d[k]
      /\ \A k \in 1 .. Len(c) : (d \o c)[Len(d) + k] = c[k]
  BY <1>8, <1>3
<1>10. Wire(t, m) = d \o c /\ Len(d) = Len(a) + Len(b)  BY <1>4, <1>7 DEF d
<1>11. \A k \in 1 .. Len(a) : Wire(t, m)[0 + k] = a[k]
  BY <1>1, <1>2, <1>7, <1>9, <1>10 DEF d
<1>12. \A k \in 1 .. Len(b) : Wire(t, m)[Len(a) + k] = b[k]
  <2> SUFFICES ASSUME NEW k \in 1 .. Len(b) PROVE Wire(t, m)[Len(a) + k] = b[k]  OBVIOUS
  <2>1. Len(a) + k \in 1 .. Len(d)  BY <1>1, <1>2, <1>10
  <2>2. QED  BY <2>1, <1>7, <1>9, <1>10 DEF d
<1>13. \A k \in 1 .. Len(c) : Wire(t, m)[Len(a) + Len(b) + k] = c[k]  BY <1>9, <1>10
<1>14. \A f \in 1 .. 3 : f = 1 \/ f = 2 \/ f = 3  OBVIOUS
<1>15. Wire(t, m) \in Seq(0 .. 255) /\ Len(Wire(t, m)) = Size(t, m) /\ Size(t, m) = Off(t, m, 4) /\ Size(t, m) \in Nat
  BY <1>1, <1>2, <1>3, <1>5, <1>6, <1>9, <1>10
<1>16. ASSUME NEW f \in 1 .. 3
       PROVE  /\ Off(t, m, f) \in 0 .. Size(t, m) /\ Off(t, m, f + 1) \in 0 .. Size(t, m)
              /\ Off(t, m, f + 1) = Off(t, m, f) + Len(Bytes(t, m, f))
              /\ \A k \in 1 .. Len(Bytes(t, m, f)) : Wire(t, m)[Off(t, m, f) + k] = Bytes(t, m, f)[k]
  <2>1. CASE f = 1  BY <2>1, <1>1, <1>2, <1>3, <1>5, <1>6, <1>11 DEF a
  <2>2. CASE f = 2  BY <2>2, <1>1, <1>2, <1>3, <1>5, <1>6, <1>12 DEF b
  <2>3. CASE f = 3  BY <2>3, <1>1, <1>2, <1>3, <1>5, <1>6, <1>13 DEF c
  <2>4. QED  BY <2>1, <2>2, <2>3
<1>17. \A f \in 1 .. 3 : Placed(t, m, f)  BY <1>16 DEF Placed
<1>18. QED  BY <1>6, <1>15, <1>17

\* What a sequence over S is.
LEMMA SeqElements ==
  ASSUME NEW S, NEW s \in Seq(S)
  PROVE  Len(s) \in Nat /\ DOMAIN s = 1 .. Len(s) /\ \A k \in 1 .. Len(s) : s[k] \in S
OBVIOUS

\* A buffer of n bytes.
LEMMA EmptyBuffer ==
  ASSUME NEW n \in Nat
  PROVE  [k \in 1 .. n |-> 0] \in Seq(0 .. 255) /\ Len([k \in 1 .. n |-> 0]) = n
OBVIOUS

\* The concatenation of up to three sequences.
LEMMA FlattenThree ==
  ASSUME NEW S, NEW seqs \in Seq(Seq(S))
  PROVE  /\ Len(seqs) = 0 => FlattenSeq(seqs) = <<>>
         /\ Len(seqs) = 1 => FlattenSeq(seqs) = seqs[1]
         /\ Len(seqs) = 2 => FlattenSeq(seqs) = seqs[1] \o seqs[2]
         /\ Len(seqs) = 3 => FlattenSeq(seqs) = (seqs[1] \o seqs[2]) \o seqs[3]
<1>1. ASSUME Len(seqs) = 0 PROVE FlattenSeq(seqs) = <<>>
  BY <1>1 DEF FlattenSeq
<1>2. ASSUME Len(seqs) \in 1 .. 3
      PROVE  /\ Len(seqs) = 1 => FlattenSeq(seqs) = seqs[1]
             /\ Len(seqs) = 2 => FlattenSeq(seqs) = seqs[1] \o seqs[2]
             /\ Len(seqs) = 3 => FlattenSeq(seqs) = (seqs[1] \o seqs[2]) \o seqs[3]
  <2>1. seqs # <<>>
    <3>1. Len(<<>>) = 0  OBVIOUS
    <3>2. \A k \in 1 .. 3 : k # 0  OBVIOUS
    <3>3. QED  BY <3>1, <3>2, <1>2, Zenon
  <2>2. PICK g : PrefixConcats(seqs, g) /\ FlattenSeq(seqs) = g[Len(seqs)]  BY <2>1, FlattenByPrefixes
  <2> DEFINE n == Len(seqs)
  <2>3. \A k \in 1 .. n : (k = 1 => g[k] = seqs[k]) /\ (k # 1 => g[k] = g[k - 1] \o seqs[k])
    BY <2>2 DEF PrefixConcats
  <2>4. n \in 1 .. 3  BY <1>2
  <2> HIDE DEF n
  <2>5. g[1] = seqs[1]
    <3>1. 1 \in 1 .. n  BY <2>4
    <3>2. QED  BY <3>1, <2>3, Zenon
  <2>6. n >= 2 => g[2] = seqs[1] \o seqs[2]
    <3>1. n >= 2 => 2 \in 1 .. n /\ 2 # 1  BY <2>4
    <3>2. n >= 2 => g[2] = g[2 - 1] \o seqs[2]  BY <3>1, <2>3, Zenon
    <3>3. 2 - 1 = 1  OBVIOUS
    <3>4. QED  BY <3>2, <3>3, <2>5
  <2>7. n = 3 => g[3] = (seqs[1] \o seqs[2]) \o seqs[3]
    <3>1. n = 3 => 3 \in 1 .. n /\ 3 # 1  OBVIOUS
    <3>2. n = 3 => g[3] = g[3 - 1] \o seqs[3]  BY <3>1, <2>3, Zenon
    <3>3. 3 - 1 = 2 /\ (n = 3 => n >= 2)  OBVIOUS
    <3>4. QED  BY <3>2, <3>3, <2>6
  <2>8. FlattenSeq(seqs) = g[n]  BY <2>2 DEF n
  <2>9. n = 2 => n >= 2  OBVIOUS
  <2>10. QED  BY <2>5, <2>6, <2>7, <2>8, <2>9 DEF n
<1>3. /\ Len(seqs) = 1 => Len(seqs) \in 1 .. 3
      /\ Len(seqs) = 2 => Len(seqs) \in 1 .. 3
      /\ Len(seqs) = 3 => Len(seqs) \in 1 .. 3
  OBVIOUS
<1>4. QED  BY <1>1, <1>2, <1>3

\* When every number fits one byte, Marshal's bytes of a field are the descriptor's.
LEMMA GogoFieldBytes ==
  ASSUME IsMessage(typ, msg), OneGroup, NEW f \in DOMAIN msg
  PROVE  GogoField(f) = Bytes(typ, msg, f)
<1> DEFINE kind == Schema[typ][f]
           x == msg[f]
<1>1. typ \in Types /\ f \in DOMAIN Schema[typ]  BY DEF IsMessage
<1>2. buildFileDescriptor[typ][f].type = kind  BY <1>1, TypeShapes
<1>3. GogoField(f) = IF x = ZeroOf(kind) THEN <<>>
                     ELSE IF kind = "string" THEN <<8 * f + 2>> \o GogoVarint(Len(x)) \o x
                     ELSE <<8 * f>> \o GogoVarint(AsUint(x))
  BY <1>2 DEF GogoField
<1>4. Bytes(typ, msg, f) = IF x = ZeroOf(kind) THEN <<>>
                           ELSE IF kind = "string" THEN <<8 * f + 2>> \o encodeVarint(Len(x)) \o x
                           ELSE <<8 * f>> \o encodeVarint(AsUint(x))
  BY DEF Bytes, FieldBytes
<1>5. ASSUME kind = "string" PROVE GogoVarint(Len(x)) = encodeVarint(Len(x))
  <2>1. Len(x) \in 0 .. MaxUint64  BY <1>5, EncodedValues
  <2>2. Len(x) < 128  BY <1>5 DEF OneGroup
  <2>3. QED  BY <2>1, <2>2, VarintBytes
<1>6. ASSUME kind # "string" PROVE GogoVarint(AsUint(x)) = encodeVarint(AsUint(x))
  <2>1. AsUint(x) \in 0 .. MaxUint64  BY <1>6, EncodedValues
  <2>2. x \in 0 .. 127  BY <1>6 DEF OneGroup
  <2>3. AsUint(x) < 128  BY <2>2 DEF AsUint
  <2>4. QED  BY <2>1, <2>3, VarintBytes
<1> HIDE DEF kind, x
<1>7. QED  BY <1>3, <1>4, <1>5, <1>6

\* Then the whole message is.
LEMMA GogoWire ==
  ASSUME IsMessage(typ, msg), OneGroup
  PROVE  GogoBytes = Wire(typ, msg)
<1> DEFINE n == Len(Schema[typ])
           s == [f \in DOMAIN buildFileDescriptor[typ] |-> GogoField(f)]
           b(f) == Bytes(typ, msg, f)
<1>1. n \in 0 .. 3 /\ DOMAIN buildFileDescriptor[typ] = 1 .. n /\ DOMAIN msg = 1 .. n
  BY TypeShapes DEF IsMessage
<1>2. s = [f \in 1 .. n |-> b(f)]  BY <1>1, GogoFieldBytes
<1>3. \A f \in 1 .. 3 : b(f) \in Seq(0 .. 255)  BY FieldLength
<1>4. \A f \in 1 .. 3 : f \notin 1 .. n => b(f) = <<>>  BY <1>1 DEF Bytes
<1>5. GogoBytes = FlattenSeq(s)  BY DEF GogoBytes
<1>6. Wire(typ, msg) = (b(1) \o b(2)) \o b(3)  BY DEF Wire
<1> HIDE DEF n, s, b
<1>7. s \in Seq(Seq(0 .. 255)) /\ Len(s) = n
  <2>1. s \in [1 .. n -> Seq(0 .. 255)]  BY <1>1, <1>2, <1>3
  <2>2. QED  BY <2>1, <1>1
<1>8. b(1) \in Seq(0 .. 255) /\ b(2) \in Seq(0 .. 255) /\ b(3) \in Seq(0 .. 255)  BY <1>3
<1>9. \A y \in Seq(0 .. 255) : y \o <<>> = y /\ <<>> \o <<>> = <<>>  OBVIOUS
<1>10. CASE n = 0
  <2>1. b(1) = <<>> /\ b(2) = <<>> /\ b(3) = <<>>  BY <1>10, <1>4
  <2>2. FlattenSeq(s) = <<>>  BY <1>10, <1>7, FlattenThree
  <2>3. QED  BY <2>1, <2>2, <1>5, <1>6, <1>8, <1>9
<1>11. CASE n = 1
  <2>1. b(2) = <<>> /\ b(3) = <<>> /\ s[1] = b(1)  BY <1>11, <1>2, <1>4
  <2>2. FlattenSeq(s) = s[1]  BY <1>11, <1>7, FlattenThree
  <2>3. QED  BY <2>1, <2>2, <1>5, <1>6, <1>8, <1>9
<1>12. CASE n = 2
  <2>1. b(3) = <<>> /\ s[1] = b(1) /\ s[2] = b(2)  BY <1>12, <1>2, <1>4
  <2>2. FlattenSeq(s) = s[1] \o s[2]  BY <1>12, <1>7, FlattenThree
  <2>3. b(1) \o b(2) \in Seq(0 .. 255)  BY <1>8
  <2>4. QED  BY <2>1, <2>2, <2>3, <1>5, <1>6, <1>9
<1>13. CASE n = 3
  <2>1. s[1] = b(1) /\ s[2] = b(2) /\ s[3] = b(3)  BY <1>13, <1>2
  <2>2. FlattenSeq(s) = (s[1] \o s[2]) \o s[3]  BY <1>13, <1>7, FlattenThree
  <2>3. QED  BY <2>1, <2>2, <1>5, <1>6
<1>14. QED  BY <1>1, <1>10, <1>11, <1>12, <1>13

-------------------------------------------------------------------------------
(* Marshal.                                                                  *)

\* What Marshal has written: the fields above todo, each at its offset from the front, so that
\* nothing is left below the first field.
Written ==
  /\ todo \in 0 .. 3 /\ todo <= Len(msg) /\ i = Off(typ, msg, todo + 1)
  /\ dAtA \in Seq(0 .. 255) /\ Len(dAtA) = Size(typ, msg)
  /\ \A k \in i + 1 .. Size(typ, msg) : dAtA[k] = Wire(typ, msg)[k]

EncInv ==
  /\ pc \in {"idle", "marshal", "sent", "unmarshal", "done", "error", "panic"}
  /\ pc = "idle" => i = 0
  /\ pc # "idle" => IsMessage(typ, msg)
  /\ pc = "marshal" => Written
  /\ pc \notin {"idle", "marshal"} => i = 0 /\ dAtA = Wire(typ, msg)

\* Marshal starts with a buffer of the message's size.
LEMMA MarshalStarts ==
  ASSUME NEW t \in Types, NEW m \in Messages(t), Marshal(t, m)
  PROVE  EncInv'
<1>1. IsMessage(t, m)  BY MessageShapes
<1> DEFINE n == Size(t, m)
<1>2. n \in Nat /\ n = Off(t, m, 4)  BY <1>1, WireAt
<1>3. Len(m) \in 0 .. 3 /\ DOMAIN m = 1 .. Len(m)
  BY <1>1, TypeShapes DEF IsMessage
<1>4. Off(t, m, Len(m) + 1) = n
  <2> DEFINE z(f) == SizeOf(t, m, f)
  <2>1. \A f \in 1 .. 3 : z(f) \in Nat  BY <1>1, FieldLength
  <2>2. \A f \in 1 .. 3 : f > Len(m) => z(f) = 0  BY <1>3 DEF SizeOf
  <2>3. /\ Off(t, m, Len(m) + 1) = (IF Len(m) + 1 > 1 THEN z(1) ELSE 0) + (IF Len(m) + 1 > 2 THEN z(2) ELSE 0)
                                     + (IF Len(m) + 1 > 3 THEN z(3) ELSE 0)
        /\ n = z(1) + z(2) + z(3)
    BY DEF Off, Size
  <2> HIDE DEF z, n
  <2>4. z(1) \in Nat /\ z(2) \in Nat /\ z(3) \in Nat  BY <2>1
  <2>5. (Len(m) < 1 => z(1) = 0) /\ (Len(m) < 2 => z(2) = 0) /\ (Len(m) < 3 => z(3) = 0)  BY <1>3, <2>2
  <2>6. QED  BY <1>3, <2>3, <2>4, <2>5
<1>5. typ' = t /\ msg' = m /\ i' = n /\ todo' = Len(m) /\ pc' = "marshal" /\ dAtA' = [k \in 1 .. n |-> 0]
  BY DEF Marshal
<1> HIDE DEF n
<1>6. dAtA' \in Seq(0 .. 255) /\ Len(dAtA') = n  BY <1>2, <1>5, EmptyBuffer
<1>7. n + 1 .. n = {}  BY <1>2
<1>8. Written'
  <2>1. Size(typ, msg)' = n  BY <1>5 DEF n
  <2>2. (todo \in 0 .. 3 /\ todo <= Len(msg))'  BY <1>3, <1>5
  <2>3. (i = Off(typ, msg, todo + 1))'  BY <1>4, <1>5
  <2>4. QED  BY <1>5, <1>6, <1>7, <2>1, <2>2, <2>3 DEF Written
<1>9. QED  BY <1>1, <1>5, <1>8 DEF EncInv

\* A field goes in below the ones written before and never below the buffer.
LEMMA MarshalFieldWrites ==
  ASSUME EncInv, MarshalField
  PROVE  EncInv' /\ pc' = "marshal"
<1> DEFINE n == Size(typ, msg)
           b == Bytes(typ, msg, todo)
           o == Off(typ, msg, todo)
<1>1. IsMessage(typ, msg) /\ Written /\ pc = "marshal" /\ todo > 0  BY DEF EncInv, MarshalField
<1>2. todo \in 1 .. 3 /\ todo \in DOMAIN msg
  <2>1. todo \in 1 .. 3 /\ todo <= Len(msg)  BY <1>1 DEF Written
  <2>2. DOMAIN msg = 1 .. Len(msg) /\ Len(msg) \in Nat  BY <1>1, TypeShapes DEF IsMessage
  <2>3. QED  BY <2>1, <2>2
<1>3. FieldBytes(todo, Schema[typ][todo], msg[todo]) = b  BY <1>2 DEF Bytes
<1>4. /\ n \in Nat /\ o \in 0 .. n /\ i = o + Len(b) /\ i \in 0 .. n
      /\ \A k \in 1 .. Len(b) : Wire(typ, msg)[o + k] = b[k]
  <2>1. /\ n \in Nat /\ o \in 0 .. n /\ Off(typ, msg, todo + 1) \in 0 .. n /\ Off(typ, msg, todo + 1) = o + Len(b)
        /\ \A k \in 1 .. Len(b) : Wire(typ, msg)[o + k] = b[k]
    <3>1. Size(typ, msg) \in Nat /\ Placed(typ, msg, todo)  BY <1>1, <1>2, WireAt
    <3>2. QED  BY <3>1 DEF Placed
  <2>2. i = Off(typ, msg, todo + 1)  BY <1>1 DEF Written
  <2>3. QED  BY <2>1, <2>2
<1>5. b \in Seq(0 .. 255) /\ Len(b) \in Nat  BY <1>1, <1>2, FieldLength
<1>6. /\ i' = i - Len(b) /\ todo' = todo - 1 /\ pc' = (IF i < Len(b) THEN "panic" ELSE pc)
      /\ dAtA' = [k \in DOMAIN dAtA |-> IF k \in i - Len(b) + 1 .. i THEN b[k - i + Len(b)] ELSE dAtA[k]]
      /\ typ' = typ /\ msg' = msg
  BY <1>3 DEF MarshalField
<1>7. dAtA \in Seq(0 .. 255) /\ Len(dAtA) = n /\ todo <= Len(msg) /\ \A k \in i + 1 .. n : dAtA[k] = Wire(typ, msg)[k]
  BY <1>1 DEF Written
<1>71. (i = Off(typ, msg, todo + 1))'
  <2>1. i - Len(b) = o  BY <1>4, <1>5
  <2>2. (todo - 1) + 1 = todo  BY <1>2
  <2>3. QED  BY <2>1, <2>2, <1>6
<1>72. Size(typ, msg)' = n /\ Wire(typ, msg)' = Wire(typ, msg)  BY <1>6
<1> HIDE DEF n, b, o
<1>8. pc' = "marshal" /\ i' = o  BY <1>1, <1>4, <1>5, <1>6
<1>9. DOMAIN dAtA = 1 .. n  BY <1>7
<1>10. dAtA' = [k \in 1 .. n |-> IF k \in o + 1 .. i THEN b[k - o] ELSE dAtA[k]]
  <2>1. i - Len(b) + 1 = o + 1  BY <1>4, <1>5
  <2>2. \A k \in 1 .. n : k - i + Len(b) = k - o  BY <1>4, <1>5
  <2>3. QED  BY <2>1, <2>2, <1>6, <1>9
<1>11. \A k \in 1 .. n : k \in o + 1 .. i => k - o \in 1 .. Len(b) /\ o + (k - o) = k  BY <1>4, <1>5
<1>12. dAtA' \in Seq(0 .. 255) /\ Len(dAtA') = n
  <2>1. \A k \in 1 .. n : dAtA[k] \in 0 .. 255  BY <1>7, SeqElements, ZenonT(60)
  <2>2. \A k \in 1 .. Len(b) : b[k] \in 0 .. 255  BY <1>5, SeqElements
  <2>3. dAtA' \in [1 .. n -> 0 .. 255]  BY <2>1, <2>2, <1>10, <1>11
  <2>4. QED  BY <2>3, <1>4
<1>13. \A k \in o + 1 .. n : dAtA'[k] = Wire(typ, msg)[k]
  <2> SUFFICES ASSUME NEW k \in o + 1 .. n PROVE dAtA'[k] = Wire(typ, msg)[k]  OBVIOUS
  <2>1. k \in 1 .. n  BY <1>4
  <2>2. CASE k \in o + 1 .. i
    <3>1. dAtA'[k] = b[k - o]  BY <2>1, <2>2, <1>10
    <3>2. k - o \in 1 .. Len(b) /\ o + (k - o) = k  BY <2>1, <2>2, <1>11
    <3>3. Wire(typ, msg)[o + (k - o)] = b[k - o]  BY <3>2, <1>4
    <3>4. QED  BY <3>1, <3>2, <3>3
  <2>3. CASE k \notin o + 1 .. i
    <3>1. k \in i + 1 .. n  BY <2>3, <1>4
    <3>2. QED  BY <3>1, <2>1, <2>3, <1>7, <1>10
  <2>4. QED  BY <2>2, <2>3
<1>14. (todo \in 0 .. 3 /\ todo <= Len(msg))'
  <2>1. Len(msg) \in Nat  BY <1>1, TypeShapes DEF IsMessage
  <2>2. QED  BY <2>1, <1>2, <1>6, <1>7
<1>15. Written'
  BY <1>71, <1>72, <1>8, <1>12, <1>13, <1>14 DEF Written
<1>16. IsMessage(typ, msg)'  BY <1>1, <1>6
<1>17. QED  BY <1>8, <1>15, <1>16 DEF EncInv

\* What Marshal returns is the whole buffer.
LEMMA MarshalReturnsWire ==
  ASSUME EncInv, MarshalReturns
  PROVE  EncInv'
<1> DEFINE n == Size(typ, msg)
<1>1. IsMessage(typ, msg) /\ Written /\ todo = 0  BY DEF EncInv, MarshalReturns
<1>2. n \in Nat /\ Off(typ, msg, 1) = 0 /\ Wire(typ, msg) \in Seq(0 .. 255) /\ Len(Wire(typ, msg)) = n  BY <1>1, WireAt
<1>3. i = 0
  <2>1. i = Off(typ, msg, 0 + 1)  BY <1>1 DEF Written
  <2>2. 0 + 1 = 1  OBVIOUS
  <2>3. QED  BY <2>1, <2>2, <1>2
<1>4. dAtA \in Seq(0 .. 255) /\ Len(dAtA) = n /\ \A k \in 0 + 1 .. n : dAtA[k] = Wire(typ, msg)[k]
  BY <1>1, <1>3 DEF Written
<1>5. dAtA = Wire(typ, msg)
  <2> HIDE DEF n
  <2>1. DOMAIN dAtA = 1 .. n /\ DOMAIN Wire(typ, msg) = 1 .. n  BY <1>2, <1>4
  <2>2. QED  BY <2>1, <1>2, <1>4
<1>6. dAtA' = SubSeq(dAtA, 1, Len(dAtA) - 0)  BY <1>3 DEF MarshalReturns
<1>7. dAtA' = dAtA  BY <1>4, <1>6
<1>8. typ' = typ /\ msg' = msg /\ i' = i /\ pc' = "sent"  BY DEF MarshalReturns
<1>9. IsMessage(typ, msg)' /\ Wire(typ, msg)' = Wire(typ, msg)  BY <1>1, <1>8
<1>10. QED  BY <1>3, <1>5, <1>7, <1>8, <1>9 DEF EncInv

\* Unmarshal leaves the sender's side alone.
LEMMA EncKept ==
  ASSUME EncInv, UNCHANGED enc, pc' = pc \/ (pc \in {"sent", "unmarshal"} /\ pc' \in {"unmarshal", "done", "error", "panic"})
  PROVE  EncInv'
<1>1. UNCHANGED <<typ, msg, dAtA, i, todo>>  BY DEF enc
<1>2. IsMessage(typ, msg)' = IsMessage(typ, msg) /\ Written' = Written /\ Wire(typ, msg)' = Wire(typ, msg)
  BY <1>1 DEF Written
<1> HIDE DEF Written, IsMessage, Wire
<1>3. QED  BY <1>1, <1>2 DEF EncInv

\* Every step keeps EncInv: Marshal starts, writes and returns, Unmarshal leaves it alone.
LEMMA EncInductive ==
  ASSUME EncInv, [Next]_vars
  PROVE  EncInv'
<1>1. ASSUME NEW t \in Types, NEW m \in Messages(t), Marshal(t, m) PROVE EncInv'  BY <1>1, MarshalStarts
<1>2. CASE MarshalField  BY <1>2, MarshalFieldWrites
<1>3. CASE MarshalReturns  BY <1>3, MarshalReturnsWire
<1>4. ASSUME NEW p, NEW extra, NEW cut, Unmarshal(p, extra, cut) PROVE EncInv'
  BY <1>4, EncKept DEF Unmarshal
<1>5. CASE DecodeField  BY <1>5, EncKept DEF DecodeField
<1>6. CASE SkipUnknown  BY <1>6, EncKept DEF SkipUnknown
<1>7. CASE UnmarshalFails
  <2>1. UNCHANGED enc /\ pc = "unmarshal" /\ pc' \in {"panic", "error"}  BY <1>7 DEF UnmarshalFails, InLoop
  <2>2. QED  BY <2>1, EncKept
<1>8. CASE UnmarshalReturns  BY <1>8, EncKept DEF UnmarshalReturns
<1>9. CASE Done \/ UNCHANGED vars  BY <1>9, EncKept DEF Done, vars
<1>10. QED  BY <1>1, <1>2, <1>3, <1>4, <1>5, <1>6, <1>7, <1>8, <1>9 DEF Next

\* Marshal keeps to its buffer in every reachable state.
LEMMA EncAlways == Spec => []EncInv
<1>1. Init => EncInv  BY DEF Init, EncInv
<1>2. EncInv /\ [Next]_vars => EncInv'  BY EncInductive
<1>3. QED  BY <1>1, <1>2, PTL DEF Spec

\* BufferExact always holds: for every message, the buffer that Marshal allocates from Size() is
\* filled to its first byte and no further, and while every number fits one varint byte it holds
\* the bytes that the published descriptor calls for.
THEOREM BufferIsExact == Spec => []BufferExact
<1>1. EncInv => BufferExact
  <2> SUFFICES ASSUME EncInv PROVE BufferExact  OBVIOUS
  <2>1. i >= 0
    <3>1. CASE pc = "idle"  BY <3>1 DEF EncInv
    <3>2. CASE pc = "marshal"
      <4>1. IsMessage(typ, msg) /\ todo \in 0 .. 3 /\ i = Off(typ, msg, todo + 1)  BY <3>2 DEF EncInv, Written
      <4>2. \A f \in 1 .. 3 : Off(typ, msg, f) >= 0
        <5>1. Size(typ, msg) \in Nat /\ \A f \in 1 .. 3 : Off(typ, msg, f) \in 0 .. Size(typ, msg)  BY <4>1, WireAt DEF Placed
        <5>2. QED  BY <5>1
      <4>3. Off(typ, msg, 4) >= 0  BY <4>1, WireAt
      <4>4. todo + 1 = 4 \/ todo + 1 \in 1 .. 3  BY <4>1
      <4>5. QED  BY <4>1, <4>2, <4>3, <4>4
    <3>3. CASE pc \notin {"idle", "marshal"}  BY <3>3 DEF EncInv
    <3>4. QED  BY <3>1, <3>2, <3>3
  <2>2. pc = "sent" => i = 0 /\ dAtA = Wire(typ, msg) /\ IsMessage(typ, msg)  BY DEF EncInv
  <2>3. QED  BY <2>1, <2>2, GogoWire DEF BufferExact
<1>2. QED  BY <1>1, EncAlways, PTL

-------------------------------------------------------------------------------
(* Unmarshal of messages whose numbers fit one byte.                         *)

\* Unmarshal's bytes are those of the message and then x, with fields at the positions Q, or a
\* prefix of that.
Sent(x, Q) ==
  /\ x \in Seq(0 .. 255) /\ FieldBounds(x, Q) /\ Size(typ, msg) + Len(x) <= MaxInt64
  /\ input \in Seq(0 .. 255) /\ Len(input) <= Size(typ, msg) + Len(x)
  /\ \A k \in 1 .. Len(input) :
       input[k] = IF k <= Size(typ, msg) THEN Wire(typ, msg)[k] ELSE x[k - Size(typ, msg)]
  /\ whole => Len(input) >= Size(typ, msg)

\* Unmarshal is at the start of a field of the message, or past the message and, unless it has
\* read everything, at the start of an unknown field.
InMessage == iNdEx <= Len(input) /\ \E f \in 1 .. 4 : iNdEx = Off(typ, msg, f)
PastMessage(Q) ==
  /\ Len(input) >= Size(typ, msg) /\ iNdEx >= Size(typ, msg)
  /\ iNdEx >= Len(input) \/ iNdEx - Size(typ, msg) \in Q

\* The receiver has the non-zero fields that end at or before iNdEx.
Held(f) ==
  out[f] = IF msg[f] # ZeroOf(Schema[typ][f]) /\ Off(typ, msg, f + 1) <= iNdEx THEN msg[f] ELSE prior[f]
Received == out = [f \in DOMAIN msg |-> out[f]] /\ \A f \in DOMAIN msg : Held(f)

\* A turn consumes a byte or more.
Counted == iNdEx \in Nat /\ turns \in Nat /\ turns <= iNdEx /\ turns <= Len(input)

Decoding ==
  /\ \E x \in Unknown \cup {<<>>} : \E Q \in SUBSET (0 .. Len(x)) : Sent(x, Q) /\ (InMessage \/ PastMessage(Q))
  /\ Received /\ Counted
  /\ pc = "done" => iNdEx >= Len(input) \/ Schema[typ] = <<>>
  /\ pc # "panic" /\ (whole => pc # "error")

DecInv ==
  /\ pc \in {"idle", "marshal", "sent"} => turns = 0 /\ input = <<>>
  /\ pc \notin {"idle", "marshal", "sent"} => (OneGroup => Decoding)

\* Numbers below 128.
LEMMA SmallNumbers ==
  \A c \in 0 .. 127 : (c % 128) = c /\ 0 + c * 1 = c
OBVIOUS

\* A number of one byte, and no number.
LEMMA OneByteUvarint ==
  ASSUME NEW b \in Seq(0 .. 255), Len(b) > 0, b[1] < 128
  PROVE  Uvarint(b) = [v |-> b[1], n |-> 1]
<1>0. MaxVarintLen \in Nat \ {0, 1}  BY CodecAssumption
<1> DEFINE ends == {k \in 1 .. Len(b) : b[k] < 128}
           n == Min(ends)
           low[k \in 0 .. n] == IF k = 0 THEN 0 ELSE low[k - 1] + (b[k] % 128) * Pow128[k - 1]
<1>1. Len(b) \in Nat /\ b[1] \in 0 .. 127
  <2>1. Len(b) \in Nat /\ \A k \in 1 .. Len(b) : b[k] \in 0 .. 255  BY SeqElements
  <2>2. 1 \in 1 .. Len(b)  BY <2>1
  <2>3. b[1] \in 0 .. 255  BY <2>1, <2>2
  <2> DEFINE c == b[1]
  <2>4. c < 128 /\ c \in 0 .. 255  BY <2>3
  <2> HIDE DEF c
  <2>5. c \in 0 .. 127  BY <2>4
  <2>6. QED  BY <2>1, <2>5 DEF c
<1>2. 1 \in ends  BY <1>1
<1>3. n = 1
  <2>1. ends \subseteq Nat /\ ends # {}  BY <1>2, <1>1
  <2>2. n \in ends /\ \A y \in ends : n <= y
    <3> HIDE DEF ends
    <3> QED  BY <2>1, MinOfNaturals
  <2>3. \A y \in ends : y \in Nat /\ y >= 1  BY <1>1
  <2> HIDE DEF ends, n
  <2>4. QED  BY <2>2, <2>3, <1>2
<1>4. low[1] = b[1]
  <2> DEFINE next(f, k) == IF k = 0 THEN 0 ELSE f[k - 1] + (b[k] % 128) * Pow128[k - 1]
             g == [k \in 0 .. 1 |-> IF k = 0 THEN 0 ELSE b[1]]
  <2>1. Pow128[0] = 1 /\ (b[1] % 128) = b[1]
    BY <1>1, PowersGrow, SmallNumbers
  <2>2. \A k \in 0 .. 1 : k = 0 \/ k = 1  OBVIOUS
  <2>3. next(g, 0) = 0 /\ next(g, 1) = b[1]
    <3>1. g[0] = 0 /\ 1 - 1 = 0  OBVIOUS
    <3>2. next(g, 1) = g[0] + (b[1] % 128) * Pow128[0]  BY <3>1
    <3> HIDE DEF g
    <3>3. next(g, 1) = b[1]
      <4> HIDE DEF next
      <4> QED  BY <3>1, <3>2, <2>1, SmallNumbers, <1>1
    <3>4. next(g, 0) = 0  OBVIOUS
    <3>5. QED  BY <3>3, <3>4
  <2>4. g = [k \in 0 .. 1 |-> next(g, k)]
    <3>1. g[0] = 0 /\ g[1] = b[1] /\ g = [k \in 0 .. 1 |-> g[k]]  OBVIOUS
    <3> HIDE DEF g, next
    <3>2. \A k \in 0 .. 1 : g[k] = next(g, k)  BY <3>1, <2>2, <2>3
    <3>3. QED  BY <3>1, <3>2
  <2>5. low = CHOOSE f : f = [k \in 0 .. n |-> next(f, k)]  BY DEF low
  <2> HIDE DEF g, n, low
  <2>6. g = [k \in 0 .. n |-> next(g, k)]  BY <2>4, <1>3
  <2>7. low = [k \in 0 .. n |-> next(low, k)]  BY <2>5, <2>6, ZenonT(60)
  <2>8. low[0] = 0 /\ low[1] = low[0] + (b[1] % 128) * Pow128[0]
    <3>1. 0 \in 0 .. n /\ 1 \in 0 .. n /\ 1 - 1 = 0 /\ 1 # 0  BY <1>3
    <3>2. \A k \in 0 .. n : low[k] = next(low, k)  BY <2>7
    <3>3. low[0] = next(low, 0) /\ low[1] = next(low, 1)  BY <3>1, <3>2
    <3>4. QED  BY <3>1, <3>3
  <2>9. QED  BY <2>1, SmallNumbers, <2>8, <1>1
<1>5. Uvarint(b) = IF ends = {} \/ n > MaxVarintLen \/ (n = MaxVarintLen /\ b[n] > 1)
                     THEN [v |-> 0, n |-> 0] ELSE [v |-> low[n], n |-> n]
  BY DEF Uvarint
<1>6. ~(ends = {} \/ n > MaxVarintLen \/ (n = MaxVarintLen /\ b[n] > 1))
  <2> HIDE DEF ends, n
  <2> QED  BY <1>0, <1>2, <1>3
<1> HIDE DEF ends, n, low
<1>7. QED  BY <1>3, <1>4, <1>5, <1>6

\* No bytes are no number.
LEMMA NoUvarint == Uvarint(<<>>) = [v |-> 0, n |-> 0]
<1>1. {k \in 1 .. Len(<<>>) : <<>>[k] < 128} = {}  OBVIOUS
<1>2. QED  BY <1>1 DEF Uvarint

\* The bytes from a position on.
LEMMA FromAt ==
  ASSUME NEW b \in Seq(0 .. 255), NEW p \in Nat
  PROVE  /\ p < Len(b) => /\ From(b, p) \in Seq(0 .. 255) /\ Len(From(b, p)) > 0
                          /\ From(b, p)[1] = b[p + 1] /\ b[p + 1] \in 0 .. 255
         /\ p >= Len(b) => From(b, p) = <<>>
<1>1. Len(b) \in Nat /\ \A k \in 1 .. Len(b) : b[k] \in 0 .. 255  BY SeqElements
<1>2. ASSUME p < Len(b)
      PROVE  /\ From(b, p) \in Seq(0 .. 255) /\ Len(From(b, p)) > 0
             /\ From(b, p)[1] = b[p + 1] /\ b[p + 1] \in 0 .. 255
  <2>1. p + 1 \in 1 .. Len(b)  BY <1>1, <1>2
  <2>2. QED  BY <1>1, <1>2, <2>1 DEF From
<1>3. ASSUME p >= Len(b) PROVE From(b, p) = <<>>
  BY <1>1, <1>3 DEF From
<1>4. QED  BY <1>2, <1>3

\* What the loop sees at a tag of one byte.
LEMMA FieldAtTag ==
  ASSUME input \in Seq(0 .. 255), iNdEx \in Nat, iNdEx < Len(input), input[iNdEx + 1] < 128
  PROVE  /\ Field.n = 1 /\ Field.fieldNum = input[iNdEx + 1] \div 8 /\ Field.wireType = (input[iNdEx + 1] % 8)
         /\ Field.kind = (IF Field.fieldNum \in DOMAIN Schema[typ] THEN Schema[typ][Field.fieldNum] ELSE "unknown")
         /\ Field.body = iNdEx + 1 /\ Field.number = Uvarint(From(input, iNdEx + 1))
         /\ Field.content = iNdEx + 1 + Field.number.n
         /\ Field.end = StringEnd(Field.content, Field.number.v)
<1> DEFINE b == From(input, iNdEx)
           tag == decodeTag(b)
<1>1. b \in Seq(0 .. 255) /\ Len(b) > 0 /\ b[1] = input[iNdEx + 1]  BY FromAt
<1>2. Uvarint(b) = [v |-> input[iNdEx + 1], n |-> 1]
  <2> HIDE DEF b
  <2> QED  BY <1>1, OneByteUvarint
<1>3. tag = [fieldNum |-> input[iNdEx + 1] \div 8, wireType |-> input[iNdEx + 1] % 8, n |-> 1]
  BY <1>2 DEF decodeTag
<1>4. tag.n = 1 /\ tag.fieldNum = input[iNdEx + 1] \div 8 /\ tag.wireType = (input[iNdEx + 1] % 8)
  BY <1>3
<1> HIDE DEF tag
<1> DEFINE num == Uvarint(From(input, iNdEx + 1))
<1>5. Field = [n |-> tag.n, fieldNum |-> tag.fieldNum, wireType |-> tag.wireType,
               kind |-> IF tag.fieldNum \in DOMAIN Schema[typ] THEN Schema[typ][tag.fieldNum] ELSE "unknown",
               number |-> num, body |-> iNdEx + 1, content |-> iNdEx + 1 + num.n,
               end |-> StringEnd(iNdEx + 1 + num.n, num.v)]
  BY <1>4 DEF Field, tag
<1> HIDE DEF num, b
<1>6. QED  BY <1>4, <1>5 DEF num

\* The number after the tag: one byte, or nothing because the bytes end.
LEMMA NumberAt ==
  ASSUME input \in Seq(0 .. 255), iNdEx \in Nat, iNdEx < Len(input)
  PROVE  /\ iNdEx + 1 >= Len(input) => Uvarint(From(input, iNdEx + 1)) = [v |-> 0, n |-> 0]
         /\ iNdEx + 1 < Len(input) /\ input[iNdEx + 2] < 128
              => Uvarint(From(input, iNdEx + 1)) = [v |-> input[iNdEx + 2], n |-> 1]
<1>1. iNdEx + 1 \in Nat /\ (iNdEx + 1) + 1 = iNdEx + 2  OBVIOUS
<1>2. ASSUME iNdEx + 1 >= Len(input) PROVE Uvarint(From(input, iNdEx + 1)) = [v |-> 0, n |-> 0]
  BY <1>1, <1>2, FromAt, NoUvarint
<1>3. ASSUME iNdEx + 1 < Len(input), input[iNdEx + 2] < 128
      PROVE  Uvarint(From(input, iNdEx + 1)) = [v |-> input[iNdEx + 2], n |-> 1]
  <2> DEFINE b == From(input, iNdEx + 1)
  <2>1. b \in Seq(0 .. 255) /\ Len(b) > 0 /\ b[1] = input[iNdEx + 2]  BY <1>1, <1>3, FromAt
  <2> HIDE DEF b
  <2>2. Uvarint(b) = [v |-> input[iNdEx + 2], n |-> 1]  BY <2>1, <1>3, OneByteUvarint
  <2>3. QED  BY <2>2 DEF b
<1>4. QED  BY <1>2, <1>3

\* The offsets grow with the fields, and a field without bytes ends where it starts.
LEMMA OffsetsGrow ==
  ASSUME NEW t, NEW m, IsMessage(t, m)
  PROVE  /\ \A f \in 1 .. 4 : Off(t, m, f) \in Nat /\ Off(t, m, f) <= Size(t, m)
         /\ \A f, g \in 1 .. 4 : f <= g => Off(t, m, f) <= Off(t, m, g)
         /\ Off(t, m, 1) = 0 /\ Off(t, m, 4) = Size(t, m) /\ Size(t, m) \in Nat
<1> DEFINE o(f) == Off(t, m, f)
           z(f) == SizeOf(t, m, f)
<1>1. \A f \in 1 .. 3 : z(f) \in Nat  BY FieldLength
<1>2. o(1) = 0 + 0 + 0 /\ o(2) = z(1) + 0 + 0 /\ o(3) = z(1) + z(2) + 0 /\ o(4) = z(1) + z(2) + z(3)  BY DEF Off
<1>3. Size(t, m) = z(1) + z(2) + z(3)  BY DEF Size
<1> HIDE DEF o, z
<1>4. z(1) \in Nat /\ z(2) \in Nat /\ z(3) \in Nat  BY <1>1
<1>5. o(1) = 0 /\ o(2) = z(1) /\ o(3) = z(1) + z(2) /\ o(4) = z(1) + z(2) + z(3)  BY <1>2, <1>4
<1>6. \A f \in 1 .. 4 : f = 1 \/ f = 2 \/ f = 3 \/ f = 4  OBVIOUS
<1>7. \A f \in 1 .. 4 : o(f) \in Nat /\ o(f) <= Size(t, m)  BY <1>3, <1>4, <1>5, <1>6
<1>8. \A f, g \in 1 .. 4 : f <= g => o(f) <= o(g)  BY <1>4, <1>5, <1>6
<1>9. QED  BY <1>3, <1>4, <1>5, <1>7, <1>8 DEF o

\* Below the end of the message, a field with bytes starts where one starts.
LEMMA FieldStarts ==
  ASSUME NEW t, NEW m, IsMessage(t, m), NEW g \in 1 .. 4, Off(t, m, g) < Size(t, m)
  PROVE  \E f \in 1 .. 3 : /\ f \in DOMAIN m /\ m[f] # ZeroOf(Schema[t][f]) /\ Off(t, m, f) = Off(t, m, g)
<1> DEFINE o(f) == Off(t, m, f)
           z(f) == SizeOf(t, m, f)
<1>1. \A f \in 1 .. 3 : z(f) \in Nat  BY FieldLength
<1>2. o(1) = 0 + 0 + 0 /\ o(2) = z(1) + 0 + 0 /\ o(3) = z(1) + z(2) + 0 /\ o(4) = z(1) + z(2) + z(3)  BY DEF Off
<1>3. Size(t, m) = z(1) + z(2) + z(3) /\ o(g) < Size(t, m)  BY DEF Size
<1>4. \A f \in 1 .. 3 : z(f) # 0 => f \in DOMAIN m /\ m[f] # ZeroOf(Schema[t][f])  BY DEF SizeOf, FieldSize
<1> HIDE DEF o, z
<1>5. z(1) \in Nat /\ z(2) \in Nat /\ z(3) \in Nat  BY <1>1
<1>6. g = 1 \/ g = 2 \/ g = 3 \/ g = 4  OBVIOUS
<1>7. \/ z(1) # 0 /\ o(1) = o(g)
      \/ z(2) # 0 /\ o(2) = o(g)
      \/ z(3) # 0 /\ o(3) = o(g)
  BY <1>2, <1>3, <1>5, <1>6
<1>8. PICK f \in 1 .. 3 : z(f) # 0 /\ o(f) = o(g)
  <2>1. 1 \in 1 .. 3 /\ 2 \in 1 .. 3 /\ 3 \in 1 .. 3  OBVIOUS
  <2>2. QED  BY <1>7, <2>1
<1>9. QED  BY <1>4, <1>8 DEF o

\* The elements of a concatenation.
LEMMA ConcatAt ==
  ASSUME NEW S, NEW s \in Seq(S), NEW t \in Seq(S)
  PROVE  /\ s \o t \in Seq(S) /\ Len(s \o t) = Len(s) + Len(t)
         /\ \A k \in 1 .. Len(s) : (s \o t)[k] = s[k]
         /\ \A k \in 1 .. Len(t) : (s \o t)[Len(s) + k] = t[k]
OBVIOUS

\* Two bytes before a sequence.
LEMMA TwoBefore ==
  ASSUME NEW S, NEW x \in Seq(S), NEW a \in S, NEW c \in S
  PROVE  /\ Len((<<a>> \o <<c>>) \o x) = Len(x) + 2
         /\ ((<<a>> \o <<c>>) \o x)[1] = a /\ ((<<a>> \o <<c>>) \o x)[2] = c
         /\ \A k \in 1 .. Len(x) : ((<<a>> \o <<c>>) \o x)[k + 2] = x[k]
<1> DEFINE h == <<a>> \o <<c>>
<1>0. h \in Seq(S)  OBVIOUS
<1>1. Len(h) = 2 /\ h[1] = a /\ h[2] = c  OBVIOUS
<1> HIDE DEF h
<1>2. /\ Len(h \o x) = Len(h) + Len(x) /\ \A k \in 1 .. Len(h) : (h \o x)[k] = h[k]
      /\ \A k \in 1 .. Len(x) : (h \o x)[Len(h) + k] = x[k]
  BY <1>0, ConcatAt
<1>3. Len(x) \in Nat /\ \A k \in 1 .. Len(x) : 2 + k = k + 2  OBVIOUS
<1>4. Len(h \o x) = Len(x) + 2  BY <1>1, <1>2, <1>3
<1>5. (h \o x)[1] = a /\ (h \o x)[2] = c
  <2>1. 1 \in 1 .. 2 /\ 2 \in 1 .. 2  OBVIOUS
  <2>2. QED  BY <2>1, <1>1, <1>2
<1>6. \A k \in 1 .. Len(x) : (h \o x)[k + 2] = x[k]  BY <1>1, <1>2, <1>3
<1>7. QED  BY <1>4, <1>5, <1>6 DEF h

\* The bytes of a field whose number fits one byte: the tag, the number, and a string.
LEMMA OneGroupBytes ==
  ASSUME IsMessage(typ, msg), OneGroup, NEW f \in DOMAIN msg, f \in 1 .. 3, msg[f] # ZeroOf(Schema[typ][f])
  PROVE  /\ Schema[typ][f] = "string" =>
              LET b == Bytes(typ, msg, f)
              IN  /\ msg[f] \in Seq(0 .. 255) /\ Len(msg[f]) \in 0 .. 127
                  /\ Len(b) = Len(msg[f]) + 2 /\ b[1] = 8 * f + 2 /\ b[2] = Len(msg[f])
                  /\ \A k \in 1 .. Len(msg[f]) : b[k + 2] = msg[f][k]
         /\ Schema[typ][f] # "string" =>
              LET b == Bytes(typ, msg, f)
              IN  msg[f] \in 0 .. 127 /\ Len(b) = 2 /\ b[1] = 8 * f /\ b[2] = msg[f]
<1> DEFINE b == Bytes(typ, msg, f)
           x == msg[f]
<1>1. ASSUME Schema[typ][f] = "string"
      PROVE  /\ x \in Seq(0 .. 255) /\ Len(x) \in 0 .. 127
             /\ Len(b) = Len(x) + 2 /\ b[1] = 8 * f + 2 /\ b[2] = Len(x)
             /\ \A k \in 1 .. Len(x) : b[k + 2] = x[k]
  <2>1. x \in Seq(0 .. 255) /\ Len(x) \in 0 .. MaxUint64 /\ Len(x) < 128
    BY <1>1, EncodedValues DEF OneGroup
  <2>2. encodeVarint(Len(x)) = <<Len(x)>>  BY <2>1, VarintBytes
  <2>3. b = <<8 * f + 2>> \o <<Len(x)>> \o x  BY <1>1, <2>2 DEF Bytes, FieldBytes
  <2> HIDE DEF b, x
  <2>4. Len(x) \in 0 .. 127
    <3> DEFINE n == Len(x)
    <3>1. n \in Nat /\ n < 128  BY <2>1
    <3> HIDE DEF n
    <3>2. n \in 0 .. 127  BY <3>1
    <3>3. QED  BY <3>2 DEF n
  <2>5. 8 * f + 2 \in 0 .. 255 /\ \A n \in 0 .. 127 : n \in 0 .. 255
    <3>1. f = 1 \/ f = 2 \/ f = 3  OBVIOUS
    <3>2. QED  BY <3>1
  <2>6. Len(x) \in 0 .. 255  BY <2>4, <2>5, SMTT(60)
  <2>7. /\ Len(b) = Len(x) + 2 /\ b[1] = 8 * f + 2 /\ b[2] = Len(x)
        /\ \A k \in 1 .. Len(x) : b[k + 2] = x[k]
    BY <2>1, <2>3, <2>5, <2>6, TwoBefore
  <2>8. QED  BY <2>1, <2>4, <2>7
<1>2. ASSUME Schema[typ][f] # "string"
      PROVE  x \in 0 .. 127 /\ Len(b) = 2 /\ b[1] = 8 * f /\ b[2] = x
  <2>1. x \in 0 .. 127 /\ AsUint(x) \in 0 .. MaxUint64  BY <1>2, EncodedValues DEF OneGroup
  <2>2. AsUint(x) = x /\ x < 128  BY <2>1 DEF AsUint
  <2>3. encodeVarint(x) = <<x>>  BY <2>1, <2>2, VarintBytes
  <2>4. b = <<8 * f>> \o <<x>>  BY <1>2, <2>2, <2>3 DEF Bytes, FieldBytes
  <2> HIDE DEF b, x
  <2>5. QED  BY <2>1, <2>4
<1>3. QED  BY <1>1, <1>2

\* What has arrived of a field's bytes.
LEMMA ArrivedAt ==
  ASSUME IsMessage(typ, msg), NEW x, NEW Q, Sent(x, Q), NEW f \in 1 .. 3,
         NEW k \in 1 .. Len(Bytes(typ, msg, f)), Off(typ, msg, f) + k <= Len(input)
  PROVE  input[Off(typ, msg, f) + k] = Bytes(typ, msg, f)[k]
<1> DEFINE n == Size(typ, msg)
           o == Off(typ, msg, f)
           b == Bytes(typ, msg, f)
           w == Wire(typ, msg)
<1>1. Placed(typ, msg, f) /\ n \in Nat  BY WireAt
<1>2. o \in 0 .. n /\ o + Len(b) \in 0 .. n /\ w[o + k] = b[k]  BY <1>1 DEF Placed
<1>3. b \in Seq(0 .. 255)  BY FieldLength
<1>4. Len(b) \in Nat  BY <1>3
<1>5. \A j \in 1 .. Len(input) : j <= n => input[j] = w[j]  BY DEF Sent
<1>6. o + k <= Len(input) /\ k \in 1 .. Len(b) /\ Len(input) \in Nat  BY DEF Sent
<1> HIDE DEF n, o, b, w
<1>7. o + k \in 1 .. Len(input) /\ o + k <= n  BY <1>1, <1>2, <1>4, <1>6
<1>8. QED  BY <1>2, <1>5, <1>7 DEF o, b

\* What the loop sees at the start of a field of the message.
Sees(f) ==
  /\ Field.n = 1 /\ Field.fieldNum = f /\ Field.kind = Schema[typ][f]
  /\ Field.wireType = WireType(Schema[typ][f])
  /\ iNdEx + 1 >= Len(input) => Field.number.n = 0
  /\ iNdEx + 1 < Len(input) =>
       /\ Field.number.n = 1 /\ Field.content = iNdEx + 2
       /\ Schema[typ][f] = "string" => Field.end = Off(typ, msg, f + 1) /\ Off(typ, msg, f + 1) = iNdEx + 2 + Len(msg[f])
       /\ Schema[typ][f] # "string" => AsInt(Field.number.v) = msg[f] /\ Off(typ, msg, f + 1) = iNdEx + 2

\* At a field of the message the loop sees that field, its number only if that has arrived.
LEMMA FieldSeen ==
  ASSUME IsMessage(typ, msg), OneGroup, NEW x, NEW Q, Sent(x, Q),
         NEW f \in 1 .. 3, f \in DOMAIN msg, msg[f] # ZeroOf(Schema[typ][f]),
         iNdEx = Off(typ, msg, f), iNdEx < Len(input)
  PROVE  Sees(f)
<1> DEFINE b == Bytes(typ, msg, f)
           kind == Schema[typ][f]
           v == IF kind = "string" THEN Len(msg[f]) ELSE msg[f]
<1>1. input \in Seq(0 .. 255)  BY DEF Sent
<1>2. iNdEx \in Nat /\ Len(input) \in Nat
  <2>1. f \in 1 .. 4  OBVIOUS
  <2>2. QED  BY <2>1, <1>1, OffsetsGrow
<1>3. Len(b) \in Nat /\ Len(b) >= 2 /\ b[1] = 8 * f + WireType(kind) /\ b[2] = v /\ v \in 0 .. 127
  <2>1. CASE kind = "string"
    <3>1. Len(msg[f]) \in 0 .. 127 /\ Len(b) = Len(msg[f]) + 2 /\ b[1] = 8 * f + 2 /\ b[2] = Len(msg[f])
      BY <2>1, OneGroupBytes
    <3> HIDE DEF b
    <3>2. QED  BY <2>1, <3>1 DEF WireType
  <2>2. CASE kind # "string"
    <3>1. msg[f] \in 0 .. 127 /\ Len(b) = 2 /\ b[1] = 8 * f /\ b[2] = msg[f]  BY <2>2, OneGroupBytes
    <3> HIDE DEF b
    <3>2. QED  BY <2>2, <3>1 DEF WireType
  <2>3. QED  BY <2>1, <2>2
<1>4. kind = "string" => Off(typ, msg, f + 1) = iNdEx + 2 + Len(msg[f])
  <2> SUFFICES ASSUME kind = "string" PROVE Off(typ, msg, f + 1) = iNdEx + 2 + Len(msg[f])  OBVIOUS
  <2>1. Off(typ, msg, f + 1) = iNdEx + Len(b)  BY WireAt DEF Placed
  <2>2. Len(msg[f]) \in 0 .. 127 /\ Len(b) = Len(msg[f]) + 2  BY OneGroupBytes
  <2> HIDE DEF b
  <2>3. QED  BY <2>1, <2>2, <1>2
<1>5. kind # "string" => Off(typ, msg, f + 1) = iNdEx + 2
  <2> SUFFICES ASSUME kind # "string" PROVE Off(typ, msg, f + 1) = iNdEx + 2  OBVIOUS
  <2>1. Off(typ, msg, f + 1) = iNdEx + Len(b)  BY WireAt DEF Placed
  <2>2. Len(b) = 2  BY OneGroupBytes
  <2>3. QED  BY <2>1, <2>2
<1>6. 1 \in 1 .. Len(b) /\ 2 \in 1 .. Len(b)
  <2> HIDE DEF b
  <2> QED  BY <1>3
<1>7. input[iNdEx + 1] = b[1]
  <2>1. Off(typ, msg, f) + 1 <= Len(input)  BY <1>2
  <2>2. QED  BY <2>1, <1>6, ArrivedAt
<1>8. iNdEx + 1 < Len(input) => input[iNdEx + 2] = b[2]
  <2> SUFFICES ASSUME iNdEx + 1 < Len(input) PROVE input[iNdEx + 2] = b[2]  OBVIOUS
  <2>1. Off(typ, msg, f) + 2 <= Len(input)  BY <1>2
  <2>2. QED  BY <2>1, <1>6, ArrivedAt
<1>9. f \in DOMAIN Schema[typ]  BY DEF IsMessage
<1> HIDE DEF b, v
<1>10. /\ input[iNdEx + 1] < 128 /\ input[iNdEx + 1] \div 8 = f /\ (input[iNdEx + 1] % 8) = WireType(kind)
  <2> DEFINE c == input[iNdEx + 1]
             d == WireType(kind)
  <2>1. c = 8 * f + d /\ (d = 0 \/ d = 2)  BY <1>3, <1>7 DEF WireType
  <2> HIDE DEF c, d
  <2>2. f = 1 \/ f = 2 \/ f = 3  OBVIOUS
  <2>3. c < 128 /\ c \div 8 = f /\ (c % 8) = d  BY <2>1, <2>2
  <2>4. QED  BY <2>3 DEF c, d
<1>11. /\ Field.n = 1 /\ Field.fieldNum = f /\ Field.wireType = WireType(kind) /\ Field.kind = kind
       /\ Field.number = Uvarint(From(input, iNdEx + 1)) /\ Field.content = iNdEx + 1 + Field.number.n
       /\ Field.end = StringEnd(Field.content, Field.number.v)
  BY <1>1, <1>2, <1>9, <1>10, FieldAtTag
<1>12. iNdEx + 1 >= Len(input) => Field.number.n = 0
  <2> SUFFICES ASSUME iNdEx + 1 >= Len(input) PROVE Field.number.n = 0  OBVIOUS
  <2>1. Field.number = [v |-> 0, n |-> 0]  BY <1>1, <1>2, <1>11, NumberAt
  <2>2. QED  BY <2>1
<1>13. ASSUME iNdEx + 1 < Len(input)
       PROVE  /\ Field.number.n = 1 /\ Field.content = iNdEx + 2 /\ AsInt(Field.number.v) = v
              /\ kind = "string" => Field.end = iNdEx + 2 + v
  <2>1. input[iNdEx + 2] = v /\ v < 128
    <3>1. input[iNdEx + 2] = b[2]  BY <1>8, <1>13, Zenon
    <3>2. b[2] = v /\ v \in 0 .. 127  BY <1>3, Zenon
    <3>3. v < 128  BY <3>2
    <3>4. QED  BY <3>1, <3>2, <3>3, Zenon
  <2>2. Field.number = [v |-> v, n |-> 1]  BY <1>1, <1>2, <1>11, <1>13, <2>1, NumberAt
  <2>3. Field.number.n = 1 /\ Field.number.v = v  BY <2>2
  <2>4. Field.content = iNdEx + 2  BY <2>3, <1>2, <1>11
  <2>5. AsInt(v) = v  BY <1>3, UintRange DEF AsInt
  <2>6. ASSUME kind = "string" PROVE Field.end = iNdEx + 2 + v
    <3>1. Field.end = Plus(iNdEx + 2, v)  BY <2>3, <2>4, <2>5, <1>11 DEF StringEnd
    <3>2. iNdEx + 2 \in Nat /\ v \in Nat /\ (iNdEx + 2) + v <= MaxInt64
      <4>1. Off(typ, msg, f + 1) <= Size(typ, msg) /\ Off(typ, msg, f + 1) \in Nat /\ Size(typ, msg) \in Nat
        <5>1. f + 1 \in 1 .. 4  OBVIOUS
        <5>2. QED  BY <5>1, OffsetsGrow
      <4>2. x \in Seq(0 .. 255) /\ Size(typ, msg) + Len(x) <= MaxInt64  BY DEF Sent
      <4>3. Len(x) \in Nat /\ MaxInt64 \in Nat  BY <4>2, UintRange
      <4>4. iNdEx + 2 + v = Off(typ, msg, f + 1)  BY <2>6, <1>4 DEF v
      <4>5. (iNdEx + 2) + v <= MaxInt64  BY <4>1, <4>2, <4>3, <4>4
      <4>6. QED  BY <4>5, <1>2, <1>3
    <3>3. QED  BY <3>1, <3>2, PlusAdds
  <2>7. QED  BY <2>3, <2>4, <2>5, <2>6
<1>14. (kind = "string" => v = Len(msg[f])) /\ (kind # "string" => v = msg[f])  BY DEF v
<1>15. QED  BY <1>4, <1>5, <1>11, <1>12, <1>13, <1>14 DEF Sees

\* The elements of a part of a sequence.
LEMMA SubSeqAt ==
  ASSUME NEW S, NEW s \in Seq(S), NEW a \in Nat, NEW c \in Nat, a >= 1, c <= Len(s), NEW k \in 1 .. c - a + 1
  PROVE  SubSeq(s, a, c)[k] = s[a + k - 1]
OBVIOUS

\* The first c elements.
LEMMA PrefixOf ==
  ASSUME NEW S, NEW s \in Seq(S), NEW c \in 0 .. Len(s)
  PROVE  /\ SubSeq(s, 1, c) \in Seq(S) /\ Len(SubSeq(s, 1, c)) = c
         /\ \A k \in 1 .. c : SubSeq(s, 1, c)[k] = s[k]
OBVIOUS

\* A part that looks like y is y.
LEMMA SubSeqIs ==
  ASSUME NEW S, NEW s \in Seq(S), NEW y \in Seq(S), NEW p \in Nat, p + Len(y) <= Len(s),
         \A k \in 1 .. Len(y) : s[p + k] = y[k]
  PROVE  SubSeq(s, p + 1, p + Len(y)) = y
<1> DEFINE n == Len(y)
           r == SubSeq(s, p + 1, p + n)
<1>1. n \in Nat /\ DOMAIN y = 1 .. n /\ y = [k \in 1 .. n |-> y[k]] /\ Len(s) \in Nat  OBVIOUS
<1> HIDE DEF n
<1>2. p + 1 \in Nat /\ p + n \in Nat /\ p + 1 >= 1 /\ p + n <= Len(s)  BY <1>1 DEF n
<1>3. r \in Seq(S) /\ Len(r) = n /\ \A k \in 1 .. n : r[k] = s[p + k]
  <2>1. r \in Seq(S)  BY <1>1, <1>2
  <2>2. Len(r) = n  BY <1>1, <1>2
  <2>3. \A k \in 1 .. n : r[k] = s[p + k]
    <3> SUFFICES ASSUME NEW k \in 1 .. n PROVE r[k] = s[p + k]  OBVIOUS
    <3>1. (p + n) - (p + 1) + 1 = n /\ (p + 1) + k - 1 = p + k  BY <1>1
    <3>2. k \in 1 .. (p + n) - (p + 1) + 1  BY <3>1
    <3>3. r[k] = s[(p + 1) + k - 1]  BY <3>2, <1>2, SubSeqAt
    <3>4. QED  BY <3>1, <3>3
  <2>4. QED  BY <2>1, <2>2, <2>3
<1>4. \A k \in 1 .. n : s[p + k] = y[k]  BY DEF n
<1>5. r = y
  <2> HIDE DEF r
  <2> QED  BY <1>1, <1>3, <1>4
<1>6. QED  BY <1>5 DEF n, r

\* A field of the message is read as it was sent, or refused because its end is missing.
LEMMA MessageTurn ==
  ASSUME IsMessage(typ, msg), OneGroup, NEW x, NEW Q, Sent(x, Q),
         NEW f \in 1 .. 3, f \in DOMAIN msg, msg[f] # ZeroOf(Schema[typ][f]),
         iNdEx = Off(typ, msg, f), iNdEx < Len(input)
  PROVE  /\ DecodeField => /\ iNdEx' = Off(typ, msg, f + 1) /\ Off(typ, msg, f + 1) <= Len(input)
                           /\ out' = [out EXCEPT ![f] = msg[f]]
         /\ ~SkipUnknown /\ ~NegativeBounds(Field)
         /\ Malformed(Field) => Len(input) < Size(typ, msg)
<1> DEFINE o == Off(typ, msg, f)
           e == Off(typ, msg, f + 1)
           kind == Schema[typ][f]
<1>1. Sees(f)  BY FieldSeen
<1>2. input \in Seq(0 .. 255)  BY DEF Sent
<1>3. o \in Nat /\ e \in Nat /\ e <= Size(typ, msg) /\ Len(input) \in Nat /\ Size(typ, msg) \in Nat
  <2>1. f \in 1 .. 4 /\ f + 1 \in 1 .. 4  OBVIOUS
  <2>2. QED  BY <2>1, <1>2, OffsetsGrow
<1>4. kind \in Kinds /\ kind # "unknown"
  <2>1. f \in DOMAIN Schema[typ] /\ typ \in Types  BY DEF IsMessage
  <2>2. Schema[typ] \in Seq(Kinds) /\ DOMAIN Schema[typ] = 1 .. Len(Schema[typ])  BY <2>1, TypeShapes
  <2>3. kind \in Kinds  BY <2>1, <2>2, SeqElements
  <2>4. QED  BY <2>3 DEF Kinds
<1>5. /\ Field.n = 1 /\ Field.fieldNum = f /\ Field.kind = kind /\ Field.wireType = WireType(kind)
      /\ o + 1 >= Len(input) => Field.number.n = 0
      /\ o + 1 < Len(input) => Field.number.n = 1 /\ Field.content = o + 2
      /\ o + 1 < Len(input) /\ kind = "string" => Field.end = e /\ e = o + 2 + Len(msg[f])
      /\ o + 1 < Len(input) /\ kind # "string" => AsInt(Field.number.v) = msg[f] /\ e = o + 2
  BY <1>1 DEF Sees
<1>6. kind = "string" => msg[f] \in Seq(0 .. 255) /\ Len(msg[f]) \in Nat
  <2> SUFFICES ASSUME kind = "string" PROVE msg[f] \in Seq(0 .. 255) /\ Len(msg[f]) \in Nat  OBVIOUS
  <2>1. msg[f] \in Seq(0 .. 255)  BY EncodedValues
  <2>2. QED  BY <2>1, SeqElements
<1>7. iNdEx = o  OBVIOUS
<1> DEFINE fd == Field
<1>8. o + 1 >= Len(input) => Malformed(fd)  BY <1>3, <1>4, <1>5, <1>7 DEF Malformed
<1>9. Malformed(fd) /\ o + 1 < Len(input) => kind = "string" /\ TooLong(fd)  BY <1>5 DEF Malformed
<1>10. o + 2 <= e
  <2>1. CASE kind = "string"
    <3>1. Len(Bytes(typ, msg, f)) = Len(msg[f]) + 2 /\ Len(msg[f]) \in Nat  BY <2>1, <1>6, OneGroupBytes
    <3>2. e = o + Len(Bytes(typ, msg, f))  BY WireAt DEF Placed
    <3> HIDE DEF o, e
    <3>3. QED  BY <3>1, <3>2, <1>3
  <2>2. CASE kind # "string"
    <3>1. Len(Bytes(typ, msg, f)) = 2  BY <2>2, OneGroupBytes
    <3>2. e = o + Len(Bytes(typ, msg, f))  BY WireAt DEF Placed
    <3> HIDE DEF o, e
    <3>3. QED  BY <3>1, <3>2, <1>3
  <2>3. QED  BY <2>1, <2>2
<1>11. Malformed(fd) => Len(input) < Size(typ, msg)
  <2> HIDE DEF o, e, kind, fd
  <2>1. ASSUME Malformed(fd) PROVE Len(input) < e
    <3>1. CASE o + 1 >= Len(input)  BY <3>1, <1>3, <1>10
    <3>2. CASE o + 1 < Len(input)
      <4>1. kind = "string" /\ TooLong(fd)  BY <2>1, <3>2, <1>9
      <4>2. fd.end = e  BY <4>1, <3>2, <1>5 DEF fd
      <4>3. QED  BY <4>1, <4>2, <1>3 DEF TooLong
    <3>3. QED  BY <3>1, <3>2, <1>3
  <2>2. QED  BY <2>1, <1>3
<1>12. ~NegativeBounds(fd)
  <2> SUFFICES ASSUME NegativeBounds(fd) PROVE FALSE  OBVIOUS
  <2>2. ~Malformed(fd) /\ fd.kind = "string" /\ fd.end < fd.content  BY <1>3, <1>7 DEF NegativeBounds
  <2>3. o + 1 < Len(input)  BY <2>2, <1>3, <1>8
  <2>4. fd.content = o + 2 /\ fd.end = e /\ e = o + 2 + Len(msg[f])  BY <2>2, <2>3, <1>5
  <2> HIDE DEF o, e, fd
  <2>5. QED  BY <2>2, <2>4, <1>3, <1>10
<1>13. ~SkipUnknown  BY <1>4, <1>5 DEF SkipUnknown
<1>14. ASSUME DecodeField
       PROVE  iNdEx' = e /\ e <= Len(input) /\ out' = [out EXCEPT ![f] = msg[f]]
  <2>1. ~Malformed(fd)  BY <1>14 DEF DecodeField
  <2>2. o + 1 < Len(input)  BY <2>1, <1>3, <1>8
  <2>3. CASE kind = "string"
    <3>1. fd.content = o + 2 /\ fd.end = e /\ e = o + 2 + Len(msg[f])  BY <2>2, <2>3, <1>5
    <3>2. ~TooLong(fd)  BY <2>1, <2>3, <1>3, <1>5, <1>7 DEF Malformed
    <3>3. e <= Len(input)
      <4> HIDE DEF fd, e
      <4> QED  BY <3>1, <3>2, <1>3 DEF TooLong
    <3>4. iNdEx' = e /\ out' = [out EXCEPT ![f] = SubSeq(input, fd.content + 1, fd.end)]
      BY <1>14, <2>3, <1>5, <3>1 DEF DecodeField
    <3>5. \A k \in 1 .. Len(msg[f]) : input[(o + 2) + k] = msg[f][k]
      <4> SUFFICES ASSUME NEW k \in 1 .. Len(msg[f]) PROVE input[(o + 2) + k] = msg[f][k]  OBVIOUS
      <4> DEFINE b == Bytes(typ, msg, f)
      <4>1. Len(b) = Len(msg[f]) + 2 /\ b[k + 2] = msg[f][k]  BY <2>3, OneGroupBytes
      <4>2. Len(msg[f]) \in Nat  BY <2>3, <1>6
      <4>3. k + 2 \in 1 .. Len(b) /\ (o + 2) + k = o + (k + 2) /\ o + (k + 2) <= Len(input)
        <5> HIDE DEF o, e, b
        <5> QED  BY <4>1, <4>2, <3>1, <3>3, <1>3
      <4>4. input[o + (k + 2)] = b[k + 2]  BY <4>3, ArrivedAt
      <4>5. QED  BY <4>1, <4>3, <4>4
    <3>6. SubSeq(input, (o + 2) + 1, (o + 2) + Len(msg[f])) = msg[f]
      <4>1. o + 2 \in Nat /\ (o + 2) + Len(msg[f]) <= Len(input)
        <5> HIDE DEF o, e
        <5> QED  BY <1>3, <3>1, <3>3
      <4>2. QED  BY <4>1, <3>5, <2>3, <1>2, <1>6, SubSeqIs
    <3>7. QED  BY <3>1, <3>3, <3>4, <3>6
  <2>4. CASE kind # "string"
    <3>1. fd.content = o + 2 /\ e = o + 2 /\ AsInt(fd.number.v) = msg[f]  BY <2>2, <2>4, <1>5
    <3>2. iNdEx' = fd.content /\ out' = [out EXCEPT ![f] = AsInt(fd.number.v)]
      BY <1>14, <2>4, <1>5 DEF DecodeField
    <3>3. e <= Len(input)
      <4> HIDE DEF o, e, fd
      <4> QED  BY <3>1, <2>2, <1>3
    <3>4. QED  BY <3>1, <3>2, <3>3
  <2>5. QED  BY <2>3, <2>4
<1>15. QED  BY <1>11, <1>12, <1>13, <1>14

\* An unknown field is skipped to its end, or to the end of the bytes if that comes first.
LEMMA UnknownTurn ==
  ASSUME IsMessage(typ, msg), NEW x, NEW Q, Sent(x, Q), iNdEx \in Nat,
         iNdEx >= Size(typ, msg), iNdEx - Size(typ, msg) \in Q, iNdEx < Len(input)
  PROVE  /\ ~DecodeField /\ ~Malformed(Field) /\ ~NegativeBounds(Field)
         /\ SkipUnknown => /\ iNdEx' \in Nat /\ iNdEx' > iNdEx
                           /\ iNdEx' >= Len(input) \/ iNdEx' - Size(typ, msg) \in Q
<1> DEFINE n == Size(typ, msg)
           p == iNdEx - n
           c == x[p + 1]
           l == Len(input)
           fd == Field
<1>1. input \in Seq(0 .. 255) /\ x \in Seq(0 .. 255) /\ FieldBounds(x, Q) /\ l <= n + Len(x)
  BY DEF Sent
<1>2. n \in Nat /\ l \in Nat /\ Len(x) \in Nat /\ p \in Nat /\ p + n = iNdEx /\ p < Len(x)
  <2>1. n \in Nat  BY WireAt
  <2>2. l \in Nat /\ Len(x) \in Nat  BY <1>1
  <2> HIDE DEF n, l
  <2>3. iNdEx >= n /\ iNdEx < l  BY DEF n, l
  <2>4. QED  BY <2>1, <2>2, <2>3, <1>1
<1>3. \A k \in 1 .. l : k > n => input[k] = x[k - n]
  <2>1. \A k \in 1 .. l : input[k] = IF k <= n THEN Wire(typ, msg)[k] ELSE x[k - n]  BY DEF Sent
  <2> HIDE DEF n, l
  <2>2. QED  BY <2>1, <1>2
<1>4. p \in Q \ {Len(x)}
  <2>1. p \in Q  OBVIOUS
  <2> HIDE DEF p
  <2>2. QED  BY <2>1, <1>2
<1>5. FieldAt(x, p, Q) /\ Q \subseteq 0 .. Len(x)
  <2> HIDE DEF p
  <2> QED  BY <1>1, <1>4 DEF FieldBounds
<1>6. c \in 32 .. 127  BY <1>5 DEF FieldAt
<1>7. iNdEx < l  OBVIOUS
<1> HIDE DEF n, p, c, l
<1>8. input[iNdEx + 1] = c
  <2>1. iNdEx + 1 \in 1 .. l /\ iNdEx + 1 > n /\ (iNdEx + 1) - n = p + 1  BY <1>2, <1>7
  <2>2. QED  BY <2>1, <1>3 DEF c
<1>9. c < 128 /\ c \div 8 >= 4 /\ c \div 8 \in Int  BY <1>6
<1>10. /\ fd.n = 1 /\ fd.fieldNum = c \div 8 /\ fd.wireType = (c % 8) /\ fd.body = iNdEx + 1
       /\ fd.kind = (IF fd.fieldNum \in DOMAIN Schema[typ] THEN Schema[typ][fd.fieldNum] ELSE "unknown")
       /\ fd.number = Uvarint(From(input, iNdEx + 1)) /\ fd.content = iNdEx + 1 + fd.number.n
       /\ fd.end = StringEnd(fd.content, fd.number.v)
  BY <1>1, <1>7, <1>8, <1>9, FieldAtTag DEF l
<1>11. fd.kind = "unknown"
  <2> DEFINE h == Len(Schema[typ])
  <2>1. DOMAIN Schema[typ] = 1 .. h /\ h \in 0 .. 3  BY TypeShapes DEF IsMessage
  <2> HIDE DEF h
  <2>2. \A k \in 1 .. h : k < 4  BY <2>1
  <2>3. fd.fieldNum \notin 1 .. h  BY <2>2, <1>9, <1>10
  <2>4. QED  BY <2>1, <2>3, <1>10
<1>12. ~Malformed(fd) /\ ~NegativeBounds(fd)
  <2>1. ~Malformed(fd)  BY <1>10, <1>11 DEF Malformed
  <2>2. iNdEx >= 0 /\ fd.kind # "string"  BY <1>11
  <2>3. QED  BY <2>1, <2>2 DEF NegativeBounds
<1>13. ~DecodeField  BY <1>11 DEF DecodeField
<1>14. ASSUME SkipUnknown
       PROVE  iNdEx' \in Nat /\ iNdEx' > iNdEx /\ (iNdEx' >= l \/ iNdEx' - n \in Q)
  <2>1. iNdEx' = skipField(fd)  BY <1>14 DEF SkipUnknown
  <2>0. \A q \in Q : n + q \in Nat /\ n + q <= MaxInt64
    <3> SUFFICES ASSUME NEW q \in Q PROVE n + q \in Nat /\ n + q <= MaxInt64  OBVIOUS
    <3>1. n + Len(x) <= MaxInt64  BY DEF Sent, n
    <3>2. q \in 0 .. Len(x)  BY <1>5
    <3>3. QED  BY <3>1, <3>2, <1>2, UintRange
  <2> HIDE DEF fd
  <2>2. CASE (c % 8) = 0
    <3> DEFINE ends == {k \in iNdEx + 2 .. l : input[k] < 128}
    <3>1. iNdEx' = IF ends = {} THEN l ELSE Min(ends)
      <4>1. (iNdEx + 1) + 1 = iNdEx + 2  BY <1>2
      <4>2. {k \in fd.body + 1 .. Len(input) : input[k] < 128} = ends  BY <4>1, <1>10 DEF l
      <4>3. fd.wireType = 0  BY <2>2, <1>10
      <4> DEFINE e == {k \in fd.body + 1 .. Len(input) : input[k] < 128}
      <4>4. skipField(fd) = IF e = {} THEN Len(input) ELSE Min(e)  BY <4>3 DEF skipField
      <4>5. e = ends  BY <4>2
      <4> HIDE DEF ends, e
      <4>6. QED  BY <2>1, <4>4, <4>5 DEF l
    <3>2. PICK q \in Q : p + 1 < q /\ x[q] < 128 /\ \A k \in p + 2 .. q - 1 : x[k] >= 128
      BY <1>5, <2>2 DEF FieldAt, c
    <3>3. q \in Nat /\ q <= Len(x)  BY <1>2, <1>5
    <3>4. \A k \in iNdEx + 2 .. l : k \in 1 .. l /\ k > n /\ k - n \in 1 .. Len(x) /\ k - n >= p + 2
      BY <1>1, <1>2 DEF l
    <3>5. \A k \in iNdEx + 2 .. l : input[k] = x[k - n]  BY <3>4, <1>3
    <3>6. \A k \in 1 .. Len(x) : x[k] \in Int
      <4>1. \A k \in 1 .. Len(x) : x[k] \in 0 .. 255  BY <1>1, SeqElements
      <4>2. \A k \in 0 .. 255 : k \in Int  OBVIOUS
      <4>3. QED  BY <4>1, <4>2
    <3>7. \A k \in ends : k >= n + q
      <4> SUFFICES ASSUME NEW k \in iNdEx + 2 .. l, input[k] < 128, k < n + q PROVE FALSE  BY <1>2, <3>3
      <4>1. k - n \in p + 2 .. q - 1 /\ k - n \in 1 .. Len(x)  BY <3>3, <3>4, <1>2
      <4>2. x[k - n] >= 128 /\ x[k - n] < 128 /\ x[k - n] \in Int  BY <4>1, <3>2, <3>5, <3>6
      <4> DEFINE y == x[k - n]
      <4>3. y >= 128 /\ y < 128 /\ y \in Int  BY <4>2
      <4> HIDE DEF y
      <4>4. QED  BY <4>3
    <3>8. n + q <= l => n + q \in ends
      <4> SUFFICES ASSUME n + q <= l PROVE n + q \in ends  OBVIOUS
      <4>1. n + q \in iNdEx + 2 .. l /\ (n + q) - n = q  BY <1>2, <3>2, <3>3
      <4>2. QED  BY <4>1, <3>2, <3>5
    <3>9. ends \subseteq Nat /\ \A k \in ends : k <= l  BY <1>2
    <3> HIDE DEF ends
    <3>10. CASE ends = {}  BY <3>10, <3>1, <1>2, <1>7
    <3>11. CASE ends # {}
      <4>1. Min(ends) \in ends /\ \A k \in ends : Min(ends) <= k  BY <3>9, <3>11, MinOfNaturals
      <4>2. n + q <= l
        <5>1. Min(ends) \in Nat /\ Min(ends) >= n + q /\ Min(ends) <= l  BY <4>1, <3>7, <3>9
        <5>2. QED  BY <5>1, <1>2, <3>3
      <4>3. Min(ends) = n + q
        <5>1. Min(ends) \in Nat /\ Min(ends) >= n + q /\ Min(ends) <= n + q  BY <4>1, <4>2, <3>7, <3>8, <3>9
        <5>2. QED  BY <5>1, <1>2, <3>3
      <4>4. iNdEx' = n + q  BY <3>1, <3>11, <4>3
      <4>5. (n + q) - n = q /\ n + q > iNdEx /\ n + q \in Nat  BY <1>2, <3>2, <3>3
      <4>6. QED  BY <4>4, <4>5
    <3>12. QED  BY <3>10, <3>11
  <2>3. CASE (c % 8) = 1
    <3>2. p + 9 \in Q  BY <1>5, <2>3 DEF FieldAt, c
    <3>3. ((iNdEx + 1) + 8) - n = p + 9 /\ (iNdEx + 1) + 8 > iNdEx /\ (iNdEx + 1) + 8 \in Nat  BY <1>2
    <3>0. Plus(iNdEx + 1, 8) = (iNdEx + 1) + 8
      <4>1. n + (p + 9) <= MaxInt64  BY <3>2, <2>0
      <4>2. (iNdEx + 1) + 8 <= MaxInt64 /\ iNdEx + 1 \in Nat  BY <4>1, <1>2, UintRange
      <4>3. QED  BY <4>2, PlusAdds
    <3>1. iNdEx' = (iNdEx + 1) + 8  BY <3>0, <2>1, <2>3, <1>10 DEF skipField
    <3>4. QED  BY <3>1, <3>2, <3>3
  <2>4. CASE (c % 8) = 2
    <3>1. iNdEx' = IF fd.number.n > 0 THEN fd.end ELSE iNdEx + 1  BY <2>1, <2>4, <1>10 DEF skipField
    <3>2. p + 2 <= Len(x) /\ x[p + 2] < 128 /\ p + 2 + x[p + 2] \in Q  BY <1>5, <2>4 DEF FieldAt, c
    <3>3. CASE iNdEx + 1 >= l
      <4>1. fd.number = [v |-> 0, n |-> 0]  BY <3>3, <1>1, <1>7, <1>10, NumberAt DEF l
      <4>2. iNdEx' = iNdEx + 1  BY <3>1, <4>1
      <4>3. QED  BY <4>2, <3>3, <1>2
    <3>4. CASE iNdEx + 1 < l
      <4> DEFINE y == x[p + 2]
      <4>1. y \in Nat /\ y < 128
        <5>1. p + 2 \in 1 .. Len(x)  BY <3>2, <1>2
        <5>2. y \in 0 .. 255  BY <5>1, <1>1, SeqElements
        <5>3. y < 128  BY <3>2
        <5> HIDE DEF y
        <5>4. QED  BY <5>2, <5>3
      <4>2. input[iNdEx + 2] = y
        <5>1. iNdEx + 2 \in 1 .. l /\ iNdEx + 2 > n /\ (iNdEx + 2) - n = p + 2  BY <1>2, <3>4
        <5>2. QED  BY <5>1, <1>3
      <4>3. p + 2 + y \in Q  BY <3>2
      <4> HIDE DEF y
      <4>4. fd.number = [v |-> y, n |-> 1]  BY <3>4, <4>1, <4>2, <1>1, <1>7, <1>10, NumberAt DEF l
      <4>5. fd.number.n = 1 /\ fd.number.v = y  BY <4>4
      <4>6. AsInt(y) = y  BY <4>1, UintRange DEF AsInt
      <4>7. fd.end = Plus(iNdEx + 1 + 1, y)  BY <4>5, <4>6, <1>10 DEF StringEnd
      <4>8. ((iNdEx + 1 + 1) + y) - n = p + 2 + y /\ (iNdEx + 1 + 1) + y > iNdEx /\ (iNdEx + 1 + 1) + y \in Nat
        BY <4>1, <1>2
      <4>9. Plus(iNdEx + 1 + 1, y) = (iNdEx + 1 + 1) + y
        <5>1. n + (p + 2 + y) <= MaxInt64  BY <4>3, <2>0
        <5>2. (iNdEx + 1 + 1) + y <= MaxInt64 /\ iNdEx + 1 + 1 \in Nat  BY <5>1, <4>1, <1>2, UintRange
        <5>3. QED  BY <5>2, <4>1, PlusAdds
      <4>10. iNdEx' = (iNdEx + 1 + 1) + y  BY <3>1, <4>5, <4>7, <4>9
      <4>11. QED  BY <4>3, <4>8, <4>10
    <3>5. QED  BY <3>3, <3>4, <1>2
  <2>5. CASE (c % 8) = 5
    <3>2. p + 5 \in Q  BY <1>5, <2>5 DEF FieldAt, c
    <3>3. ((iNdEx + 1) + 4) - n = p + 5 /\ (iNdEx + 1) + 4 > iNdEx /\ (iNdEx + 1) + 4 \in Nat  BY <1>2
    <3>0. Plus(iNdEx + 1, 4) = (iNdEx + 1) + 4
      <4>1. n + (p + 5) <= MaxInt64  BY <3>2, <2>0
      <4>2. (iNdEx + 1) + 4 <= MaxInt64 /\ iNdEx + 1 \in Nat  BY <4>1, <1>2, UintRange
      <4>3. QED  BY <4>2, PlusAdds
    <3>1. iNdEx' = (iNdEx + 1) + 4  BY <3>0, <2>1, <2>5, <1>10 DEF skipField
    <3>4. QED  BY <3>1, <3>2, <3>3
  <2>6. (c % 8) = 0 \/ (c % 8) = 1 \/ (c % 8) = 2 \/ (c % 8) = 5  BY <1>5 DEF FieldAt, c
  <2>7. QED  BY <2>2, <2>3, <2>4, <2>5, <2>6
<1>15. QED  BY <1>12, <1>13, <1>14 DEF n, l, fd

\* A field that is not zero takes bytes.
LEMMA FieldAdvances ==
  ASSUME IsMessage(typ, msg), OneGroup, NEW f \in 1 .. 3, f \in DOMAIN msg, msg[f] # ZeroOf(Schema[typ][f])
  PROVE  Off(typ, msg, f) < Off(typ, msg, f + 1)
<1> DEFINE b == Bytes(typ, msg, f)
<1>1. Off(typ, msg, f + 1) = Off(typ, msg, f) + Len(b)  BY WireAt DEF Placed
<1>2. Len(b) \in Nat /\ Len(b) >= 2
  <2>1. CASE Schema[typ][f] = "string"
    <3>1. Len(msg[f]) \in 0 .. 127 /\ Len(b) = Len(msg[f]) + 2  BY <2>1, OneGroupBytes
    <3> HIDE DEF b
    <3>2. QED  BY <3>1
  <2>2. CASE Schema[typ][f] # "string"
    <3>1. Len(b) = 2  BY <2>2, OneGroupBytes
    <3>2. QED  BY <3>1
  <2>3. QED  BY <2>1, <2>2
<1>3. f \in 1 .. 4  OBVIOUS
<1>4. Off(typ, msg, f) \in Nat  BY <1>3, OffsetsGrow
<1> HIDE DEF b
<1>5. QED  BY <1>1, <1>2, <1>4

\* The message's fields are among the first three.
LEMMA FieldNumbers ==
  ASSUME IsMessage(typ, msg)
  PROVE  /\ DOMAIN msg = DOMAIN Schema[typ]
         /\ \A f \in DOMAIN msg : f \in 1 .. 3 /\ f \in 1 .. 4 /\ f + 1 \in 1 .. 4
<1> DEFINE h == Len(Schema[typ])
<1>1. DOMAIN Schema[typ] = 1 .. h /\ h \in 0 .. 3  BY TypeShapes DEF IsMessage
<1>2. DOMAIN msg = DOMAIN Schema[typ]  BY DEF IsMessage
<1> HIDE DEF h
<1>3. \A f \in 1 .. h : f \in 1 .. 3 /\ f \in 1 .. 4 /\ f + 1 \in 1 .. 4  BY <1>1
<1>4. QED  BY <1>1, <1>2, <1>3

\* Nothing of the message is among the first zero bytes.
LEMMA StartsEmpty ==
  ASSUME EncInv, OneGroup, pc = "sent",
         NEW p \in {Zero(typ), Used(typ)}, NEW extra \in Unknown \cup {<<>>},
         NEW cut \in 0 .. Len(dAtA) + Len(extra), Unmarshal(p, extra, cut)
  PROVE  Decoding'
<1> DEFINE n == Size(typ, msg)
           w == Wire(typ, msg)
<1>1. IsMessage(typ, msg) /\ dAtA = w  BY DEF EncInv
<1>2. n \in Nat /\ w \in Seq(0 .. 255) /\ Len(w) = n /\ Off(typ, msg, 1) = 0  BY <1>1, WireAt
<1>3. extra \in Seq(0 .. 255)  BY CodecAssumption
<1>4. PICK Q \in SUBSET (0 .. Len(extra)) : FieldBounds(extra, Q)
  <2>1. CASE extra \in Unknown  BY <2>1, CodecAssumption
  <2>2. CASE extra = <<>>
    <3>1. Len(<<>>) = 0 /\ 0 \in 0 .. 0 /\ {0} \subseteq 0 .. 0 /\ {0} \ {0} = {}  OBVIOUS
    <3>2. FieldBounds(<<>>, {0})  BY <3>1 DEF FieldBounds
    <3>3. {0} \in SUBSET (0 .. Len(<<>>))  BY <3>1
    <3>4. QED  BY <2>2, <3>2, <3>3
  <2>3. QED  BY <2>1, <2>2
<1>5. /\ typ' = typ /\ msg' = msg /\ input' = SubSeq(w \o extra, 1, cut) /\ whole' = (cut >= Len(w))
      /\ prior' = p /\ out' = p /\ iNdEx' = 0 /\ turns' = 0 /\ pc' = "unmarshal"
      /\ Len(w) + Len(extra) <= MaxInt64
  BY <1>1 DEF Unmarshal, enc
<1>6. Size(typ, msg)' = n /\ Wire(typ, msg)' = w /\ \A f : Off(typ, msg, f)' = Off(typ, msg, f)  BY <1>5
<1>7. cut \in 0 .. n + Len(extra)  BY <1>1, <1>2
<1>8. IsMessage(typ, msg)  BY <1>1
<1> HIDE DEF n, w
<1> DEFINE d == w \o extra
<1>9. /\ d \in Seq(0 .. 255) /\ Len(d) = n + Len(extra)
      /\ \A k \in 1 .. n : d[k] = w[k]
      /\ \A k \in 1 .. Len(extra) : d[n + k] = extra[k]
  <2>1. w \in Seq(0 .. 255)  BY <1>2
  <2>2. /\ d \in Seq(0 .. 255) /\ Len(d) = Len(w) + Len(extra)
        /\ \A k \in 1 .. Len(w) : d[k] = w[k]
        /\ \A k \in 1 .. Len(extra) : d[Len(w) + k] = extra[k]
    BY <2>1, <1>3, ConcatAt
  <2>3. Len(w) = n  BY <1>2
  <2> HIDE DEF d
  <2>4. QED  BY <2>2, <2>3
<1>10. Len(extra) \in Nat  BY <1>3
<1> HIDE DEF d
<1>11. /\ SubSeq(d, 1, cut) \in Seq(0 .. 255) /\ Len(SubSeq(d, 1, cut)) = cut
       /\ \A k \in 1 .. cut : SubSeq(d, 1, cut)[k] = d[k]
  <2>1. d \in Seq(0 .. 255) /\ cut \in 0 .. Len(d)  BY <1>7, <1>9
  <2>2. QED  BY <2>1, PrefixOf
<1>12. /\ input' \in Seq(0 .. 255) /\ Len(input') = cut /\ \A k \in 1 .. cut : input'[k] = d[k]
  BY <1>5, <1>11 DEF d
<1>13. \A k \in 1 .. cut : d[k] = IF k <= n THEN w[k] ELSE extra[k - n]
  <2> SUFFICES ASSUME NEW k \in 1 .. cut PROVE d[k] = IF k <= n THEN w[k] ELSE extra[k - n]  OBVIOUS
  <2>1. CASE k <= n
    <3>1. k \in 1 .. n  BY <2>1, <1>2, <1>7
    <3>2. QED  BY <2>1, <3>1, <1>9
  <2>2. CASE ~(k <= n)
    <3>1. k - n \in 1 .. Len(extra) /\ n + (k - n) = k  BY <2>2, <1>2, <1>7, <1>10
    <3>2. d[n + (k - n)] = extra[k - n]  BY <3>1, <1>9
    <3>3. QED  BY <2>2, <3>1, <3>2
  <2>3. QED  BY <2>1, <2>2
<1>14. Sent(extra, Q)'
  <2>0. n + Len(extra) <= MaxInt64  BY <1>2, <1>5
  <2>1. \A k \in 1 .. cut : input'[k] = IF k <= n THEN w[k] ELSE extra[k - n]  BY <1>12, <1>13
  <2>2. cut <= n + Len(extra)  BY <1>2, <1>7, <1>10
  <2>3. whole' => cut >= n  BY <1>2, <1>5
  <2>4. QED  BY <1>3, <1>4, <1>6, <1>12, <2>0, <2>1, <2>2, <2>3 DEF Sent
<1>15. InMessage'
  <2>1. 1 \in 1 .. 4 /\ iNdEx' = Off(typ, msg, 1)'  BY <1>2, <1>5, <1>6
  <2>2. iNdEx' <= Len(input')  BY <1>5, <1>7, <1>12
  <2>3. QED  BY <2>1, <2>2 DEF InMessage
<1>16. Received'
  <2>1. p = [f \in DOMAIN msg |-> p[f]]
    <3>1. DOMAIN msg = DOMAIN Schema[typ]  BY <1>1 DEF IsMessage
    <3>2. QED  BY <3>1 DEF Zero, Used
  <2>2. ASSUME NEW f \in DOMAIN msg, msg[f] # ZeroOf(Schema[typ][f]) PROVE ~(Off(typ, msg, f + 1) <= 0)
    <3>1. f \in 1 .. 3 /\ f \in 1 .. 4 /\ f + 1 \in 1 .. 4  BY <1>1, FieldNumbers
    <3>2. Off(typ, msg, f) < Off(typ, msg, f + 1)  BY <1>1, <2>2, <3>1, FieldAdvances
    <3>3. Off(typ, msg, f) \in Nat /\ Off(typ, msg, f + 1) \in Nat  BY <1>1, <3>1, OffsetsGrow
    <3>4. QED  BY <3>2, <3>3
  <2>3. \A f \in DOMAIN msg : Held(f)'
    <3> SUFFICES ASSUME NEW f \in DOMAIN msg PROVE Held(f)'  OBVIOUS
    <3>1. ~(msg[f] # ZeroOf(Schema[typ][f]) /\ Off(typ, msg, f + 1) <= 0)  BY <2>2
    <3>2. QED  BY <3>1, <1>5, <1>6 DEF Held
  <2>4. QED  BY <2>1, <2>3, <1>5 DEF Received
<1>17. Counted'  BY <1>5, <1>7, <1>12 DEF Counted
<1>18. (\E x \in Unknown \cup {<<>>} : \E R \in SUBSET (0 .. Len(x)) : Sent(x, R) /\ (InMessage \/ PastMessage(R)))'
  <2> HIDE DEF Sent, InMessage, PastMessage
  <2> QED  BY <1>14, <1>15
<1>19. QED  BY <1>5, <1>16, <1>17, <1>18 DEF Decoding

\* Where a turn of the loop starts.
LEMMA TurnStarts ==
  ASSUME IsMessage(typ, msg), NEW x, NEW Q, Sent(x, Q), InMessage \/ PastMessage(Q), iNdEx \in Nat, iNdEx < Len(input)
  PROVE  \/ \E f \in 1 .. 3 : f \in DOMAIN msg /\ msg[f] # ZeroOf(Schema[typ][f]) /\ iNdEx = Off(typ, msg, f)
         \/ iNdEx >= Size(typ, msg) /\ iNdEx - Size(typ, msg) \in Q
<1> DEFINE n == Size(typ, msg)
<1>1. n \in Nat /\ \A f \in 1 .. 4 : Off(typ, msg, f) <= n  BY OffsetsGrow
<1>2. CASE InMessage /\ iNdEx < n
  <2>1. PICK g \in 1 .. 4 : iNdEx = Off(typ, msg, g)  BY <1>2 DEF InMessage
  <2>2. QED  BY <2>1, <1>2, FieldStarts
<1>3. CASE InMessage /\ iNdEx >= n
  <2>1. iNdEx = n
    <3>1. iNdEx <= n  BY <1>1, <1>3 DEF InMessage
    <3> HIDE DEF n
    <3>2. QED  BY <3>1, <1>1, <1>3
  <2>2. 0 \in Q  BY DEF Sent, FieldBounds
  <2> HIDE DEF n
  <2>3. iNdEx >= n /\ iNdEx - n = 0  BY <2>1, <1>1
  <2>4. QED  BY <2>2, <2>3 DEF n
<1>4. CASE PastMessage(Q)
  <2>1. Len(input) \in Nat  BY DEF Sent
  <2>2. ~(iNdEx >= Len(input))  BY <2>1
  <2>3. QED  BY <1>4, <2>2 DEF PastMessage
<1>5. iNdEx < n \/ iNdEx >= n
  <2> HIDE DEF n
  <2> QED  BY <1>1
<1>6. QED  BY <1>2, <1>3, <1>4, <1>5

\* A turn that reads a field of the message.
LEMMA DecodeTurn ==
  ASSUME EncInv, OneGroup, pc = "unmarshal", Decoding, DecodeField
  PROVE  Decoding'
<1>1. IsMessage(typ, msg)  BY DEF EncInv
<1>2. PICK x \in Unknown \cup {<<>>} : \E Q \in SUBSET (0 .. Len(x)) : Sent(x, Q) /\ (InMessage \/ PastMessage(Q))
  BY DEF Decoding
<1>3. PICK Q \in SUBSET (0 .. Len(x)) : Sent(x, Q) /\ (InMessage \/ PastMessage(Q))  BY <1>2
<1>4. Received /\ Counted  BY DEF Decoding
<1>5. iNdEx \in Nat /\ iNdEx < Len(input) /\ turns' = turns + 1 /\ UNCHANGED <<pc, enc, dec>>
  BY <1>4 DEF DecodeField, InLoop, Counted
<1>6. UNCHANGED <<pc, typ, msg, input, whole, prior>>  BY <1>5 DEF enc, dec
<1>7. PICK f \in 1 .. 3 : f \in DOMAIN msg /\ msg[f] # ZeroOf(Schema[typ][f]) /\ iNdEx = Off(typ, msg, f)
  <2>1. ~(iNdEx >= Size(typ, msg) /\ iNdEx - Size(typ, msg) \in Q)  BY <1>1, <1>3, <1>5, UnknownTurn
  <2>2. QED  BY <2>1, <1>1, <1>3, <1>5, TurnStarts
<1> DEFINE o(g) == Off(typ, msg, g)
<1>8. iNdEx' = o(f + 1) /\ o(f + 1) <= Len(input) /\ out' = [out EXCEPT ![f] = msg[f]]
  BY <1>1, <1>3, <1>5, <1>7, MessageTurn
<1>9. o(f) < o(f + 1)  BY <1>1, <1>7, FieldAdvances
<1>10. \A g \in 1 .. 4 : o(g) \in Nat  BY <1>1, OffsetsGrow
<1>11. \A g, h \in 1 .. 4 : g <= h => o(g) <= o(h)  BY <1>1, OffsetsGrow
<1>12. \A g : Off(typ, msg, g)' = o(g)  BY <1>6
<1>13. Sent(x, Q)'  BY <1>3, <1>6 DEF Sent
<1>14. InMessage'
  <2>1. f + 1 \in 1 .. 4  OBVIOUS
  <2>2. iNdEx' = Off(typ, msg, f + 1)' /\ iNdEx' <= Len(input')  BY <1>6, <1>8, <1>12
  <2>3. QED  BY <2>1, <2>2 DEF InMessage
<1>15. Received'
  <2>1. out = [g \in DOMAIN msg |-> out[g]]  BY <1>4 DEF Received
  <2>2. /\ out' = [g \in DOMAIN msg |-> out'[g]] /\ out'[f] = msg[f]
        /\ \A g \in DOMAIN msg : g # f => out'[g] = out[g]
    BY <2>1, <1>7, <1>8
  <2>3. ASSUME NEW g \in DOMAIN msg PROVE Held(g)'
    <3> DEFINE some == msg[g] # ZeroOf(Schema[typ][g])
    <3>1. Held(g)' <=> (out'[g] = IF some /\ o(g + 1) <= o(f + 1) THEN msg[g] ELSE prior[g])
      BY <1>6, <1>8, <1>12 DEF Held
    <3>2. out[g] = IF some /\ o(g + 1) <= o(f) THEN msg[g] ELSE prior[g]
      BY <1>4, <1>7 DEF Received, Held
    <3>3. g \in 1 .. 3 /\ g \in 1 .. 4 /\ g + 1 \in 1 .. 4 /\ f \in 1 .. 4 /\ f + 1 \in 1 .. 4  BY <1>1, FieldNumbers
    <3>4. CASE g = f
      <4>1. o(f + 1) <= o(f + 1)  BY <3>3, <1>10
      <4>2. some  BY <3>4, <1>7
      <4>3. QED  BY <3>1, <3>4, <4>1, <4>2, <2>2
    <3>5. CASE g < f
      <4>1. g + 1 <= f /\ g # f  BY <3>3, <3>5
      <4>2. o(g + 1) <= o(f)  BY <4>1, <3>3, <1>11
      <4>3. o(g + 1) <= o(f + 1)
        <5>1. o(g + 1) \in Nat /\ o(f) \in Nat /\ o(f + 1) \in Nat  BY <3>3, <1>10
        <5> HIDE DEF o
        <5>2. QED  BY <4>2, <5>1, <1>9
      <4> HIDE DEF o, some
      <4>4. QED  BY <3>1, <3>2, <4>1, <4>2, <4>3, <2>2
    <3>6. CASE g > f
      <4>1. f + 1 <= g /\ g # f  BY <3>3, <3>6
      <4>2. o(f + 1) <= o(g)  BY <4>1, <3>3, <1>11
      <4>3. some => o(g) < o(g + 1)  BY <1>1, <3>3, FieldAdvances
      <4>4. some => ~(o(g + 1) <= o(f + 1)) /\ ~(o(g + 1) <= o(f))
        <5>1. o(g) \in Nat /\ o(g + 1) \in Nat /\ o(f) \in Nat /\ o(f + 1) \in Nat  BY <3>3, <1>10
        <5> HIDE DEF o, some
        <5>2. QED  BY <4>2, <4>3, <5>1, <1>9
      <4> HIDE DEF o, some
      <4>5. QED  BY <3>1, <3>2, <4>1, <4>4, <2>2
    <3>7. QED  BY <3>3, <3>4, <3>5, <3>6
  <2> HIDE DEF Held
  <2>4. QED  BY <2>2, <2>3, <1>6 DEF Received
<1>16. Counted'
  <2>1. iNdEx < iNdEx' /\ iNdEx' \in Nat
    <3>1. f \in 1 .. 4 /\ f + 1 \in 1 .. 4  OBVIOUS
    <3>2. QED  BY <3>1, <1>7, <1>8, <1>9, <1>10
  <2>2. Len(input) \in Nat  BY <1>3 DEF Sent
  <2>3. QED  BY <2>1, <2>2, <1>4, <1>5, <1>6 DEF Counted
<1>17. (\E y \in Unknown \cup {<<>>} : \E R \in SUBSET (0 .. Len(y)) : Sent(y, R) /\ (InMessage \/ PastMessage(R)))'
  <2> HIDE DEF Sent, InMessage, PastMessage
  <2> QED  BY <1>13, <1>14
<1>18. QED  BY <1>6, <1>15, <1>16, <1>17 DEF Decoding

\* A turn that skips a field of a later version.
LEMMA SkipTurn ==
  ASSUME EncInv, OneGroup, pc = "unmarshal", Decoding, SkipUnknown
  PROVE  Decoding'
<1> DEFINE n == Size(typ, msg)
<1>1. IsMessage(typ, msg)  BY DEF EncInv
<1>2. PICK x \in Unknown \cup {<<>>} : \E Q \in SUBSET (0 .. Len(x)) : Sent(x, Q) /\ (InMessage \/ PastMessage(Q))
  BY DEF Decoding
<1>3. PICK Q \in SUBSET (0 .. Len(x)) : Sent(x, Q) /\ (InMessage \/ PastMessage(Q))  BY <1>2
<1>4. Received /\ Counted  BY DEF Decoding
<1>5. iNdEx \in Nat /\ iNdEx < Len(input) /\ turns' = turns + 1 /\ UNCHANGED <<pc, enc, dec, out>>
  BY <1>4 DEF SkipUnknown, InLoop, Counted
<1>6. UNCHANGED <<pc, typ, msg, input, whole, prior, out>>  BY <1>5 DEF enc, dec
<1>7. iNdEx >= n /\ iNdEx - n \in Q
  <2>1. ASSUME NEW f \in 1 .. 3, f \in DOMAIN msg, msg[f] # ZeroOf(Schema[typ][f]), iNdEx = Off(typ, msg, f) PROVE FALSE
    BY <1>1, <1>3, <1>5, <2>1, MessageTurn
  <2>2. QED  BY <2>1, <1>1, <1>3, <1>5, TurnStarts
<1>8. iNdEx' \in Nat /\ iNdEx' > iNdEx /\ (iNdEx' >= Len(input) \/ iNdEx' - n \in Q)
  BY <1>1, <1>3, <1>5, <1>7, UnknownTurn
<1>9. n \in Nat /\ \A g \in 1 .. 4 : Off(typ, msg, g) \in Nat /\ Off(typ, msg, g) <= n  BY <1>1, OffsetsGrow
<1>10. n' = n /\ \A g : Off(typ, msg, g)' = Off(typ, msg, g)  BY <1>6
<1>11. Len(input) \in Nat  BY <1>3 DEF Sent
<1>12. Sent(x, Q)'  BY <1>3, <1>6 DEF Sent
<1>13. PastMessage(Q)'
  <2> HIDE DEF n
  <2>1. Len(input) >= n /\ iNdEx' >= n  BY <1>5, <1>7, <1>8, <1>9, <1>11
  <2>2. QED  BY <2>1, <1>6, <1>8, <1>10 DEF PastMessage, n
<1>14. Received'
  <2>1. ASSUME NEW g \in DOMAIN msg PROVE Held(g)'
    <3>1. g + 1 \in 1 .. 4  BY <1>1, FieldNumbers
    <3> DEFINE e == Off(typ, msg, g + 1)
    <3>2. e \in Nat /\ e <= n  BY <3>1, <1>9
    <3>3. e <= iNdEx /\ e <= iNdEx'
      <4> HIDE DEF n, e
      <4> QED  BY <3>2, <1>5, <1>7, <1>8, <1>9
    <3>4. Held(g)  BY <1>4 DEF Received
    <3>5. QED  BY <3>3, <3>4, <1>6, <1>10 DEF Held
  <2>2. out' = [g \in DOMAIN msg' |-> out'[g]]  BY <1>4, <1>6 DEF Received
  <2> HIDE DEF Held
  <2>3. QED  BY <2>1, <2>2, <1>6 DEF Received
<1>15. Counted'  BY <1>4, <1>5, <1>6, <1>8, <1>11 DEF Counted
<1>16. (\E y \in Unknown \cup {<<>>} : \E R \in SUBSET (0 .. Len(y)) : Sent(y, R) /\ (InMessage \/ PastMessage(R)))'
  <2> HIDE DEF Sent, InMessage, PastMessage
  <2> QED  BY <1>12, <1>13
<1>17. QED  BY <1>6, <1>14, <1>15, <1>16 DEF Decoding

\* What the decoder holds does not depend on pc.
LEMMA DecodingKept ==
  ASSUME Decoding, UNCHANGED <<enc, dec, loop>>
  PROVE  /\ (\E x \in Unknown \cup {<<>>} : \E Q \in SUBSET (0 .. Len(x)) : Sent(x, Q) /\ (InMessage \/ PastMessage(Q)))'
         /\ Received' /\ Counted'
<1>1. UNCHANGED <<typ, msg, input, whole, prior, iNdEx, turns, out>>  BY DEF enc, dec, loop
<1>2. PICK x \in Unknown \cup {<<>>} : \E Q \in SUBSET (0 .. Len(x)) : Sent(x, Q) /\ (InMessage \/ PastMessage(Q))
  BY DEF Decoding
<1>3. PICK Q \in SUBSET (0 .. Len(x)) : Sent(x, Q) /\ (InMessage \/ PastMessage(Q))  BY <1>2
<1>4. Sent(x, Q)'  BY <1>1, <1>3 DEF Sent
<1>5. (InMessage \/ PastMessage(Q))'  BY <1>1, <1>3 DEF InMessage, PastMessage
<1>6. Counted'  BY <1>1 DEF Decoding, Counted
<1>7. Received'
  <2>1. Received  BY DEF Decoding
  <2>2. Received' = Received  BY <1>1 DEF Received, Held
  <2>3. QED  BY <2>1, <2>2
<1> HIDE DEF Sent, InMessage, PastMessage
<1>8. QED  BY <1>4, <1>5, <1>6, <1>7

\* Unmarshal refuses its input only when some of the message is missing, and it never panics.
LEMMA FailsTurn ==
  ASSUME EncInv, OneGroup, Decoding, UnmarshalFails
  PROVE  Decoding'
<1>1. IsMessage(typ, msg) /\ pc = "unmarshal"  BY DEF EncInv, UnmarshalFails, InLoop
<1>2. PICK x \in Unknown \cup {<<>>} : \E Q \in SUBSET (0 .. Len(x)) : Sent(x, Q) /\ (InMessage \/ PastMessage(Q))
  BY DEF Decoding
<1>3. PICK Q \in SUBSET (0 .. Len(x)) : Sent(x, Q) /\ (InMessage \/ PastMessage(Q))  BY <1>2
<1>4. iNdEx \in Nat /\ iNdEx < Len(input)  BY DEF Decoding, Counted, UnmarshalFails, InLoop
<1>5. Malformed(Field) \/ NegativeBounds(Field)  BY DEF UnmarshalFails
<1>6. PICK f \in 1 .. 3 : f \in DOMAIN msg /\ msg[f] # ZeroOf(Schema[typ][f]) /\ iNdEx = Off(typ, msg, f)
  <2>1. ~(iNdEx >= Size(typ, msg) /\ iNdEx - Size(typ, msg) \in Q)  BY <1>1, <1>3, <1>4, <1>5, UnknownTurn
  <2>2. QED  BY <2>1, <1>1, <1>3, <1>4, TurnStarts
<1>7. ~NegativeBounds(Field) /\ (Malformed(Field) => Len(input) < Size(typ, msg))
  BY <1>1, <1>3, <1>4, <1>6, MessageTurn
<1>8. ~whole
  <2>1. Len(input) < Size(typ, msg)  BY <1>5, <1>7
  <2>2. whole => Len(input) >= Size(typ, msg)  BY <1>3 DEF Sent
  <2>3. Len(input) \in Nat /\ Size(typ, msg) \in Nat
    <3>1. Size(typ, msg) \in Nat  BY <1>1, WireAt
    <3>2. QED  BY <3>1, <1>3 DEF Sent
  <2>4. QED  BY <2>1, <2>2, <2>3
<1>9. pc' = "error" /\ UNCHANGED <<enc, dec, loop>>  BY <1>7 DEF UnmarshalFails
<1>10. whole' = whole  BY <1>9 DEF dec
<1>11. QED  BY <1>8, <1>9, <1>10, DecodingKept DEF Decoding

\* Unmarshal returns when it has read everything; a type without fields reads nothing.
LEMMA ReturnsTurn ==
  ASSUME EncInv, OneGroup, Decoding, UnmarshalReturns
  PROVE  Decoding'
<1>1. pc' = "done" /\ UNCHANGED <<enc, dec, loop>> /\ pc = "unmarshal" /\ ~InLoop  BY DEF UnmarshalReturns
<1>2. iNdEx >= Len(input) \/ Schema[typ] = <<>>
  <2>1. Schema[typ] = <<>> \/ ~(iNdEx < Len(input))  BY <1>1 DEF InLoop
  <2>2. iNdEx \in Nat /\ Len(input) \in Nat  BY DEF Decoding, Counted, Sent
  <2>3. QED  BY <2>1, <2>2
<1>3. typ' = typ /\ input' = input /\ iNdEx' = iNdEx  BY <1>1 DEF enc, dec, loop
<1>4. QED  BY <1>1, <1>2, <1>3, DecodingKept DEF Decoding

\* Every step keeps DecInv, given EncInv.
LEMMA DecInductive ==
  ASSUME EncInv, DecInv, [Next]_vars
  PROVE  DecInv'
<1> DEFINE before == {"idle", "marshal", "sent"}
<1>0. UNCHANGED enc => OneGroup' = OneGroup
  <2> SUFFICES ASSUME UNCHANGED enc PROVE OneGroup' = OneGroup  OBVIOUS
  <2>1. typ' = typ /\ msg' = msg  BY DEF enc
  <2>2. QED  BY <2>1 DEF OneGroup
<1>1. ASSUME pc \in before, pc' \in before, UNCHANGED <<dec, loop>> PROVE DecInv'
  <2>1. turns' = turns /\ input' = input  BY <1>1 DEF dec, loop
  <2>2. QED  BY <1>1, <2>1 DEF DecInv
<1>2. ASSUME pc' \notin before, UNCHANGED enc, OneGroup => Decoding' PROVE DecInv'
  <2>1. OneGroup' => Decoding'  BY <1>0, <1>2
  <2> HIDE DEF OneGroup, Decoding
  <2>2. QED  BY <1>2, <2>1 DEF DecInv
<1>3. ASSUME NEW t \in Types, NEW m \in Messages(t), Marshal(t, m) PROVE DecInv'
  <2>1. pc = "idle" /\ pc' = "marshal" /\ UNCHANGED <<dec, loop>>  BY <1>3 DEF Marshal
  <2>2. QED  BY <2>1, <1>1
<1>4. CASE MarshalField
  <2>1. pc' = "marshal"  BY <1>4, MarshalFieldWrites
  <2>2. pc = "marshal" /\ UNCHANGED <<dec, loop>>  BY <1>4 DEF MarshalField
  <2>3. QED  BY <2>1, <2>2, <1>1
<1>5. CASE MarshalReturns
  <2>1. pc = "marshal" /\ pc' = "sent" /\ UNCHANGED <<dec, loop>>  BY <1>5 DEF MarshalReturns
  <2>2. QED  BY <2>1, <1>1
<1>6. ASSUME NEW p \in {Zero(typ), Used(typ)}, NEW extra \in Unknown \cup {<<>>},
             NEW cut \in 0 .. Len(dAtA) + Len(extra), Unmarshal(p, extra, cut)
      PROVE  DecInv'
  <2>1. pc = "sent" /\ pc' = "unmarshal" /\ UNCHANGED enc  BY <1>6 DEF Unmarshal
  <2>2. OneGroup => Decoding'  BY <1>6, <2>1, StartsEmpty
  <2>3. QED  BY <2>1, <2>2, <1>2
<1>7. pc = "unmarshal" => (OneGroup => Decoding)  BY DEF DecInv
<1>8. CASE DecodeField
  <2>1. pc = "unmarshal" /\ pc' = pc /\ UNCHANGED enc  BY <1>8 DEF DecodeField, InLoop
  <2>2. OneGroup => Decoding'  BY <1>8, <2>1, <1>7, DecodeTurn
  <2>3. QED  BY <2>1, <2>2, <1>2
<1>9. CASE SkipUnknown
  <2>1. pc = "unmarshal" /\ pc' = pc /\ UNCHANGED enc  BY <1>9 DEF SkipUnknown, InLoop
  <2>2. OneGroup => Decoding'  BY <1>9, <2>1, <1>7, SkipTurn
  <2>3. QED  BY <2>1, <2>2, <1>2
<1>10. CASE UnmarshalFails
  <2>1. pc = "unmarshal" /\ pc' \in {"panic", "error"} /\ UNCHANGED enc  BY <1>10 DEF UnmarshalFails, InLoop
  <2>2. OneGroup => Decoding'  BY <1>10, <2>1, <1>7, FailsTurn
  <2>3. QED  BY <2>1, <2>2, <1>2
<1>11. CASE UnmarshalReturns
  <2>1. pc = "unmarshal" /\ pc' = "done" /\ UNCHANGED enc  BY <1>11 DEF UnmarshalReturns
  <2>2. OneGroup => Decoding'  BY <1>11, <2>1, <1>7, ReturnsTurn
  <2>3. QED  BY <2>1, <2>2, <1>2
<1>12. CASE Done \/ UNCHANGED vars
  <2>1. UNCHANGED <<pc, enc, dec, loop>>  BY <1>12 DEF Done, vars
  <2>2. CASE pc \in before  BY <2>1, <2>2, <1>1
  <2>3. CASE pc \notin before
    <3>1. OneGroup => Decoding  BY <2>3 DEF DecInv
    <3>2. OneGroup => Decoding'
      <4> SUFFICES ASSUME OneGroup PROVE Decoding'  OBVIOUS
      <4>1. Decoding  BY <3>1
      <4>2. UNCHANGED <<pc, typ, input, whole, iNdEx>>  BY <2>1 DEF enc, dec, loop
      <4>3. QED  BY <2>1, <4>1, <4>2, DecodingKept DEF Decoding
    <3>3. QED  BY <2>1, <2>3, <3>2, <1>2
  <2>4. QED  BY <2>2, <2>3
<1>13. QED  BY <1>3, <1>4, <1>5, <1>6, <1>8, <1>9, <1>10, <1>11, <1>12 DEF Next

\* Both invariants hold in every reachable state.
LEMMA CodecAlways == Spec => [](EncInv /\ DecInv)
<1>1. Init => EncInv /\ DecInv  BY DEF Init, EncInv, DecInv
<1>2. EncInv /\ DecInv /\ [Next]_vars => EncInv' /\ DecInv'  BY EncInductive, DecInductive
<1>3. QED  BY <1>1, <1>2, PTL DEF Spec

\* RoundTrip always holds: whatever strings and numbers of one varint byte a message has, and
\* whatever fields of a later version follow it, complete or cut, Unmarshal accepts the bytes that
\* Marshal wrote and gives every field that is not zero the value that was sent.
THEOREM MessagesSurvive == Spec => []RoundTrip
<1>1. EncInv /\ DecInv => RoundTrip
  <2> SUFFICES ASSUME EncInv, DecInv, OneGroup, whole
               PROVE  /\ pc \notin {"error", "panic"}
                      /\ pc = "done" => \A f \in DOMAIN msg :
                           out[f] = IF msg[f] = ZeroOf(Schema[typ][f]) THEN prior[f] ELSE msg[f]
    BY DEF RoundTrip
  <2>1. pc \notin {"idle", "marshal", "sent"} => Decoding  BY DEF DecInv
  <2>2. pc \notin {"error", "panic"}  BY <2>1 DEF Decoding
  <2>3. ASSUME pc = "done", NEW f \in DOMAIN msg
        PROVE  out[f] = IF msg[f] = ZeroOf(Schema[typ][f]) THEN prior[f] ELSE msg[f]
    <3>1. Decoding /\ IsMessage(typ, msg)  BY <2>1, <2>3 DEF EncInv
    <3>2. f + 1 \in 1 .. 4 /\ DOMAIN Schema[typ] = DOMAIN msg  BY <3>1, FieldNumbers
    <3>3. iNdEx >= Len(input) /\ iNdEx \in Nat
      <4>1. Schema[typ] # <<>>
        <5>1. DOMAIN <<>> = {}  OBVIOUS
        <5>2. QED  BY <5>1, <3>2, Zenon
      <4>2. QED  BY <4>1, <3>1, <2>3 DEF Decoding, Counted
    <3>4. Len(input) >= Size(typ, msg) /\ Len(input) \in Nat  BY <3>1 DEF Decoding, Sent
    <3> DEFINE e == Off(typ, msg, f + 1)
    <3>5. e \in Nat /\ e <= Size(typ, msg) /\ Size(typ, msg) \in Nat  BY <3>1, <3>2, OffsetsGrow
    <3>6. e <= iNdEx
      <4> HIDE DEF e
      <4> QED  BY <3>3, <3>4, <3>5
    <3>7. Held(f)  BY <3>1 DEF Decoding, Received
    <3>8. QED  BY <3>6, <3>7 DEF Held
  <2>4. QED  BY <2>2, <2>3
<1>2. QED  BY <1>1, CodecAlways, PTL

\* NothingInvented always holds: cut anywhere, the bytes of a message put nothing in a field of the
\* receiver but what was sent or what it held.
THEOREM NothingIsInvented == Spec => []NothingInvented
<1>1. DecInv => NothingInvented
  <2> SUFFICES ASSUME DecInv, OneGroup, pc \in {"unmarshal", "done", "error"}, NEW f \in DOMAIN out
               PROVE  out[f] \in {prior[f], msg[f]}
    BY DEF NothingInvented
  <2>1. Received  BY DEF DecInv, Decoding
  <2>2. f \in DOMAIN msg  BY <2>1 DEF Received
  <2>3. Held(f)  BY <2>1, <2>2 DEF Received
  <2>4. QED  BY <2>3 DEF Held
<1>2. QED  BY <1>1, CodecAlways, PTL

\* UnmarshalEnds always holds: whatever follows a message whose numbers fit one varint byte, or is
\* missing of it, each turn of Unmarshal's loop consumes a byte.
THEOREM ShortMessagesEnd == Spec => []UnmarshalEnds
<1>1. DecInv => UnmarshalEnds
  <2> SUFFICES ASSUME DecInv, OneGroup PROVE turns <= Len(input)  BY DEF UnmarshalEnds
  <2>1. CASE pc \in {"idle", "marshal", "sent"}
    <3>1. turns = 0 /\ input = <<>>  BY <2>1 DEF DecInv
    <3>2. Len(<<>>) = 0  OBVIOUS
    <3>3. QED  BY <3>1, <3>2
  <2>2. CASE pc \notin {"idle", "marshal", "sent"}  BY <2>2 DEF DecInv, Decoding, Counted
  <2>3. QED  BY <2>1, <2>2
<1>2. QED  BY <1>1, CodecAlways, PTL
================================================================================
