------------------------- MODULE BinaryStreamProofs -------------------------
(***************************************************************************)
(* Proofs about BinaryStream: the library reads every number as a compiler *)
(* writes it, of whatever width, and knows where it ends.                  *)
(***************************************************************************)
EXTENDS BinaryStream, WellFoundedInduction, TLAPS

(* The bytes from position p on.                                           *)
LiesAt(bytes, p) ==
  /\ p \in Nat /\ Len(bytes) \in Nat /\ Len(data) \in Nat /\ p + Len(bytes) <= Len(data)
  /\ \A k \in 1..Len(bytes) : data[p + k] = bytes[k]

LEMMA ByteLies ==
  ASSUME NEW bytes, NEW p, LiesAt(bytes, p)
  PROVE  \A k \in 0..Len(bytes) - 1 : Byte(p + k) = bytes[k + 1]
BY DEF LiesAt, Byte

-----------------------------------------------------------------------------
(* Three bytes and a sign.                                                 *)

LEMMA ThreeBytes ==
  ASSUME NEW u \in Nat, u < 16777216
  PROVE  /\ u = (u % 256) + 256 * ((u \div 256) % 256) + 65536 * (u \div 65536)
         /\ u % 256 \in Nat /\ (u \div 256) % 256 \in Nat /\ u \div 65536 \in Nat
         /\ u < 8388608 <=> u \div 65536 < 128
BY SMT

(* read_s24 gives the number that was written (binary_stream.h:45-50).     *)
THEOREM S24ReadsBack ==
  ASSUME NEW v, Signed24(v), NEW p, LiesAt(S24Bytes(v), p)
  PROVE  S24At(p) = [v |-> v, next |-> p + 3]
<1> DEFINE u == IF v < 0 THEN v + 16777216 ELSE v
           x == u % 256
           y == (u \div 256) % 256
           z == u \div 65536
<1>1. S24Bytes(v) = <<x, y, z>> /\ p \in Nat
  BY SMT DEF S24Bytes, LiesAt
<1>2. u \in Nat /\ u < 16777216 /\ (v < 0 <=> u >= 8388608) /\ v \in Int
  BY SMT DEF Signed24
<1>3. /\ u = x + 256 * y + 65536 * z /\ x \in Nat /\ y \in Nat /\ z \in Nat
      /\ u < 8388608 <=> z < 128
  BY <1>2, ThreeBytes, SMT
<1>4. v = x + 256 * y + 65536 * (IF z < 128 THEN z ELSE z - 256)
  <2>1. v = IF v < 0 THEN u - 16777216 ELSE u
    BY <1>2, SMT
  <2> HIDE DEF u, x, y, z
  <2> QED BY <1>2, <1>3, <2>1, SMT
<1> HIDE DEF u, x, y, z
<1>5. Byte(p) = x /\ Byte(p + 1) = y /\ Byte(p + 2) = z
  <2> DEFINE bytes == <<x, y, z>>
  <2>1. /\ Len(bytes) = 3 /\ LiesAt(bytes, p)
        /\ bytes[0 + 1] = x /\ bytes[1 + 1] = y /\ bytes[2 + 1] = z
    BY <1>1, SMT
  <2> HIDE DEF bytes
  <2>2. \A k \in 0..Len(bytes) - 1 : Byte(p + k) = bytes[k + 1]
    BY <2>1, ByteLies
  <2>3. Byte(p + 0) = x /\ Byte(p + 1) = y /\ Byte(p + 2) = z
    BY <2>1, <2>2, SMT
  <2> QED BY <1>1, <2>3, SMT
<1> QED BY <1>3, <1>4, <1>5, SMT DEF S24At

-----------------------------------------------------------------------------
(* Seven bits of each byte.                                                *)

LEMMA Powers ==
  Pow[1] = 1 /\ Pow[2] = 128 /\ Pow[3] = 16384 /\ Pow[4] = 2097152 /\ Pow[5] = 268435456
BY SMT DEF Pow

LEMMA WidthFits ==
  ASSUME NEW v \in Nat
  PROVE  /\ Width(v) \in 1..5
         /\ Width(v) = 5 \/ v < Pow[Width(v) + 1]
         /\ \A l \in 1..Width(v) - 1 : v >= Pow[l + 1]
<1> DEFINE Fit(k) == (k = 5 \/ v < Pow[k + 1]) /\ \A l \in 1..k - 1 : v >= Pow[l + 1]
<1>1. \E k \in 1..5 : Fit(k)
  <2>1. CASE v < 128
    <3>1. Fit(1)
      BY <2>1, Powers, SMT
    <3> QED BY <3>1, SMT
  <2>2. CASE v >= 128 /\ v < 16384
    <3>1. Fit(2)
      BY <2>2, Powers, SMT
    <3> QED BY <3>1, SMT
  <2>3. CASE v >= 16384 /\ v < 2097152
    <3>1. Fit(3)
      BY <2>3, Powers, SMT
    <3> QED BY <3>1, SMT
  <2>4. CASE v >= 2097152 /\ v < 268435456
    <3>1. Fit(4)
      BY <2>4, Powers, SMT
    <3> QED BY <3>1, SMT
  <2>5. CASE v >= 268435456
    <3>1. Fit(5)
      BY <2>5, Powers, SMT
    <3> QED BY <3>1, SMT
  <2> QED BY <2>1, <2>2, <2>3, <2>4, <2>5, SMT
<1>2. Width(v) = CHOOSE k \in 1..5 : Fit(k)
  BY DEF Width
<1> HIDE DEF Fit
<1>3. Width(v) \in 1..5 /\ Fit(Width(v))
  BY <1>1, <1>2
<1> QED BY <1>3 DEF Fit

(* The digits of a number to the base 128.                                 *)
Digit(v, k) == (v \div Pow[k]) % 128

LEMMA Digits ==
  ASSUME NEW v, Unsigned30(v)
  PROVE  /\ v = Digit(v, 1) * Pow[1] + Digit(v, 2) * Pow[2] + Digit(v, 3) * Pow[3]
                + Digit(v, 4) * Pow[4] + Digit(v, 5) * Pow[5]
         /\ \A k \in 1..5 : Digit(v, k) \in 0..127
         /\ Digit(v, 5) \in 0..3
         /\ \A k, l \in 1..5 : l < k /\ v < Pow[l + 1] => Digit(v, k) = 0
<1>0. v \in Nat /\ v < 1073741824
  BY DEF Unsigned30
<1>1. /\ Digit(v, 1) = v % 128 /\ Digit(v, 2) = (v \div 128) % 128
      /\ Digit(v, 3) = (v \div 16384) % 128 /\ Digit(v, 4) = (v \div 2097152) % 128
      /\ Digit(v, 5) = (v \div 268435456) % 128
  BY <1>0, Powers, SMT DEF Digit
<1>2. v = (v % 128) + 128 * (v \div 128)
  BY <1>0, SMT
<1>3. v \div 128 = ((v \div 128) % 128) + 128 * (v \div 16384)
  BY <1>0, SMT
<1>4. v \div 16384 = ((v \div 16384) % 128) + 128 * (v \div 2097152)
  BY <1>0, SMT
<1>5. v \div 2097152 = ((v \div 2097152) % 128) + 128 * (v \div 268435456)
  BY <1>0, SMT
<1>6. v \div 268435456 \in 0..3 /\ (v \div 268435456) % 128 = v \div 268435456
  BY <1>0, SMT
<1>7. /\ v < 128 => v \div 128 = 0
      /\ v < 16384 => v \div 16384 = 0
      /\ v < 2097152 => v \div 2097152 = 0
      /\ v < 268435456 => v \div 268435456 = 0
  BY <1>0, SMT
<1>8. /\ v % 128 \in 0..127 /\ (v \div 128) % 128 \in 0..127
      /\ (v \div 16384) % 128 \in 0..127 /\ (v \div 2097152) % 128 \in 0..127
      /\ v \div 128 \in Nat /\ v \div 16384 \in Nat
      /\ v \div 2097152 \in Nat /\ v \div 268435456 \in Nat
  BY <1>0, SMT
<1>9. v = Digit(v, 1) * Pow[1] + Digit(v, 2) * Pow[2] + Digit(v, 3) * Pow[3]
          + Digit(v, 4) * Pow[4] + Digit(v, 5) * Pow[5]
  BY <1>0, <1>1, <1>2, <1>3, <1>4, <1>5, <1>6, <1>8, Powers, SMT
<1>10. \A k \in 1..5 : Digit(v, k) \in 0..127
  BY <1>1, <1>6, <1>8, SMT
<1>11. ASSUME NEW k \in 1..5, NEW l \in 1..5, l < k, v < Pow[l + 1]
       PROVE  Digit(v, k) = 0
  <2>1. v < Pow[k]
    BY <1>0, <1>11, Powers, SMT
  <2>2. v \div Pow[k] = 0
    BY <1>0, <1>7, <1>11, <2>1, Powers, SMT
  <2> QED BY <2>2, SMT DEF Digit
<1> QED BY <1>1, <1>6, <1>9, <1>10, <1>11, SMT

LEMMA DigitRange ==
  ASSUME NEW v, Unsigned30(v), NEW k \in 1..5
  PROVE  Digit(v, k) \in 0..127 /\ (k = 5 => Digit(v, k) \in 0..3)
BY Digits

LEMMA NoDigit ==
  ASSUME NEW v, Unsigned30(v), NEW k \in 1..5, NEW l \in 1..5, l < k, v < Pow[l + 1]
  PROVE  Digit(v, k) = 0
BY Digits

LEMMA SumOfDigits ==
  ASSUME NEW v, Unsigned30(v)
  PROVE  v = Digit(v, 1) * Pow[1] + Digit(v, 2) * Pow[2] + Digit(v, 3) * Pow[3]
               + Digit(v, 4) * Pow[4] + Digit(v, 5) * Pow[5]
BY Digits

(* The reader stops after the byte that was written last.                  *)
LEMMA ReadsToTheLast ==
  ASSUME NEW v, Unsigned30(v), NEW p, LiesAt(U30Bytes(v), p)
  PROVE  /\ More(p) = Width(v) - 1 /\ p \in Nat
         /\ \A k \in 0..Width(v) - 1 :
              Byte(p + k) = Digit(v, k + 1) + IF k + 1 < Width(v) THEN 128 ELSE 0
<1> DEFINE n == Width(v)
           Fit(k) == (k = 4 \/ Byte(p + k) < 128) /\ \A l \in 0..k - 1 : Byte(p + l) >= 128
<1>1. n \in 1..5 /\ Len(U30Bytes(v)) = n /\ p \in Nat
  BY WidthFits, SMT DEF U30Bytes, LiesAt, Unsigned30
<1>2. \A k \in 1..n : U30Bytes(v)[k] = Digit(v, k) + IF k < n THEN 128 ELSE 0
  BY SMT DEF U30Bytes, Digit
<1> HIDE DEF n
<1>3. ASSUME NEW k \in 0..n - 1
      PROVE  Byte(p + k) = Digit(v, k + 1) + IF k + 1 < n THEN 128 ELSE 0
  <2>1. \A l \in 0..Len(U30Bytes(v)) - 1 : Byte(p + l) = U30Bytes(v)[l + 1]
    BY ByteLies
  <2>2. Byte(p + k) = U30Bytes(v)[k + 1]
    BY <1>1, <2>1
  <2>3. k + 1 \in 1..n
    BY <1>1, SMT
  <2> QED BY <1>2, <2>2, <2>3
<1>4. ASSUME NEW k \in 0..n - 1
      PROVE  Digit(v, k + 1) \in 0..127
  <2>1. k + 1 \in 1..5
    BY <1>1, SMT
  <2> QED BY <2>1, DigitRange
<1>5. /\ \A k \in 0..n - 1 : k < n - 1 => Byte(p + k) >= 128
      /\ Byte(p + (n - 1)) < 128
  <2>1. ASSUME NEW k \in 0..n - 1, k < n - 1
        PROVE  Byte(p + k) >= 128
    <3>1. k + 1 < n
      BY <1>1, <2>1, SMT
    <3>2. Byte(p + k) = Digit(v, k + 1) + 128
      BY <1>3, <3>1
    <3> QED BY <1>4, <3>2, SMT
  <2>2. Byte(p + (n - 1)) < 128
    <3>1. n - 1 \in 0..n - 1 /\ ~((n - 1) + 1 < n)
      BY <1>1, SMT
    <3>2. Byte(p + (n - 1)) = Digit(v, (n - 1) + 1) + 0
      BY <1>3, <3>1
    <3> QED BY <1>4, <3>1, <3>2, SMT
  <2> QED BY <2>1, <2>2
<1>6. n - 1 \in 0..4 /\ Fit(n - 1)
  BY <1>1, <1>5, SMT
<1>7. ASSUME NEW k \in 0..4, Fit(k)
      PROVE  k = n - 1
  <2>1. ~(k < n - 1)
    <3> SUFFICES ASSUME k < n - 1 PROVE FALSE
      OBVIOUS
    <3>1. k \in 0..n - 1 /\ k # 4
      BY <1>1, SMT
    <3>2. Byte(p + k) < 128 /\ Byte(p + k) >= 128
      BY <1>5, <1>7, <3>1
    <3>3. Byte(p + k) = Digit(v, k + 1) + 128
      <4>1. k + 1 < n
        BY <1>1, SMT
      <4> QED BY <1>3, <3>1, <4>1
    <3> QED BY <1>4, <3>1, <3>2, <3>3, SMT
  <2>2. ~(k > n - 1)
    <3> SUFFICES ASSUME k > n - 1 PROVE FALSE
      OBVIOUS
    <3>1. n - 1 \in 0..k - 1 /\ n - 1 \in 0..n - 1 /\ ~((n - 1) + 1 < n)
      BY <1>1, SMT
    <3>2. Byte(p + (n - 1)) >= 128 /\ Byte(p + (n - 1)) < 128
      BY <1>5, <1>7, <3>1
    <3>3. Byte(p + (n - 1)) = Digit(v, (n - 1) + 1) + 0
      BY <1>3, <3>1
    <3> QED BY <1>4, <3>1, <3>2, <3>3, SMT
  <2> QED BY <1>1, <2>1, <2>2, SMT
<1>8. More(p) = CHOOSE k \in 0..4 : Fit(k)
  BY DEF More
<1> HIDE DEF Fit
<1>9. More(p) = n - 1
  BY <1>6, <1>7, <1>8
<1> QED BY <1>1, <1>3, <1>9 DEF n

(* read_u30 gives the number that was written, and goes on behind its last *)
(* byte (binary_stream.h:52-79).                                           *)
THEOREM U30ReadsBack ==
  ASSUME NEW v, Unsigned30(v), NEW p, LiesAt(U30Bytes(v), p)
  PROVE  U32At(p) = [v |-> v, next |-> p + Len(U30Bytes(v))]
<1>1. /\ Width(v) \in 1..5 /\ More(p) = Width(v) - 1 /\ p \in Nat
      /\ Len(U30Bytes(v)) = Width(v)
  BY WidthFits, ReadsToTheLast, SMT DEF U30Bytes, Unsigned30
<1>2. ASSUME NEW k \in 0..4
      PROVE  Part(p, k) = Digit(v, k + 1) * Pow[k + 1]
  <2>1. CASE k > More(p)
    <3>1. Digit(v, k + 1) = 0
      <4>1. v \in Nat /\ k + 1 \in 1..5 /\ Width(v) < k + 1 /\ Width(v) # 5
        BY <1>1, <2>1, SMT DEF Unsigned30
      <4>2. v < Pow[Width(v) + 1]
        BY <4>1, WidthFits
      <4> QED BY <1>1, <4>1, <4>2, NoDigit
    <3> QED BY <2>1, <3>1, Powers, SMT DEF Part
  <2>2. CASE ~(k > More(p))
    <3>1. Byte(p + k) = Digit(v, k + 1) + IF k + 1 < Width(v) THEN 128 ELSE 0
      <4>1. k \in 0..Width(v) - 1
        BY <1>1, <2>2, SMT
      <4> QED BY <4>1, ReadsToTheLast
    <3>2. Digit(v, k + 1) \in 0..127 /\ (k = 4 => Digit(v, k + 1) \in 0..3)
      <4>1. k + 1 \in 1..5 /\ (k = 4 => k + 1 = 5)
        BY SMT
      <4> QED BY <4>1, DigitRange
    <3>3. Byte(p + k) % (IF k = 4 THEN 4 ELSE 128) = Digit(v, k + 1)
      <4>1. CASE k = 4
        BY <1>1, <2>2, <3>1, <3>2, <4>1, SMT
      <4>2. CASE k # 4
        <5> DEFINE d == Digit(v, k + 1)
        <5>1. d \in Nat /\ d < 128 /\ (Byte(p + k) = d \/ Byte(p + k) = d + 128)
          BY <3>1, <3>2, SMT
        <5> HIDE DEF d
        <5>2. d % 128 = d /\ (d + 128) % 128 = d
          BY <5>1, SMT
        <5> QED BY <4>2, <5>1, <5>2 DEF d
      <4> QED BY <4>1, <4>2
    <3> QED BY <2>2, <3>3, SMT DEF Part
  <2> QED BY <2>1, <2>2
<1>3. v = Part(p, 0) + Part(p, 1) + Part(p, 2) + Part(p, 3) + Part(p, 4)
  <2>1. /\ Part(p, 0) = Digit(v, 1) * Pow[1] /\ Part(p, 1) = Digit(v, 2) * Pow[2]
        /\ Part(p, 2) = Digit(v, 3) * Pow[3] /\ Part(p, 3) = Digit(v, 4) * Pow[4]
        /\ Part(p, 4) = Digit(v, 5) * Pow[5]
    BY <1>2, SMT
  <2> QED BY <2>1, SumOfDigits
<1>4. p + More(p) + 1 = p + Len(U30Bytes(v))
  BY <1>1, SMT
<1> QED BY <1>3, <1>4 DEF U32At


-----------------------------------------------------------------------------
(* Induction: a set of numbers has a least one.                            *)

LEMMA Least ==
  ASSUME NEW T, T \subseteq Nat, T # {}
  PROVE  \E x \in T : \A y \in T : x <= y
<1> DEFINE R == OpToRel(<, Nat)
<1>1. \E x \in T : \A y \in T : ~(<<y, x>> \in R)
  BY NatLessThanWellFounded, WFMin, Zenon
<1>2. \A x, y \in T : <<y, x>> \in R <=> y < x
  BY Zenon DEF OpToRel
<1> HIDE DEF R
<1>3. PICK x \in T : \A y \in T : ~(<<y, x>> \in R)
  BY <1>1
<1>4. \A y \in T : ~(y < x)
  BY <1>2, <1>3, Zenon
<1>5. \A y \in T : x \in Nat /\ y \in Nat
  OBVIOUS
<1>6. \A y \in T : x <= y
  BY <1>4, <1>5, SMT
<1> QED BY <1>6, Zenon

LEMMA Induction ==
  ASSUME NEW n \in Nat, NEW T, 0 \in T, \A k \in 0..n - 1 : k \in T => k + 1 \in T
  PROVE  \A k \in 0..n : k \in T
<1> SUFFICES ASSUME (0..n) \ T # {} PROVE FALSE
  OBVIOUS
<1>1. PICK m \in (0..n) \ T : \A k \in (0..n) \ T : m <= k
  <2>1. (0..n) \ T \subseteq Nat
    BY SMT
  <2> QED BY <2>1, Least
<1>2. m # 0 /\ m - 1 \in 0..n - 1 /\ m - 1 \in 0..n /\ ~(m <= m - 1) /\ m - 1 + 1 = m
  BY <1>1, SMT
<1>3. m - 1 \notin T
  BY <1>1, <1>2
<1> QED BY <1>1, <1>2, <1>3

-----------------------------------------------------------------------------
(* Bytes joined.                                                           *)
Bytes == Seq(0..255)

LEMMA Joined ==
  ASSUME NEW a \in Bytes, NEW b \in Bytes
  PROVE  /\ a \o b \in Bytes /\ Len(a \o b) = Len(a) + Len(b)
         /\ Len(a) \in Nat /\ Len(b) \in Nat
BY SMT DEF Bytes

Joining(s, f) == f = [i \in 1..Len(s) |-> IF i = 1 THEN s[i] ELSE f[i - 1] \o s[i]]

(* The recursion over the parts defines a function.                        *)
LEMMA Joins ==
  ASSUME NEW s \in Seq(Bytes)
  PROVE  \E f : Joining(s, f)
<1> DEFINE Upto(n, f) == f = [i \in 1..n |-> IF i = 1 THEN s[i] ELSE f[i - 1] \o s[i]]
           T == {n \in Nat : \E f : Upto(n, f)}
<1>1. 0 \in T
  <2>1. Upto(0, [i \in 1..0 |-> s[i]])
    BY SMT
  <2> QED BY <2>1
<1>2. ASSUME NEW n \in 0..Len(s) - 1, n \in T
      PROVE  n + 1 \in T
  <2>1. PICK f : Upto(n, f)
    BY <1>2
  <2> DEFINE e == IF n = 0 THEN s[1] ELSE f[n] \o s[n + 1]
             g == [i \in 1..n + 1 |-> IF i = n + 1 THEN e ELSE f[i]]
  <2>2. n \in Nat /\ n + 1 \in Nat
    BY SMT
  <2>3. ASSUME NEW i \in 1..n + 1
        PROVE  g[i] = IF i = 1 THEN s[i] ELSE g[i - 1] \o s[i]
    <3>1. CASE i = n + 1
      <4>1. CASE n = 0
        BY <3>1, <4>1
      <4>2. CASE n # 0
        <5>1. i - 1 = n /\ n \in 1..n + 1 /\ n # n + 1 /\ i # 1
          BY <2>2, <3>1, <4>2, SMT
        <5>2. g[i - 1] = f[n]
          BY <5>1
        <5> QED BY <3>1, <4>2, <5>1, <5>2
      <4> QED BY <4>1, <4>2
    <3>2. CASE i # n + 1
      <4>1. i \in 1..n
        BY <2>2, <3>2, SMT
      <4>2. g[i] = f[i]
        BY <3>2
      <4>3. f[i] = IF i = 1 THEN s[i] ELSE f[i - 1] \o s[i]
        BY <2>1, <4>1
      <4>4. CASE i # 1
        <5>1. i - 1 \in 1..n + 1 /\ i - 1 # n + 1
          BY <2>2, <4>1, <4>4, SMT
        <5>2. g[i - 1] = f[i - 1]
          BY <5>1
        <5> QED BY <4>2, <4>3, <4>4, <5>2
      <4> QED BY <4>2, <4>3, <4>4
    <3> QED BY <3>1, <3>2
  <2>4. g = [i \in 1..n + 1 |-> g[i]]
    OBVIOUS
  <2> HIDE DEF g
  <2>5. Upto(n + 1, g)
    BY <2>3, <2>4, Zenon
  <2> QED BY <2>2, <2>5
<1> HIDE DEF T
<1>3. Len(s) \in Nat /\ Len(s) \in 0..Len(s)
  BY SMT
<1>4. Len(s) \in T
  BY <1>1, <1>2, <1>3, Induction
<1> QED BY <1>4 DEF T, Joining

Join(s) == CHOOSE f : Joining(s, f)

LEMMA JoinStep ==
  ASSUME NEW s \in Seq(Bytes), NEW k \in 1..Len(s)
  PROVE  Join(s)[k] = IF k = 1 THEN s[k] ELSE Join(s)[k - 1] \o s[k]
<1>1. Joining(s, Join(s))
  BY Joins DEF Join
<1> HIDE DEF Join
<1> QED BY <1>1 DEF Joining

LEMMA FlattenJoins ==
  ASSUME NEW s \in Seq(Bytes)
  PROVE  FlattenSeq(s) = IF Len(s) = 0 THEN s ELSE Join(s)[Len(s)]
BY Zenon DEF FlattenSeq, Join, Joining

LEMMA JoinType ==
  ASSUME NEW s \in Seq(Bytes), NEW k \in 1..Len(s)
  PROVE  Join(s)[k] \in Bytes
<1> DEFINE T == {n \in 0..Len(s) : n > 0 => Join(s)[n] \in Bytes}
<1>1. 0 \in T
  BY SMT
<1>2. ASSUME NEW n \in 0..Len(s) - 1, n \in T
      PROVE  n + 1 \in T
  <2>1. n + 1 \in 1..Len(s) /\ n \in Nat /\ n + 1 - 1 = n /\ (n + 1 = 1 <=> n = 0)
    BY SMT
  <2>2. s[n + 1] \in Bytes
    BY <2>1
  <2>3. Join(s)[n + 1] = IF n = 0 THEN s[n + 1] ELSE Join(s)[n] \o s[n + 1]
    BY <2>1, JoinStep
  <2>4. Join(s)[n + 1] \in Bytes
    <3>1. n # 0 => Join(s)[n] \in Bytes
      BY <1>2, <2>1, SMT
    <3> QED BY <2>2, <2>3, <3>1 DEF Bytes
  <2> QED BY <2>1, <2>4
<1>3. \A n \in 0..Len(s) : n \in T
  <2> HIDE DEF T
  <2>1. Len(s) \in Nat
    BY SMT
  <2> QED BY <1>1, <1>2, <2>1, Induction
<1> QED BY <1>3, SMT

(* What comes before the part k + 1.                                       *)
Before(s, k) == FlattenSeq(SubSeq(s, 1, k))

LEMMA Prefix ==
  ASSUME NEW S, NEW s \in Seq(S), NEW k \in 0..Len(s)
  PROVE  /\ SubSeq(s, 1, k) \in Seq(S) /\ Len(SubSeq(s, 1, k)) = k
         /\ \A i \in 1..k : SubSeq(s, 1, k)[i] = s[i]
BY SMT

LEMMA JoinPrefix ==
  ASSUME NEW s \in Seq(Bytes), NEW k \in 0..Len(s), NEW i \in 1..k
  PROVE  Join(SubSeq(s, 1, k))[i] = Join(s)[i]
<1> DEFINE t == SubSeq(s, 1, k)
           T == {n \in 0..k : n > 0 => Join(t)[n] = Join(s)[n]}
<1>1. t \in Seq(Bytes) /\ Len(t) = k /\ \A n \in 1..k : t[n] = s[n]
  BY Prefix
<1> HIDE DEF t
<1>2. 0 \in T
  BY SMT
<1>3. ASSUME NEW n \in 0..k - 1, n \in T
      PROVE  n + 1 \in T
  <2>1. /\ n + 1 \in 1..k /\ n + 1 \in 1..Len(s) /\ n \in Nat /\ n + 1 - 1 = n
        /\ n + 1 \in 0..k
    BY SMT
  <2>2. Join(t)[n + 1] = IF n + 1 = 1 THEN t[n + 1] ELSE Join(t)[n] \o t[n + 1]
    BY <1>1, <2>1, JoinStep
  <2>3. Join(s)[n + 1] = IF n + 1 = 1 THEN s[n + 1] ELSE Join(s)[n] \o s[n + 1]
    BY <2>1, JoinStep
  <2>4. n + 1 # 1 => Join(t)[n] = Join(s)[n]
    BY <1>3, <2>1, SMT
  <2>5. t[n + 1] = s[n + 1]
    BY <1>1, <2>1
  <2> QED BY <2>1, <2>2, <2>3, <2>4, <2>5
<1>4. \A n \in 0..k : n \in T
  <2> HIDE DEF T
  <2>1. k \in Nat
    BY SMT
  <2> QED BY <1>2, <1>3, <2>1, Induction
<1> QED BY <1>4, SMT DEF t

LEMMA BeforeIs ==
  ASSUME NEW s \in Seq(Bytes), NEW k \in 0..Len(s)
  PROVE  Before(s, k) = IF k = 0 THEN <<>> ELSE Join(s)[k]
<1> DEFINE t == SubSeq(s, 1, k)
<1>1. t \in Seq(Bytes) /\ Len(t) = k /\ (k = 0 => t = <<>>) /\ (k # 0 => k \in 1..k)
  BY SMT
<1>2. Before(s, k) = IF k = 0 THEN t ELSE Join(t)[k]
  BY <1>1, FlattenJoins DEF Before
<1>3. k # 0 => Join(t)[k] = Join(s)[k]
  BY <1>1, JoinPrefix
<1> QED BY <1>1, <1>2, <1>3

(* One part follows the other.                                             *)
LEMMA BeforeStep ==
  ASSUME NEW s \in Seq(Bytes), NEW k \in 1..Len(s)
  PROVE  Before(s, k) = Before(s, k - 1) \o s[k]
<1>1. k \in 0..Len(s) /\ k - 1 \in 0..Len(s) /\ k # 0 /\ (k - 1 = 0 <=> k = 1)
  BY SMT
<1>2. Before(s, k) = Join(s)[k]
  BY <1>1, BeforeIs
<1>3. Before(s, k - 1) = IF k = 1 THEN <<>> ELSE Join(s)[k - 1]
  BY <1>1, BeforeIs
<1>4. s[k] \in Seq(0..255)
  BY DEF Bytes
<1>5. <<>> \o s[k] = s[k]
  BY <1>4, SMT
<1> QED BY <1>2, <1>3, <1>5, JoinStep

LEMMA BeforeType ==
  ASSUME NEW s \in Seq(Bytes), NEW k \in 0..Len(s)
  PROVE  Before(s, k) \in Bytes /\ Len(Before(s, k)) \in Nat
<1>1. Before(s, k) \in Bytes
  <2>1. k # 0 => k \in 1..Len(s)
    BY SMT
  <2>2. <<>> \in Bytes
    BY DEF Bytes
  <2> QED BY <2>1, <2>2, BeforeIs, JoinType
<1> QED BY <1>1 DEF Bytes

LEMMA BeforeEnds ==
  ASSUME NEW s \in Seq(Bytes)
  PROVE  /\ Before(s, 0) = <<>> /\ Before(s, Len(s)) = FlattenSeq(s)
         /\ FlattenSeq(s) \in Bytes /\ Len(FlattenSeq(s)) \in Nat
<1>1. 0 \in 0..Len(s) /\ Len(s) \in 0..Len(s) /\ SubSeq(s, 1, Len(s)) = s
  BY SMT
<1>2. Before(s, 0) = <<>> /\ Before(s, Len(s)) = FlattenSeq(s)
  BY <1>1, BeforeIs DEF Before
<1> QED BY <1>1, <1>2, BeforeType

LEMMA BeforeLength ==
  ASSUME NEW s \in Seq(Bytes), NEW k \in 1..Len(s)
  PROVE  /\ Len(Before(s, k)) = Len(Before(s, k - 1)) + Len(s[k])
         /\ Len(s[k]) \in Nat
<1>1. k - 1 \in 0..Len(s) /\ s[k] \in Bytes
  BY SMT
<1>2. Before(s, k - 1) \in Bytes
  BY <1>1, BeforeType
<1>3. Before(s, k) = Before(s, k - 1) \o s[k]
  BY BeforeStep
<1> QED BY <1>1, <1>2, <1>3, Joined

(* If no part is empty, all that is before one is shorter than the whole.  *)
LEMMA BeforeGrows ==
  ASSUME NEW s \in Seq(Bytes), \A i \in 1..Len(s) : Len(s[i]) > 0, NEW k \in 0..Len(s)
  PROVE  /\ Len(Before(s, k)) <= Len(FlattenSeq(s))
         /\ k < Len(s) => Len(Before(s, k)) < Len(FlattenSeq(s))
<1> DEFINE m == Len(s)
           L(i) == Len(Before(s, i))
           T == {n \in 0..m : L(m - n) + n <= L(m)}
<1>1. m \in Nat /\ m \in 0..Len(s) /\ \A i \in 0..m : L(i) \in Nat
  BY BeforeType, SMT
<1>2. \A i \in 1..m : L(i) = L(i - 1) + Len(s[i]) /\ Len(s[i]) \in Nat
  BY BeforeLength
<1>3. L(m) = Len(FlattenSeq(s))
  BY BeforeEnds
<1> HIDE DEF L, m
<1>4. 0 \in T
  <2>1. m - 0 = m /\ 0 \in 0..m /\ m \in 0..m
    BY <1>1, SMT
  <2>2. L(m) + 0 <= L(m)
    BY <1>1, <2>1, SMT
  <2> QED BY <2>1, <2>2
<1>5. ASSUME NEW n \in 0..m - 1, n \in T
      PROVE  n + 1 \in T
  <2>1. m - n \in 1..m /\ (m - n) - 1 = m - (n + 1) /\ n + 1 \in 0..m
        /\ m - (n + 1) \in 0..m /\ m - n \in 0..m /\ n \in Nat /\ m \in 0..m
    BY <1>1, SMT
  <2>2. L(m - n) = L(m - (n + 1)) + Len(s[m - n]) /\ Len(s[m - n]) \in Nat
    BY <1>2, <2>1
  <2>3. Len(s[m - n]) > 0
    BY <2>1 DEF m
  <2>4. L(m - n) + n <= L(m) /\ L(m - n) \in Nat /\ L(m - (n + 1)) \in Nat /\ L(m) \in Nat
    BY <1>1, <1>5, <2>1
  <2>5. \A a, b, c, d \in Nat : a + n <= b /\ a = c + d /\ d > 0 => c + (n + 1) <= b
    BY <2>1, SMT
  <2>6. L(m - (n + 1)) + (n + 1) <= L(m)
    BY <2>2, <2>3, <2>4, <2>5, Zenon
  <2> QED BY <2>1, <2>6
<1>6. \A n \in 0..m : n \in T
  <2> HIDE DEF T
  <2> QED BY <1>1, <1>4, <1>5, Induction
<1>7. m - k \in 0..m /\ m - (m - k) = k /\ k \in 0..m /\ m \in 0..m
  BY <1>1, SMT DEF m
<1>8. L(k) + (m - k) <= L(m) /\ L(k) \in Nat /\ L(m) \in Nat
  BY <1>1, <1>6, <1>7
<1>9. L(k) <= L(m) /\ (k < m => L(k) < L(m))
  BY <1>1, <1>7, <1>8, SMT
<1> QED BY <1>3, <1>9 DEF L, m

-----------------------------------------------------------------------------
(* Parts that lie one after the other.                                     *)
LEMMA LiesBoth ==
  ASSUME NEW a \in Bytes, NEW b \in Bytes, NEW p, LiesAt(a \o b, p)
  PROVE  LiesAt(a, p) /\ LiesAt(b, p + Len(a))
<1>1. /\ a \in Seq(0..255) /\ b \in Seq(0..255) /\ Len(a) \in Nat /\ Len(b) \in Nat
      /\ Len(a \o b) = Len(a) + Len(b) /\ p \in Nat /\ Len(data) \in Nat
      /\ p + (Len(a) + Len(b)) <= Len(data)
  BY SMT DEF Bytes, LiesAt
<1>2. \A k \in 1..Len(a) + Len(b) : data[p + k] = (a \o b)[k]
  BY <1>1 DEF LiesAt
<1>3. ASSUME NEW k \in 1..Len(a)
      PROVE  data[p + k] = a[k]
  <2>1. k \in 1..Len(a) + Len(b) /\ (a \o b)[k] = a[k]
    BY <1>1, SMT
  <2> QED BY <1>2, <2>1
<1>4. ASSUME NEW k \in 1..Len(b)
      PROVE  data[(p + Len(a)) + k] = b[k]
  <2>1. /\ Len(a) + k \in 1..Len(a) + Len(b) /\ (a \o b)[Len(a) + k] = b[k]
        /\ (p + Len(a)) + k = p + (Len(a) + k)
    BY <1>1, SMT
  <2> QED BY <1>2, <2>1
<1>5. p + Len(a) <= Len(data) /\ p + Len(a) \in Nat /\ (p + Len(a)) + Len(b) <= Len(data)
  BY <1>1, SMT
<1> QED BY <1>1, <1>3, <1>4, <1>5 DEF LiesAt

LEMMA LiesBefore ==
  ASSUME NEW s \in Seq(Bytes), NEW p, LiesAt(FlattenSeq(s), p), NEW k \in 0..Len(s)
  PROVE  LiesAt(Before(s, k), p)
<1> DEFINE T == {n \in 0..Len(s) : LiesAt(Before(s, Len(s) - n), p)}
<1>1. Len(s) \in Nat
  BY SMT
<1>2. 0 \in T
  <2>1. 0 \in 0..Len(s) /\ Len(s) - 0 = Len(s)
    BY SMT
  <2> QED BY <2>1, BeforeEnds
<1>3. ASSUME NEW n \in 0..Len(s) - 1, n \in T
      PROVE  n + 1 \in T
  <2> DEFINE m == Len(s) - n
  <2>1. /\ m \in 1..Len(s) /\ m - 1 \in 0..Len(s) /\ n + 1 \in 0..Len(s)
        /\ m - 1 = Len(s) - (n + 1)
    BY <1>1, SMT
  <2> HIDE DEF m
  <2>2. Before(s, m) = Before(s, m - 1) \o s[m] /\ Before(s, m - 1) \in Bytes
    BY <2>1, BeforeStep, BeforeType
  <2>3. s[m] \in Bytes
    BY <2>1, SMT
  <2>4. LiesAt(Before(s, m), p)
    BY <1>3 DEF m
  <2>5. LiesAt(Before(s, m - 1), p)
    BY <2>2, <2>3, <2>4, LiesBoth
  <2> QED BY <2>1, <2>5
<1>4. \A n \in 0..Len(s) : n \in T
  <2> HIDE DEF T
  <2> QED BY <1>1, <1>2, <1>3, Induction
<1>5. Len(s) - k \in 0..Len(s) /\ Len(s) - (Len(s) - k) = k
  BY <1>1, SMT
<1> QED BY <1>4, <1>5

LEMMA LiesPart ==
  ASSUME NEW s \in Seq(Bytes), NEW p, LiesAt(FlattenSeq(s), p), NEW k \in 1..Len(s)
  PROVE  LiesAt(s[k], p + Len(Before(s, k - 1)))
<1>1. k \in 0..Len(s) /\ k - 1 \in 0..Len(s) /\ s[k] \in Bytes
  BY SMT
<1>2. LiesAt(Before(s, k - 1) \o s[k], p)
  BY <1>1, LiesBefore, BeforeStep
<1> QED BY <1>1, <1>2, BeforeType, LiesBoth

-----------------------------------------------------------------------------
(* Numbers of every kind.                                                  *)
NumberKinds == {"U30", "S24", "Byte"}

LEMMA U30BytesType ==
  ASSUME NEW v, Unsigned30(v)
  PROVE  U30Bytes(v) \in Bytes /\ Len(U30Bytes(v)) > 0
<1> DEFINE n == Width(v)
<1>1. v \in Nat /\ n \in 1..5
  BY WidthFits DEF Unsigned30
<1>2. U30Bytes(v) = [k \in 1..n |-> Digit(v, k) + IF k < n THEN 128 ELSE 0]
  BY DEF U30Bytes, Digit
<1> HIDE DEF n
<1>3. ASSUME NEW k \in 1..n
      PROVE  Digit(v, k) + (IF k < n THEN 128 ELSE 0) \in 0..255
  <2>1. k \in 1..5
    BY <1>1, SMT
  <2>2. Digit(v, k) \in 0..127
    BY <2>1, DigitRange
  <2> QED BY <2>2, SMT
<1> QED BY <1>1, <1>2, <1>3, SMT DEF Bytes

LEMMA S24BytesType ==
  ASSUME NEW v, Signed24(v)
  PROVE  S24Bytes(v) \in Bytes /\ Len(S24Bytes(v)) = 3
<1> DEFINE u == IF v < 0 THEN v + 16777216 ELSE v
<1>1. u \in Nat /\ u < 16777216
  BY SMT DEF Signed24
<1>2. S24Bytes(v) = <<u % 256, (u \div 256) % 256, u \div 65536>>
  BY DEF S24Bytes
<1> HIDE DEF u
<1>3. u % 256 \in 0..255 /\ (u \div 256) % 256 \in 0..255 /\ u \div 65536 \in 0..255
  BY <1>1, SMT
<1> QED BY <1>2, <1>3, SMT DEF Bytes

LEMMA NumberBytesType ==
  ASSUME NEW kind \in NumberKinds, NEW v, Numeral(kind, v)
  PROVE  NumberBytes(kind, v) \in Bytes /\ Len(NumberBytes(kind, v)) > 0
<1>1. CASE kind = "U30"
  <2>1. Unsigned30(v) /\ NumberBytes(kind, v) = U30Bytes(v)
    BY <1>1 DEF Numeral, NumberBytes
  <2> QED BY <2>1, U30BytesType
<1>2. CASE kind = "S24"
  <2>1. Signed24(v) /\ NumberBytes(kind, v) = S24Bytes(v)
    BY <1>2 DEF Numeral, NumberBytes
  <2> QED BY <2>1, S24BytesType, SMT
<1>3. CASE kind = "Byte"
  <2>1. v \in 0..255 /\ NumberBytes(kind, v) = <<v>>
    BY <1>3 DEF Numeral, NumberBytes
  <2> QED BY <2>1, SMT DEF Bytes
<1> QED BY <1>1, <1>2, <1>3 DEF NumberKinds

LEMMA NumberReadsBack ==
  ASSUME NEW kind \in NumberKinds, NEW v, Numeral(kind, v),
         NEW p, LiesAt(NumberBytes(kind, v), p)
  PROVE  NumberAt(kind, p) = [v |-> v, next |-> p + Len(NumberBytes(kind, v))]
<1>1. CASE kind = "U30"
  <2>1. /\ Unsigned30(v) /\ NumberBytes(kind, v) = U30Bytes(v)
        /\ NumberAt(kind, p) = U32At(p)
    BY <1>1 DEF Numeral, NumberBytes, NumberAt
  <2> QED BY <2>1, U30ReadsBack
<1>2. CASE kind = "S24"
  <2>1. /\ Signed24(v) /\ NumberBytes(kind, v) = S24Bytes(v)
        /\ NumberAt(kind, p) = S24At(p)
    BY <1>2 DEF Numeral, NumberBytes, NumberAt
  <2> QED BY <2>1, S24ReadsBack, S24BytesType
<1>3. CASE kind = "Byte"
  <2>1. NumberBytes(kind, v) = <<v>> /\ NumberAt(kind, p) = [v |-> Byte(p), next |-> p + 1]
    BY <1>3 DEF NumberBytes, NumberAt, ByteAt
  <2>2. /\ Len(<<v>>) = 1 /\ 0 \in 0..Len(<<v>>) - 1 /\ <<v>>[0 + 1] = v
        /\ p \in Nat /\ p + 0 = p
    BY <2>1, SMT DEF LiesAt
  <2>3. Byte(p + 0) = <<v>>[0 + 1]
    BY <2>1, <2>2, ByteLies
  <2> QED BY <2>1, <2>2, <2>3
<1> QED BY <1>1, <1>2, <1>3 DEF NumberKinds

(* Whatever lies there, a number is read, and the reader goes on.          *)
DataOK == data \in Seq(0..255)

LEMMA Elements ==
  ASSUME NEW S, NEW s \in Seq(S), NEW k \in 1..Len(s)
  PROVE  s[k] \in S
OBVIOUS

LEMMA ByteType ==
  ASSUME DataOK, NEW p \in Nat
  PROVE  Byte(p) \in 0..255
<1>1. CASE p < Len(data)
  <2>1. p + 1 \in 1..Len(data)
    BY <1>1, SMT DEF DataOK
  <2>2. data \in Seq(0..255)
    BY DEF DataOK
  <2>3. data[p + 1] \in 0..255
    BY <2>1, <2>2, Elements
  <2> QED BY <1>1, <2>1, <2>3 DEF Byte
<1>2. CASE ~(p < Len(data))
  BY <1>2, SMT DEF Byte
<1> QED BY <1>1, <1>2

LEMMA U32Type ==
  ASSUME DataOK, NEW p \in Nat
  PROVE  U32At(p).v \in Nat /\ U32At(p).next \in Nat /\ U32At(p).next > p
<1> DEFINE Fit(k) == (k = 4 \/ Byte(p + k) < 128) /\ \A l \in 0..k - 1 : Byte(p + l) >= 128
<1>0. \A k \in 0..4 : Byte(p + k) \in 0..255
  BY ByteType, SMT
<1>1. \E k \in 0..4 : Fit(k)
  <2>1. CASE Byte(p + 0) < 128
    BY <2>1, SMT
  <2>2. CASE Byte(p + 0) >= 128 /\ Byte(p + 1) < 128
    <3>1. Fit(1)
      BY <2>2, SMT
    <3> QED BY <3>1, SMT
  <2>3. CASE Byte(p + 0) >= 128 /\ Byte(p + 1) >= 128 /\ Byte(p + 2) < 128
    <3>1. Fit(2)
      BY <2>3, SMT
    <3> QED BY <3>1, SMT
  <2>4. CASE Byte(p + 0) >= 128 /\ Byte(p + 1) >= 128 /\ Byte(p + 2) >= 128 /\ Byte(p + 3) < 128
    <3>1. Fit(3)
      BY <2>4, SMT
    <3> QED BY <3>1, SMT
  <2>5. CASE Byte(p + 0) >= 128 /\ Byte(p + 1) >= 128 /\ Byte(p + 2) >= 128 /\ Byte(p + 3) >= 128
    <3>1. Fit(4)
      BY <2>5, SMT
    <3> QED BY <3>1, SMT
  <2>6. /\ Byte(p + 0) \in Int /\ Byte(p + 1) \in Int /\ Byte(p + 2) \in Int
        /\ Byte(p + 3) \in Int
    BY <1>0, SMT
  <2> QED BY <2>1, <2>2, <2>3, <2>4, <2>5, <2>6, SMT
<1>2. More(p) = CHOOSE k \in 0..4 : Fit(k)
  BY DEF More
<1> HIDE DEF Fit
<1>3. More(p) \in 0..4
  BY <1>1, <1>2
<1>4. ASSUME NEW k \in 0..4
      PROVE  Part(p, k) \in Nat
  <2>1. Pow[k + 1] \in Nat
    BY Powers, SMT
  <2>2. Byte(p + k) % (IF k = 4 THEN 4 ELSE 128) \in Nat
    BY <1>0, SMT
  <2>3. \A a, b \in Nat : a * b \in Nat
    BY SMT
  <2> QED BY <2>1, <2>2, <2>3 DEF Part
<1>5. /\ Part(p, 0) \in Nat /\ Part(p, 1) \in Nat /\ Part(p, 2) \in Nat
      /\ Part(p, 3) \in Nat /\ Part(p, 4) \in Nat
  BY <1>4, SMT
<1> QED BY <1>3, <1>5, SMT DEF U32At

LEMMA NumberType ==
  ASSUME DataOK, NEW kind \in NumberKinds, NEW p \in Nat
  PROVE  /\ NumberAt(kind, p).v \in Int /\ (kind # "S24" => NumberAt(kind, p).v \in Nat)
         /\ NumberAt(kind, p).next \in Nat /\ NumberAt(kind, p).next > p
<1>1. CASE kind = "U30"
  <2>1. NumberAt(kind, p) = U32At(p)
    BY <1>1 DEF NumberAt
  <2> QED BY <2>1, U32Type, SMT
<1>2. CASE kind = "S24"
  <2>1. NumberAt(kind, p) = S24At(p)
    BY <1>2 DEF NumberAt
  <2>2. Byte(p) \in Int /\ Byte(p + 1) \in Int /\ Byte(p + 2) \in Int
    BY ByteType, SMT
  <2>3. \A x, y, z \in Int : x + 256 * y + 65536 * (IF z < 128 THEN z ELSE z - 256) \in Int
    BY SMT
  <2>4. NumberAt(kind, p).v \in Int
    BY <2>1, <2>2, <2>3 DEF S24At
  <2>5. NumberAt(kind, p).next = p + 3
    BY <2>1 DEF S24At
  <2> QED BY <1>2, <2>4, <2>5, SMT
<1>3. CASE kind = "Byte"
  <2>1. NumberAt(kind, p) = [v |-> Byte(p), next |-> p + 1]
    BY <1>3 DEF NumberAt, ByteAt
  <2> QED BY <2>1, ByteType, SMT
<1> QED BY <1>1, <1>2, <1>3 DEF NumberKinds

-----------------------------------------------------------------------------
(* Several numbers.                                                        *)
Stepping(kinds, p, f) ==
  f = [k \in 0..Len(kinds) |-> IF k = 0 THEN p ELSE NumberAt(kinds[k], f[k - 1]).next]

(* The recursion over the numbers defines a function.                      *)
LEMMA Steps ==
  ASSUME NEW kinds \in Seq(NumberKinds), NEW p
  PROVE  \E f : Stepping(kinds, p, f)
<1> DEFINE Upto(n, f) ==
             f = [k \in 0..n |-> IF k = 0 THEN p ELSE NumberAt(kinds[k], f[k - 1]).next]
           T == {n \in Nat : \E f : Upto(n, f)}
<1>1. 0 \in T
  <2> DEFINE g == [k \in 0..0 |-> p]
  <2>1. \A k \in 0..0 : k = 0
    BY SMT
  <2>2. Upto(0, g)
    BY <2>1
  <2> QED BY <2>2
<1>2. ASSUME NEW n \in 0..Len(kinds) - 1, n \in T
      PROVE  n + 1 \in T
  <2>1. PICK f : Upto(n, f)
    BY <1>2
  <2> DEFINE e == NumberAt(kinds[n + 1], f[n]).next
             g == [k \in 0..n + 1 |-> IF k = n + 1 THEN e ELSE f[k]]
  <2>2. n \in Nat /\ n + 1 \in Nat
    BY SMT
  <2>3. ASSUME NEW k \in 0..n + 1
        PROVE  g[k] = IF k = 0 THEN p ELSE NumberAt(kinds[k], g[k - 1]).next
    <3>1. CASE k = n + 1
      <4>1. k - 1 = n /\ n \in 0..n + 1 /\ n # n + 1 /\ k # 0
        BY <2>2, <3>1, SMT
      <4>2. g[k - 1] = f[n] /\ g[k] = e
        BY <3>1, <4>1
      <4> QED BY <3>1, <4>1, <4>2
    <3>2. CASE k # n + 1
      <4>1. k \in 0..n
        BY <2>2, <3>2, SMT
      <4>2. g[k] = f[k]
        BY <3>2
      <4>3. f[k] = IF k = 0 THEN p ELSE NumberAt(kinds[k], f[k - 1]).next
        BY <2>1, <4>1
      <4>4. CASE k # 0
        <5>1. k - 1 \in 0..n + 1 /\ k - 1 # n + 1
          BY <2>2, <4>1, <4>4, SMT
        <5>2. g[k - 1] = f[k - 1]
          BY <5>1
        <5> QED BY <4>2, <4>3, <4>4, <5>2
      <4> QED BY <4>2, <4>3, <4>4
    <3> QED BY <3>1, <3>2
  <2>4. g = [k \in 0..n + 1 |-> g[k]]
    OBVIOUS
  <2> HIDE DEF g
  <2>5. Upto(n + 1, g)
    BY <2>3, <2>4, Zenon
  <2> QED BY <2>2, <2>5
<1> HIDE DEF T
<1>3. Len(kinds) \in Nat /\ Len(kinds) \in 0..Len(kinds)
  BY SMT
<1>4. Len(kinds) \in T
  BY <1>1, <1>2, <1>3, Induction
<1> QED BY <1>4 DEF T, Stepping

Start(kinds, p) == CHOOSE f : Stepping(kinds, p, f)

LEMMA StartStep ==
  ASSUME NEW kinds \in Seq(NumberKinds), NEW p, NEW k \in 0..Len(kinds)
  PROVE  Start(kinds, p)[k] =
           IF k = 0 THEN p ELSE NumberAt(kinds[k], Start(kinds, p)[k - 1]).next
<1>1. Stepping(kinds, p, Start(kinds, p))
  BY Steps DEF Start
<1> HIDE DEF Start
<1> QED BY <1>1 DEF Stepping

LEMMA NumbersFrom ==
  ASSUME NEW kinds \in Seq(NumberKinds), NEW p
  PROVE  NumbersAt(kinds, p) =
           [v |-> [k \in 1..Len(kinds) |-> NumberAt(kinds[k], Start(kinds, p)[k - 1]).v],
            next |-> Start(kinds, p)[Len(kinds)]]
BY Zenon DEF NumbersAt, Start, Stepping

(* Whatever lies there, as many numbers are read as are asked for, and the *)
(* reader does not go back.                                                *)
LEMMA StartType ==
  ASSUME DataOK, NEW kinds \in Seq(NumberKinds), NEW p \in Nat, NEW k \in 0..Len(kinds)
  PROVE  Start(kinds, p)[k] \in Nat /\ Start(kinds, p)[k] >= p
<1> DEFINE T == {n \in 0..Len(kinds) : Start(kinds, p)[n] \in Nat /\ Start(kinds, p)[n] >= p}
<1>1. Len(kinds) \in Nat
  BY SMT
<1>2. 0 \in T
  <2>1. 0 \in 0..Len(kinds)
    BY <1>1, SMT
  <2>2. Start(kinds, p)[0] = p
    BY <2>1, StartStep
  <2> QED BY <2>1, <2>2, SMT
<1>3. ASSUME NEW n \in 0..Len(kinds) - 1, n \in T
      PROVE  n + 1 \in T
  <2> DEFINE s == Start(kinds, p)[n]
  <2>1. n + 1 \in 0..Len(kinds) /\ n + 1 # 0 /\ n + 1 - 1 = n /\ n + 1 \in 1..Len(kinds)
    BY <1>1, SMT
  <2>2. kinds[n + 1] \in NumberKinds
    BY <2>1, Elements
  <2>3. Start(kinds, p)[n + 1] = NumberAt(kinds[n + 1], s).next
    BY <2>1, StartStep
  <2>4. s \in Nat /\ s >= p
    BY <1>3
  <2> HIDE DEF s
  <2>5. NumberAt(kinds[n + 1], s).next \in Nat /\ NumberAt(kinds[n + 1], s).next > s
    BY <2>2, <2>4, NumberType
  <2> QED BY <2>1, <2>3, <2>4, <2>5, SMT
<1>4. \A n \in 0..Len(kinds) : n \in T
  <2> HIDE DEF T
  <2> QED BY <1>1, <1>2, <1>3, Induction
<1> QED BY <1>4

LEMMA NumbersType ==
  ASSUME DataOK, NEW kinds \in Seq(NumberKinds), NEW p \in Nat
  PROVE  /\ NumbersAt(kinds, p).v \in Seq(Int) /\ Len(NumbersAt(kinds, p).v) = Len(kinds)
         /\ \A k \in 1..Len(kinds) : kinds[k] # "S24" => NumbersAt(kinds, p).v[k] \in Nat
         /\ NumbersAt(kinds, p).next \in Nat /\ NumbersAt(kinds, p).next >= p
<1> DEFINE from == Start(kinds, p)
<1>1. NumbersAt(kinds, p).v = [k \in 1..Len(kinds) |-> NumberAt(kinds[k], from[k - 1]).v]
  BY NumbersFrom
<1>2. NumbersAt(kinds, p).next = from[Len(kinds)]
  BY NumbersFrom
<1>3. ASSUME NEW k \in 1..Len(kinds)
      PROVE  /\ NumberAt(kinds[k], from[k - 1]).v \in Int
             /\ kinds[k] # "S24" => NumberAt(kinds[k], from[k - 1]).v \in Nat
  <2>1. kinds[k] \in NumberKinds /\ k - 1 \in 0..Len(kinds)
    BY SMT
  <2>2. from[k - 1] \in Nat
    BY <2>1, StartType
  <2> HIDE DEF from
  <2> QED BY <2>1, <2>2, NumberType
<1>4. Len(kinds) \in 0..Len(kinds) /\ Len(kinds) \in Nat
  BY SMT
<1>5. from[Len(kinds)] \in Nat /\ from[Len(kinds)] >= p
  BY <1>4, StartType
<1> HIDE DEF from
<1> QED BY <1>1, <1>2, <1>3, <1>4, <1>5, SMT

-----------------------------------------------------------------------------
(* Several numbers are read back as they were written.                     *)
Numerals(kinds, values) ==
  /\ kinds \in Seq(NumberKinds) /\ values \in Seq(Int) /\ Len(values) = Len(kinds)
  /\ \A k \in 1..Len(kinds) : Numeral(kinds[k], values[k])

Parts(kinds, values) == [k \in 1..Len(kinds) |-> NumberBytes(kinds[k], values[k])]

LEMMA PartsType ==
  ASSUME NEW kinds, NEW values, Numerals(kinds, values)
  PROVE  /\ Parts(kinds, values) \in Seq(Bytes)
         /\ Len(Parts(kinds, values)) = Len(kinds) /\ Len(kinds) \in Nat
         /\ Written(kinds, values) = FlattenSeq(Parts(kinds, values))
         /\ \A k \in 1..Len(kinds) :
              Parts(kinds, values)[k] = NumberBytes(kinds[k], values[k])
<1>1. kinds \in Seq(NumberKinds) /\ Len(kinds) \in Nat
  BY DEF Numerals
<1>2. ASSUME NEW k \in 1..Len(kinds)
      PROVE  NumberBytes(kinds[k], values[k]) \in Bytes
  <2>1. kinds[k] \in NumberKinds
    BY <1>1, Elements
  <2>2. Numeral(kinds[k], values[k])
    BY DEF Numerals
  <2> QED BY <2>1, <2>2, NumberBytesType
<1>3. Written(kinds, values) = FlattenSeq(Parts(kinds, values))
  BY Zenon DEF Written, Parts
<1>4. Parts(kinds, values) = [k \in 1..Len(kinds) |-> NumberBytes(kinds[k], values[k])]
  BY DEF Parts
<1> QED BY <1>1, <1>2, <1>3, <1>4, SMT

LEMMA WrittenType ==
  ASSUME NEW kinds, NEW values, Numerals(kinds, values)
  PROVE  Written(kinds, values) \in Bytes /\ Len(Written(kinds, values)) \in Nat
BY PartsType, BeforeEnds

THEOREM NumbersReadBack ==
  ASSUME NEW kinds, NEW values, Numerals(kinds, values),
         NEW p, LiesAt(Written(kinds, values), p)
  PROVE  NumbersAt(kinds, p) = [v |-> values, next |-> p + Len(Written(kinds, values))]
<1> DEFINE parts == Parts(kinds, values)
           T == {k \in 0..Len(kinds) :
                   Start(kinds, p)[k] = p + Len(Before(parts, k))}
<1>1. /\ parts \in Seq(Bytes) /\ Len(parts) = Len(kinds) /\ Len(kinds) \in Nat
      /\ Written(kinds, values) = FlattenSeq(parts)
      /\ \A k \in 1..Len(kinds) : parts[k] = NumberBytes(kinds[k], values[k])
  BY PartsType
<1>2. kinds \in Seq(NumberKinds) /\ p \in Nat
  BY DEF Numerals, LiesAt
<1> HIDE DEF parts
<1>3. ASSUME NEW k \in 0..Len(kinds) - 1
      PROVE  NumberAt(kinds[k + 1], p + Len(Before(parts, k))) =
               [v |-> values[k + 1], next |-> p + Len(Before(parts, k + 1))]
  <2> DEFINE s == p + Len(Before(parts, k))
  <2>1. /\ k + 1 \in 1..Len(kinds) /\ (k + 1) - 1 = k
        /\ k \in 0..Len(kinds) /\ k + 1 \in 0..Len(kinds)
    BY <1>1, SMT
  <2>2. kinds[k + 1] \in NumberKinds
    BY <1>2, <2>1, Elements
  <2>3. Numeral(kinds[k + 1], values[k + 1])
    BY <2>1 DEF Numerals
  <2>4. LiesAt(NumberBytes(kinds[k + 1], values[k + 1]), s)
    <3>1. LiesAt(parts[k + 1], p + Len(Before(parts, (k + 1) - 1)))
      BY <1>1, <2>1, LiesPart
    <3> QED BY <1>1, <2>1, <3>1
  <2>5. NumberAt(kinds[k + 1], s) =
          [v |-> values[k + 1], next |-> s + Len(NumberBytes(kinds[k + 1], values[k + 1]))]
    BY <2>2, <2>3, <2>4, NumberReadsBack
  <2>6. /\ Len(Before(parts, k + 1)) = Len(Before(parts, k)) + Len(parts[k + 1])
        /\ Len(parts[k + 1]) \in Nat /\ Len(Before(parts, k)) \in Nat
    <3>1. Len(Before(parts, k + 1)) = Len(Before(parts, (k + 1) - 1)) + Len(parts[k + 1])
      BY <1>1, <2>1, BeforeLength
    <3>2. Len(parts[k + 1]) \in Nat
      BY <1>1, <2>1, BeforeLength
    <3>3. Len(Before(parts, k)) \in Nat
      BY <1>1, <2>1, BeforeType
    <3> QED BY <2>1, <3>1, <3>2, <3>3
  <2>7. s + Len(parts[k + 1]) = p + Len(Before(parts, k + 1))
    <3>1. \A a, b \in Nat : (p + a) + b = p + (a + b)
      BY <1>2, SMT
    <3> QED BY <2>6, <3>1
  <2> QED BY <1>1, <2>1, <2>5, <2>7
<1>4. 0 \in T
  <2>1. 0 \in 0..Len(kinds)
    BY <1>1, SMT
  <2>2. Start(kinds, p)[0] = p
    BY <1>2, <2>1, StartStep
  <2>3. p + Len(Before(parts, 0)) = p
    <3>1. Before(parts, 0) = <<>> /\ Len(<<>>) = 0
      BY <1>1, BeforeEnds, SMT
    <3> QED BY <1>2, <3>1, SMT
  <2> QED BY <2>1, <2>2, <2>3
<1>5. ASSUME NEW n \in 0..Len(kinds) - 1, n \in T
      PROVE  n + 1 \in T
  <2>1. n + 1 \in 0..Len(kinds) /\ n + 1 # 0 /\ (n + 1) - 1 = n
    BY <1>1, SMT
  <2>2. Start(kinds, p)[n + 1] = NumberAt(kinds[n + 1], Start(kinds, p)[n]).next
    BY <1>2, <2>1, StartStep
  <2>3. Start(kinds, p)[n] = p + Len(Before(parts, n))
    BY <1>5
  <2>4. NumberAt(kinds[n + 1], p + Len(Before(parts, n))) =
          [v |-> values[n + 1], next |-> p + Len(Before(parts, n + 1))]
    BY <1>3
  <2> QED BY <2>1, <2>2, <2>3, <2>4
<1>6. \A k \in 0..Len(kinds) : Start(kinds, p)[k] = p + Len(Before(parts, k))
  <2>1. \A k \in 0..Len(kinds) : k \in T
    <3> HIDE DEF T
    <3> QED BY <1>1, <1>4, <1>5, Induction
  <2> QED BY <2>1
<1>7. NumbersAt(kinds, p).next = p + Len(Written(kinds, values))
  <2>1. Len(kinds) \in 0..Len(kinds)
    BY <1>1, SMT
  <2>2. Before(parts, Len(kinds)) = Written(kinds, values)
    BY <1>1, BeforeEnds
  <2>3. Start(kinds, p)[Len(kinds)] = p + Len(Written(kinds, values))
    BY <1>6, <2>1, <2>2
  <2> QED BY <1>2, <2>3, NumbersFrom
<1>8. ASSUME NEW k \in 1..Len(kinds)
      PROVE  NumberAt(kinds[k], Start(kinds, p)[k - 1]).v = values[k]
  <2>1. k - 1 \in 0..Len(kinds) - 1 /\ (k - 1) + 1 = k /\ k - 1 \in 0..Len(kinds)
    BY <1>1, SMT
  <2>2. Start(kinds, p)[k - 1] = p + Len(Before(parts, k - 1))
    BY <1>6, <2>1
  <2>3. NumberAt(kinds[(k - 1) + 1], p + Len(Before(parts, k - 1))) =
          [v |-> values[(k - 1) + 1], next |-> p + Len(Before(parts, (k - 1) + 1))]
    BY <1>3, <2>1
  <2> QED BY <2>1, <2>2, <2>3
<1>9. NumbersAt(kinds, p).v = values
  <2>1. NumbersAt(kinds, p).v =
          [k \in 1..Len(kinds) |-> NumberAt(kinds[k], Start(kinds, p)[k - 1]).v]
    BY <1>2, NumbersFrom
  <2>2. values \in Seq(Int) /\ Len(values) = Len(kinds)
    BY DEF Numerals
  <2>3. values = [k \in 1..Len(kinds) |-> values[k]]
    BY <2>2, SMT
  <2> QED BY <1>8, <2>1, <2>3
<1> QED BY <1>2, <1>7, <1>9, NumbersFrom

LEMMA AllType ==
  ASSUME NEW kind \in NumberKinds, NEW n \in Nat
  PROVE  /\ All(kind, n) \in Seq(NumberKinds) /\ Len(All(kind, n)) = n
         /\ \A k \in 1..n : All(kind, n)[k] = kind
<1>1. All(kind, n) = [k \in 1..n |-> kind]
  BY DEF All
<1> QED BY <1>1, SMT

LEMMA AllNumerals ==
  ASSUME NEW kind \in NumberKinds, NEW values \in Seq(Int),
         \A k \in 1..Len(values) : Numeral(kind, values[k])
  PROVE  Numerals(All(kind, Len(values)), values)
<1>1. Len(values) \in Nat
  BY SMT
<1> QED BY <1>1, AllType DEF Numerals

(* Numbers that can be written, all of 30 bits.                            *)
Unsigned30s(values) ==
  values \in Seq(Int) /\ \A k \in 1..Len(values) : Unsigned30(values[k])

LEMMA U30sReadBack ==
  ASSUME NEW values, Unsigned30s(values)
  PROVE  /\ U30s(values) \in Bytes /\ Len(U30s(values)) \in Nat
         /\ \A p : LiesAt(U30s(values), p) =>
              NumbersAt(All("U30", Len(values)), p) =
                [v |-> values, next |-> p + Len(U30s(values))]
<1>1. "U30" \in NumberKinds
  BY DEF NumberKinds
<1>2. values \in Seq(Int) /\ \A k \in 1..Len(values) : Numeral("U30", values[k])
  BY DEF Unsigned30s, Numeral
<1>3. Numerals(All("U30", Len(values)), values)
  BY <1>1, <1>2, AllNumerals
<1>4. U30s(values) = Written(All("U30", Len(values)), values)
  BY DEF U30s
<1> QED BY <1>3, <1>4, WrittenType, NumbersReadBack

LEMMA U30Type ==
  ASSUME NEW v, Unsigned30(v)
  PROVE  /\ U30Bytes(v) \in Bytes /\ Len(U30Bytes(v)) \in Nat /\ v \in Nat
         /\ Unsigned30s(<<v>>)
<1>1. U30Bytes(v) \in Bytes
  BY U30BytesType
<1>2. v \in Nat
  BY DEF Unsigned30
<1> QED BY <1>1, <1>2, SMT DEF Bytes, Unsigned30s

(* Everything lies at the beginning.                                       *)
LEMMA LiesAtStart ==
  ASSUME NEW bytes \in Bytes, data = bytes
  PROVE  LiesAt(bytes, 0) /\ DataOK /\ Len(bytes) \in Nat /\ Len(data) = Len(bytes)
<1>1. Len(bytes) \in Nat /\ \A k \in 1..Len(bytes) : data[0 + k] = bytes[k]
  BY SMT DEF Bytes
<1>2. 0 + Len(bytes) <= Len(data)
  BY <1>1, SMT
<1> QED BY <1>1, <1>2 DEF LiesAt, DataOK, Bytes

=============================================================================
