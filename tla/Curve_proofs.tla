---------------------------- MODULE Curve_proofs ----------------------------
(***************************************************************************)
(* Proofs about ScalarMult and DoubleMult, for every number of bytes and   *)
(* every curve.                                                            *)
(***************************************************************************)
EXTENDS DoubleMult, ModLemmas

LEMMA MultNumbers ==
  /\ Bytes \in Nat \ {0} /\ Digits = 2 * Bytes /\ Digits \in Nat \ {0, 1}
  /\ P \in Nat \ {0, 1} /\ D \in 0..P-1 /\ D \in Int /\ Order \in Nat \ {0}
  BY BytesAssumption, CurveAssumption DEF Digits

LEMMA Power16Exists ==
  \E f : f = [n \in 0..Digits+1 |-> IF n = 0 THEN 1 ELSE 16 * f[n - 1]]
<1> DEFINE G == [k \in 1..Digits+1 |-> [v \in Nat |-> 16 * v]]
<1>1. G \in Steps(Digits + 1, Nat)
  BY DEF Steps
<1>2. \A k \in 1..Digits+1 : \A v \in Nat : G[k][v] = 16 * v
  OBVIOUS
<1> HIDE DEF G
<1>3. PICK f \in [0..(Digits + 1) -> Nat] : IsIterated(f, Digits + 1, 1, G)
  <2>1. 1 \in Nat /\ Digits + 1 \in Nat
    BY MultNumbers
  <2> QED
    BY <1>1, <2>1, RecursionExists, Zenon
<1>4. ASSUME NEW k \in 1..Digits+1 PROVE f[k] = 16 * f[k - 1]
  <2>1. k - 1 \in 0..(Digits + 1)
    BY MultNumbers
  <2>2. f[k] = G[k][f[k - 1]] /\ f[k - 1] \in Nat
    BY <1>3, <2>1 DEF IsIterated
  <2> QED
    BY <1>2, <2>2
<1>5. f = [n \in 0..Digits+1 |-> IF n = 0 THEN 1 ELSE 16 * f[n - 1]]
  BY <1>3, <1>4 DEF IsIterated
<1> QED
  BY <1>5

LEMMA Power16Is ==
  /\ Power16 \in [0..Digits+1 -> Nat \ {0}] /\ Power16[0] = 1
  /\ \A n \in 1..Digits+1 : Power16[n] = 16 * Power16[n - 1]
<1> DEFINE body(f) == [n \in 0..Digits+1 |-> IF n = 0 THEN 1 ELSE 16 * f[n - 1]]
           h == CHOOSE f : f = body(f)
<1>1. h = body(h)
  BY Power16Exists
<1>2. Power16 = h
  BY DEF Power16
<1> HIDE DEF h
<1>3. h[0] = 1 /\ \A k \in 1..Digits+1 : h[k] = 16 * h[k - 1]
  <2>1. \A k \in 0..Digits+1 : h[k] = IF k = 0 THEN 1 ELSE 16 * h[k - 1]
    BY <1>1, Zenon
  <2> HIDE DEF body
  <2> QED
    BY <2>1, MultNumbers
<1> DEFINE T == {k \in 0..Digits+1 : h[k] \in Nat \ {0}}
<1>4. 0 \in T
  BY <1>3, MultNumbers
<1>5. ASSUME NEW k \in 0..(Digits + 1)-1, k \in T PROVE k + 1 \in T
  <2>1. h[k + 1] = 16 * h[k]
    BY <1>3, MultNumbers
  <2> QED
    BY <1>5, <2>1, MultNumbers
<1> HIDE DEF T
<1>6. 0..(Digits + 1) \subseteq T
  <2>1. Digits + 1 \in Nat
    BY MultNumbers
  <2> QED
    BY <1>4, <1>5, <2>1, InductionUpTo
<1>7. h \in [0..Digits+1 -> Nat \ {0}]
  BY <1>1, <1>6 DEF T
<1> QED
  BY <1>2, <1>3, <1>7

(* fe_invert. *)
LEMMA FePowersExist ==
  ASSUME NEW n \in Nat, NEW z \in Int
  PROVE  \E f : f = [k \in 0..n |-> IF k = 0 THEN 1 ELSE FeMul(f[k - 1], z)]
<1> DEFINE G == [k \in 1..n |-> [v \in Int |-> FeMul(v, z)]]
<1>1. G \in Steps(n, Int)
  BY MultNumbers DEF Steps, FeMul
<1>2. \A k \in 1..n : \A v \in Int : G[k][v] = FeMul(v, z)
  OBVIOUS
<1> HIDE DEF G
<1>3. PICK f \in [0..n -> Int] : IsIterated(f, n, 1, G)
  <2>1. 1 \in Int
    OBVIOUS
  <2> QED
    BY <1>1, <2>1, RecursionExists, Zenon
<1>4. \A k \in 1..n : f[k] = FeMul(f[k - 1], z)
  BY <1>2, <1>3 DEF IsIterated
<1>5. f = [k \in 0..n |-> IF k = 0 THEN 1 ELSE FeMul(f[k - 1], z)]
  BY <1>3, <1>4 DEF IsIterated
<1> QED
  BY <1>5

LEMMA FePowerType ==
  ASSUME NEW n \in Nat, NEW z \in Int
  PROVE  FePower(z, n) \in 0..P-1
<1> DEFINE body(f) == [k \in 0..n |-> IF k = 0 THEN 1 ELSE FeMul(f[k - 1], z)]
           h == CHOOSE f : f = body(f)
<1>1. h = body(h)
  BY FePowersExist
<1>2. FePower(z, n) = h[n]
  BY DEF FePower
<1> HIDE DEF h
<1>3. h[0] = 1 /\ \A k \in 1..n : h[k] = FeMul(h[k - 1], z)
  <2>1. \A k \in 0..n : h[k] = IF k = 0 THEN 1 ELSE FeMul(h[k - 1], z)
    BY <1>1, Zenon
  <2> HIDE DEF body
  <2> QED
    BY <2>1
<1> DEFINE T == {k \in 0..n : h[k] \in 0..P-1}
<1>4. 0 \in T
  BY <1>3, MultNumbers
<1>5. ASSUME NEW k \in 0..n-1, k \in T PROVE k + 1 \in T
  <2>1. h[k + 1] = FeMul(h[k], z) /\ h[k] \in Int
    BY <1>3, <1>5
  <2>2. FeMul(h[k], z) \in 0..P-1
    BY <2>1, MultNumbers DEF FeMul
  <2> QED
    BY <2>1, <2>2
<1> HIDE DEF T
<1>6. 0..n \subseteq T
  BY <1>4, <1>5, InductionUpTo
<1> QED
  BY <1>2, <1>6 DEF T

LEMMA FeInvertType == FeInvert \in [0..P-1 -> 0..P-1]
<1>1. P - 2 \in Nat
  BY MultNumbers
<1>2. \A z \in 0..P-1 : FePower(z, P - 2) \in 0..P-1
  BY <1>1, FePowerType
<1> QED
  BY <1>2 DEF FeInvert

-----------------------------------------------------------------------------
(* Types of the formulas.                                                  *)

Fe == 0..P-1

LEMMA FeTypes ==
  ASSUME NEW f \in Int, NEW g \in Int
  PROVE  /\ FeAdd(f, g) \in Fe /\ FeSub(f, g) \in Fe /\ FeMul(f, g) \in Fe
         /\ FeNeg(f) \in Fe /\ FeSq(f) \in Fe
  BY MultNumbers DEF Fe, FeAdd, FeSub, FeMul, FeNeg, FeSq

LEMMA FeInt == Fe \subseteq Int /\ 0 \in Fe /\ 1 \in Fe
  BY MultNumbers DEF Fe

LEMMA ToP3Type ==
  ASSUME NEW r \in [X : Fe, Y : Fe, Z : Fe, T : Fe]
  PROVE  ToP3(r) \in [X : Fe, Y : Fe, Z : Fe, T : Fe]
         /\ ToP2(r) \in [X : Fe, Y : Fe, Z : Fe]
  BY FeTypes, FeInt DEF ToP3, ToP2

LEMMA CompletedType ==
  ASSUME NEW p \in [X : Fe, Y : Fe, Z : Fe, T : Fe], NEW yp \in Fe, NEW ym \in Fe,
         NEW c \in Fe, NEW z2 \in Fe
  PROVE  Completed(p, yp, ym, c, z2) \in [X : Fe, Y : Fe, Z : Fe, T : Fe]
<1> DEFINE plus  == FeMul(FeAdd(p.Y, p.X), yp)
           minus == FeMul(FeSub(p.Y, p.X), ym)
<1>1. p.X \in Int /\ p.Y \in Int /\ yp \in Int /\ ym \in Int /\ c \in Int /\ z2 \in Int
  BY FeInt
<1>2. plus \in Int /\ minus \in Int
  <2>1. FeAdd(p.Y, p.X) \in Int /\ FeSub(p.Y, p.X) \in Int
    BY <1>1, FeTypes, FeInt
  <2> QED
    BY <1>1, <2>1, FeTypes, FeInt
<1> HIDE DEF plus, minus
<1>3. FeSub(plus, minus) \in Fe /\ FeAdd(plus, minus) \in Fe
  BY <1>2, FeTypes
<1>4. FeAdd(z2, c) \in Fe /\ FeSub(z2, c) \in Fe
  BY <1>1, FeTypes
<1> QED
  BY <1>3, <1>4 DEF Completed, plus, minus

LEMMA GeDblType ==
  ASSUME NEW p \in [X : Fe, Y : Fe, Z : Fe]
  PROVE  GeDbl(p) \in [X : Fe, Y : Fe, Z : Fe, T : Fe]
<1> DEFINE xx == FeSq(p.X)
           yy == FeSq(p.Y)
           sum2 == FeSq(FeAdd(p.X, p.Y))
           zz2 == FeAdd(FeSq(p.Z), FeSq(p.Z))
           dif == FeSub(yy, xx)
<1>1. xx \in Fe /\ yy \in Fe /\ FeSq(p.Z) \in Fe /\ FeAdd(p.X, p.Y) \in Fe
  BY FeTypes, FeInt
<1>2. sum2 \in Fe /\ zz2 \in Fe /\ dif \in Fe
  BY <1>1, FeTypes, FeInt
<1>3. FeAdd(yy, xx) \in Fe
  BY <1>1, FeTypes, FeInt
<1> HIDE DEF xx, yy, sum2, zz2, dif
<1>4. FeSub(sum2, FeAdd(yy, xx)) \in Fe /\ FeSub(zz2, dif) \in Fe
  BY <1>2, <1>3, FeTypes, FeInt
<1> QED
  BY <1>2, <1>3, <1>4 DEF GeDbl, xx, yy, sum2, zz2, dif

LEMMA GeMAddType ==
  ASSUME NEW p \in [X : Fe, Y : Fe, Z : Fe, T : Fe],
         NEW t \in [yplusx : Fe, yminusx : Fe, xy2d : Fe]
  PROVE  /\ GeMAdd(p, t) \in [X : Fe, Y : Fe, Z : Fe, T : Fe]
         /\ GeMSub(p, t) \in [X : Fe, Y : Fe, Z : Fe, T : Fe]
<1>1. t.yplusx \in Fe /\ t.yminusx \in Fe /\ t.xy2d \in Int /\ p.T \in Int /\ p.Z \in Int
  BY FeInt
<1>2. FeMul(t.xy2d, p.T) \in Fe /\ FeAdd(p.Z, p.Z) \in Fe
  BY <1>1, FeTypes
<1>3. FeNeg(FeMul(t.xy2d, p.T)) \in Fe
  BY <1>2, FeTypes, FeInt
<1> QED
  BY <1>1, <1>2, <1>3, CompletedType DEF GeMAdd, GeMSub

LEMMA PrecompType ==
  ASSUME NEW q \in [x : Fe, y : Fe]
  PROVE  Precomp(q) \in [yplusx : Fe, yminusx : Fe, xy2d : Fe]
<1>1. q.x \in Int /\ q.y \in Int /\ D \in Int
  BY FeInt, MultNumbers
<1>2. FeMul(q.x, q.y) \in Int /\ FeAdd(D, D) \in Int
  BY <1>1, FeTypes, FeInt
<1> QED
  BY <1>1, <1>2, FeTypes DEF Precomp

(* The affine law. *)
LEMMA PlusType ==
  ASSUME NEW q \in [x : Fe, y : Fe], NEW r \in [x : Fe, y : Fe]
  PROVE  Plus(q, r) \in [x : Fe, y : Fe]
<1> DEFINE t == Cross(q, r)
           nx == FeAdd(FeMul(q.x, r.y), FeMul(q.y, r.x))
           ny == FeAdd(FeMul(q.y, r.y), FeMul(q.x, r.x))
<1>1. q.x \in Int /\ q.y \in Int /\ r.x \in Int /\ r.y \in Int /\ D \in Int
  BY FeInt, MultNumbers
<1>2. /\ FeMul(q.x, r.x) \in Int /\ FeMul(q.y, r.y) \in Int
      /\ FeMul(q.x, r.y) \in Int /\ FeMul(q.y, r.x) \in Int
  BY <1>1, FeTypes, FeInt
<1>3. FeMul(FeMul(q.x, r.x), FeMul(q.y, r.y)) \in Int /\ nx \in Int /\ ny \in Int
  BY <1>2, FeTypes, FeInt
<1>4. t \in Int
  BY <1>1, <1>3, FeTypes, FeInt DEF Cross
<1> HIDE DEF t, nx, ny
<1>5. FeAdd(1, t) \in Fe /\ FeSub(1, t) \in Fe
  BY <1>4, FeTypes
<1>6. FeInvert[FeAdd(1, t)] \in Int /\ FeInvert[FeSub(1, t)] \in Int
  BY <1>5, FeInvertType, FeInt DEF Fe
<1>7. FeMul(nx, FeInvert[FeAdd(1, t)]) \in Fe /\ FeMul(ny, FeInvert[FeSub(1, t)]) \in Fe
  BY <1>3, <1>6, FeTypes
<1> QED
  BY <1>7 DEF Plus, Affine, t, nx, ny

LEMMA BasePoint == Affine(BaseX, BaseY) \in [x : Fe, y : Fe]
  BY CurveAssumption DEF Curve, Fe

LEMMA MultiplesExist ==
  ASSUME NEW q \in [x : Fe, y : Fe], NEW n \in Nat
  PROVE  \E f : f = [k \in 0..n |-> IF k = 0 THEN Affine(0, 1) ELSE Plus(f[k - 1], q)]
<1> DEFINE S == [x : Fe, y : Fe]
           G == [k \in 1..n |-> [v \in S |-> Plus(v, q)]]
<1>1. G \in Steps(n, S)
  <2>1. \A v \in S : Plus(v, q) \in S
    BY PlusType
  <2> HIDE DEF S
  <2> QED
    BY <2>1 DEF Steps
<1>2. \A k \in 1..n : \A v \in S : G[k][v] = Plus(v, q)
  OBVIOUS
<1>3. Affine(0, 1) \in S
  BY FeInt DEF Affine
<1> HIDE DEF G, S
<1>4. PICK f \in [0..n -> S] : IsIterated(f, n, Affine(0, 1), G)
  BY <1>1, <1>3, RecursionExists, Zenon
<1>5. ASSUME NEW k \in 1..n PROVE f[k] = Plus(f[k - 1], q)
  <2>1. k - 1 \in 0..n
    OBVIOUS
  <2>2. f[k] = G[k][f[k - 1]] /\ f[k - 1] \in S
    BY <1>4, <2>1 DEF IsIterated
  <2> QED
    BY <1>2, <2>2
<1>6. f = [k \in 0..n |-> IF k = 0 THEN Affine(0, 1) ELSE Plus(f[k - 1], q)]
  BY <1>4, <1>5 DEF IsIterated
<1> QED
  BY <1>6

LEMMA MultiplesAre ==
  ASSUME NEW q \in [x : Fe, y : Fe], NEW n \in Nat
  PROVE  /\ MultiplesOf(q, n) \in [0..n -> [x : Fe, y : Fe]]
         /\ MultiplesOf(q, n)[0] = Affine(0, 1)
         /\ \A k \in 1..n : MultiplesOf(q, n)[k] = Plus(MultiplesOf(q, n)[k - 1], q)
<1> DEFINE body(f) == [k \in 0..n |-> IF k = 0 THEN Affine(0, 1) ELSE Plus(f[k - 1], q)]
           h == CHOOSE f : f = body(f)
           S == [x : Fe, y : Fe]
           M == MultiplesOf(q, n)
<1>1. h = body(h)
  BY MultiplesExist
<1>2. M = [k \in 0..n |-> h[k]]
  BY DEF MultiplesOf
<1> HIDE DEF h, M
<1>3. h[0] = Affine(0, 1) /\ \A k \in 1..n : h[k] = Plus(h[k - 1], q)
  <2>1. \A k \in 0..n : h[k] = IF k = 0 THEN Affine(0, 1) ELSE Plus(h[k - 1], q)
    BY <1>1, Zenon
  <2> HIDE DEF body
  <2> QED
    BY <2>1
<1> DEFINE T == {k \in 0..n : h[k] \in S}
<1>4. 0 \in T
  BY <1>3, FeInt DEF Affine
<1>5. ASSUME NEW k \in 0..n-1, k \in T PROVE k + 1 \in T
  <2>1. k + 1 \in 1..n /\ (k + 1) - 1 = k
    OBVIOUS
  <2>2. h[k + 1] = Plus(h[k], q)
    BY <1>3, <2>1
  <2>3. h[k] \in S
    BY <1>5
  <2>4. Plus(h[k], q) \in S
    BY <2>3, PlusType
  <2> QED
    BY <2>1, <2>2, <2>4
<1> HIDE DEF T
<1>6. 0..n \subseteq T
  BY <1>4, <1>5, InductionUpTo
<1>7. \A k \in 0..n : h[k] \in S /\ M[k] = h[k]
  BY <1>2, <1>6 DEF T
<1> HIDE DEF S, body
<1>8. M \in [0..n -> S]
  BY <1>2, <1>7
<1>9. ASSUME NEW k \in 1..n PROVE M[k] = Plus(M[k - 1], q)
  <2>1. k \in 0..n /\ k - 1 \in 0..n
    OBVIOUS
  <2> QED
    BY <1>3, <1>7, <2>1
<1>10. M[0] = Affine(0, 1)
  BY <1>3, <1>7
<1> QED
  BY <1>8, <1>9, <1>10 DEF S, M

LEMMA MultipleIs ==
  /\ Multiple \in [0..Order -> [x : Fe, y : Fe]] /\ Multiple[0] = Affine(0, 1)
  /\ \A k \in 1..Order : Multiple[k] = Plus(Multiple[k - 1], Affine(BaseX, BaseY))
  BY MultiplesAre, BasePoint, MultNumbers, Zenon DEF Multiple

LEMMA TimesBaseType ==
  ASSUME NEW n \in Int
  PROVE  TimesBase(n) \in [x : Fe, y : Fe]
<1>1. n % Order \in 0..Order
  BY MultNumbers
<1> QED
  BY <1>1, MultipleIs DEF TimesBase

LEMMA SelectType ==
  ASSUME NEW pos \in 0..Bytes-1, NEW b \in -8..8
  PROVE  Select(pos, b) \in [yplusx : Fe, yminusx : Fe, xy2d : Fe]
<1> DEFINE babs == IF b < 0 THEN -b ELSE b
           t    == IF babs \in 1..8 THEN Base[pos][babs - 1]
                   ELSE [yplusx |-> 1, yminusx |-> 1, xy2d |-> 0]
           S    == [yplusx : Fe, yminusx : Fe, xy2d : Fe]
<1>1. babs \in 0..8
  OBVIOUS
<1>2. t \in S
  <2>1. CASE babs \in 1..8
    <3>1. 2 * pos \in 0..Digits+1
      BY MultNumbers
    <3>2. ((babs - 1) + 1) * Power16[2 * pos] \in Int
      <4>1. Power16[2 * pos] \in Int
        BY <3>1, Power16Is
      <4> QED
        BY <1>1, <4>1
    <3>3. Base[pos][babs - 1] = Precomp(TimesBase(((babs - 1) + 1) * Power16[2 * pos]))
      <4>1. babs - 1 \in 0..7
        BY <2>1
      <4> HIDE DEF babs
      <4> QED
        BY <4>1 DEF Base
    <3>4. Base[pos][babs - 1] \in S
      BY <3>2, <3>3, TimesBaseType, PrecompType
    <3> QED
      BY <2>1, <3>4
  <2>2. CASE babs \notin 1..8
    BY <2>2, FeInt
  <2> QED
    BY <2>1, <2>2
<1> HIDE DEF t, babs
<1>3. FeNeg(t.xy2d) \in Fe
  BY <1>2, FeTypes, FeInt
<1>4. Select(pos, b) = IF b < 0 THEN [yplusx |-> t.yminusx, yminusx |-> t.yplusx,
                                      xy2d |-> FeNeg(t.xy2d)] ELSE t
  BY DEF Select, t, babs
<1> QED
  BY <1>2, <1>3, <1>4

-----------------------------------------------------------------------------
(* The digits.                                                             *)

RecodeInv ==
  /\ step = "recode" =>
       /\ index \in 0..Digits-1
       /\ \A k \in 0..Digits-1 : k < index => digit[k] \in -8..7
       /\ \A k \in 0..Digits-1 : k >= index => digit[k] \in 0..15
       /\ digit[Digits-1] \in 0..7
  /\ step \in {"odd", "even"} => index \in 0..Digits-1
  /\ step # "recode" => carry = 0

MultInv == MultTypeOK /\ RecodeInv

LEMMA NibblesSmall ==
  ASSUME NEW s \in Scalars
  PROVE  /\ \A k \in 0..Digits-1 : Nibbles(s)[k] \in 0..15
         /\ Nibbles(s)[Digits-1] \in 0..7
<1>1. s \in [0..Bytes-1 -> 0..255] /\ s[Bytes-1] <= 127
  BY BytesAssumption
<1>2. ASSUME NEW k \in 0..Digits-1 PROVE Nibbles(s)[k] \in 0..15
  <2>1. (k \div 2) \in 0..Bytes-1
    BY MultNumbers
  <2>2. s[k \div 2] \in 0..255
    BY <1>1, <2>1
  <2>3. (s[k \div 2] % 16) \in 0..15 /\ (s[k \div 2] \div 16) \in 0..15
    BY <2>2
  <2> QED
    BY <2>3 DEF Nibbles
<1>3. Nibbles(s)[Digits-1] \in 0..7
  <2>1. /\ Digits - 1 \in 0..Digits-1 /\ (Digits - 1) % 2 = 1
        /\ (Digits - 1) \div 2 = Bytes - 1 /\ Bytes - 1 \in 0..Bytes-1
    BY MultNumbers
  <2>2. Nibbles(s)[Digits-1] = s[Bytes-1] \div 16
    BY <2>1 DEF Nibbles
  <2>3. s[Bytes-1] \in 0..127
    <3> DEFINE b == s[Bytes-1]
    <3>1. b \in 0..255
      BY <1>1, <2>1
    <3>2. b <= 127
      BY <1>1
    <3> HIDE DEF b
    <3>3. b \in 0..127
      BY <3>1, <3>2
    <3> QED
      BY <3>3 DEF b
  <2>4. (s[Bytes-1] \div 16) \in 0..7
    BY <2>3
  <2> QED
    BY <2>2, <2>4
<1> QED
  BY <1>2, <1>3

LEMMA P3Is == P3 = [X : Fe, Y : Fe, Z : Fe, T : Fe]
  BY DEF P3, Fe

LEMMA MultStart == MultInit => MultInv
<1> SUFFICES ASSUME MultInit PROVE MultInv
  OBVIOUS
<1>1. scalar \in Scalars /\ digit = Nibbles(scalar) /\ carry = 0 /\ index = 0 /\ step = "recode"
  BY DEF MultInit
<1>2. point \in P3
  BY P3Is, FeInt DEF MultInit, P3Zero
<1>3. DigitsFit
  <2>1. digit \in [0..Digits-1 -> -8..15]
    <3>1. \A k \in 0..Digits-1 : digit[k] \in -8..15
      <4>1. \A k \in 0..Digits-1 : digit[k] \in 0..15
        BY <1>1, NibblesSmall
      <4> QED
        BY <4>1
    <3>2. digit = [k \in 0..Digits-1 |-> digit[k]]
      BY <1>1 DEF Nibbles
    <3> QED
      BY <3>1, <3>2
  <2> QED
    BY <1>1, <2>1 DEF DigitsFit
<1>4. MultTypeOK
  BY <1>1, <1>2, <1>3, MultNumbers DEF MultTypeOK
<1>5. RecodeInv
  BY <1>1, NibblesSmall, MultNumbers DEF RecodeInv
<1> QED
  BY <1>4, <1>5 DEF MultInv

LEMMA RecodeDigitStep == MultInv /\ RecodeDigit => MultInv'
<1> SUFFICES ASSUME MultInv, RecodeDigit PROVE MultInv'
  OBVIOUS
<1> DEFINE n == digit[index] + carry
           c == CarryOf(n)
<1>1. /\ step = "recode" /\ index \in 0..Digits-2 /\ digit \in [0..Digits-1 -> -8..15]
      /\ carry \in 0..1 /\ digit[index] \in 0..15
  <2>1. index < Digits - 1 /\ step = "recode"
    BY DEF RecodeDigit
  <2>2. index \in 0..Digits-1
    BY <2>1 DEF MultInv, RecodeInv
  <2> QED
    BY <2>1, <2>2, MultNumbers DEF MultInv, MultTypeOK, RecodeInv, DigitsFit
<1>2. n \in 0..16
  BY <1>1
<1>3. c \in 0..1 /\ n - 16 * c \in -8..7
  <2> HIDE DEF n
  <2> QED
    BY <1>2 DEF CarryOf
<1>4. /\ carry' = c /\ digit' = [digit EXCEPT ![index] = n - 16 * c]
      /\ index' = index + 1 /\ scalar' = scalar /\ point' = point /\ step' = step
  BY DEF RecodeDigit
<1> HIDE DEF n, c
<1>5. /\ index' \in 0..Digits-1 /\ digit' \in [0..Digits-1 -> -8..15]
      /\ \A k \in 0..Digits-1 : k # index => digit'[k] = digit[k]
      /\ digit'[index] \in -8..7
  BY <1>1, <1>3, <1>4, MultNumbers
<1>6. MultTypeOK'
  <2>1. index' \in 0..Digits+1
    BY <1>5, MultNumbers
  <2> QED
    BY <1>1, <1>3, <1>4, <1>5, <2>1 DEF MultInv, MultTypeOK, DigitsFit
<1>7. RecodeInv'
  <2>1. ASSUME NEW k \in 0..Digits-1, k < index' PROVE digit'[k] \in -8..7
    <3>1. CASE k = index
      BY <1>5, <3>1
    <3>2. CASE k # index
      <4>1. k < index
        BY <1>1, <1>4, <2>1, <3>2, MultNumbers
      <4> QED
        BY <1>1, <1>5, <3>2, <4>1 DEF MultInv, RecodeInv
    <3> QED
      BY <3>1, <3>2
  <2>2. ASSUME NEW k \in 0..Digits-1, k >= index' PROVE digit'[k] \in 0..15
    <3>1. k # index /\ k >= index
      BY <1>1, <1>4, <2>2, MultNumbers
    <3> QED
      BY <1>1, <1>5, <3>1 DEF MultInv, RecodeInv
  <2>3. digit'[Digits-1] \in 0..7
    <3>1. Digits - 1 \in 0..Digits-1 /\ Digits - 1 # index
      BY <1>1, MultNumbers
    <3> QED
      BY <1>1, <1>5, <3>1 DEF MultInv, RecodeInv
  <2> QED
    BY <1>1, <1>4, <1>5, <2>1, <2>2, <2>3 DEF RecodeInv
<1> QED
  BY <1>6, <1>7 DEF MultInv

LEMMA RecodeTopStep == MultInv /\ RecodeTop => MultInv'
<1> SUFFICES ASSUME MultInv, RecodeTop PROVE MultInv'
  OBVIOUS
<1>1. /\ step = "recode" /\ index = Digits-1 /\ digit \in [0..Digits-1 -> -8..15]
      /\ carry \in 0..1 /\ digit[index] \in 0..7
  BY DEF MultInv, MultTypeOK, RecodeInv, DigitsFit, RecodeTop
<1>2. /\ carry' = 0 /\ digit' = [digit EXCEPT ![index] = digit[index] + carry]
      /\ index' = 1 /\ scalar' = scalar /\ point' = point /\ step' = "odd"
  BY DEF RecodeTop
<1>3. digit[index] + carry \in 0..8
  BY <1>1
<1>4. \A k \in 0..Digits-1 : k # index => digit[k] \in -8..7
  <2>1. \A k \in 0..Digits-1 : k # index => k < index
    BY <1>1, MultNumbers
  <2> QED
    BY <1>1, <2>1 DEF MultInv, RecodeInv
<1>5. \A k \in 0..Digits-1 : digit'[k] \in -8..8
  <2>1. ASSUME NEW k \in 0..Digits-1 PROVE digit'[k] \in -8..8
    <3>1. CASE k = index
      BY <1>1, <1>2, <1>3, <3>1
    <3>2. CASE k # index
      <4>1. digit'[k] = digit[k] /\ digit[k] \in -8..7
        BY <1>1, <1>2, <1>4, <3>2
      <4> QED
        BY <4>1
    <3> QED
      BY <3>1, <3>2
  <2> QED
    BY <2>1
<1>6. digit' \in [0..Digits-1 -> -8..15]
  <2>1. digit[index] + carry \in -8..15
    BY <1>3
  <2> QED
    BY <1>1, <1>2, <2>1
<1>7. 1 \in 0..Digits-1 /\ 1 \in 0..Digits+1
  BY MultNumbers
<1> QED
  BY <1>1, <1>2, <1>5, <1>6, <1>7 DEF MultInv, MultTypeOK, RecodeInv, DigitsFit

LEMMA AddDigitType ==
  ASSUME MultInv, step \in {"odd", "even"}
  PROVE  /\ index \in 0..Digits-1 /\ (index \div 2) \in 0..Bytes-1 /\ digit[index] \in -8..8
         /\ ToP3(GeMAdd(point, Select(index \div 2, digit[index]))) \in P3
<1>1. index \in 0..Digits-1
  BY DEF MultInv, RecodeInv
<1>2. (index \div 2) \in 0..Bytes-1
  BY <1>1, MultNumbers
<1>3. digit[index] \in -8..8
  BY <1>1 DEF MultInv, MultTypeOK, DigitsFit
<1>4. Select(index \div 2, digit[index]) \in [yplusx : Fe, yminusx : Fe, xy2d : Fe]
  BY <1>2, <1>3, SelectType
<1>5. point \in [X : Fe, Y : Fe, Z : Fe, T : Fe]
  BY P3Is DEF MultInv, MultTypeOK
<1>6. GeMAdd(point, Select(index \div 2, digit[index])) \in [X : Fe, Y : Fe, Z : Fe, T : Fe]
  BY <1>4, <1>5, GeMAddType
<1> QED
  BY <1>1, <1>2, <1>3, <1>6, ToP3Type, P3Is

LEMMA AddOddStep == MultInv /\ AddOdd => MultInv'
<1> SUFFICES ASSUME MultInv, AddOdd PROVE MultInv'
  OBVIOUS
<1>1. /\ step = "odd" /\ index' = index + 2 /\ scalar' = scalar /\ digit' = digit /\ carry' = carry
      /\ step' = (IF index + 2 < Digits THEN "odd" ELSE "double")
      /\ point' = ToP3(GeMAdd(point, Select(index \div 2, digit[index])))
  BY DEF AddOdd, AddDigit
<1>2. point' \in P3 /\ index \in 0..Digits-1
  BY <1>1, AddDigitType
<1>3. index' \in 0..Digits+1 /\ (step' = "odd" => index' \in 0..Digits-1)
  BY <1>1, <1>2, MultNumbers
<1>4. step' \in {"odd", "double"}
  BY <1>1
<1> QED
  BY <1>1, <1>2, <1>3, <1>4 DEF MultInv, MultTypeOK, RecodeInv, DigitsFit

LEMMA AddEvenStep == MultInv /\ AddEven => MultInv'
<1> SUFFICES ASSUME MultInv, AddEven PROVE MultInv'
  OBVIOUS
<1>1. /\ step = "even" /\ index' = index + 2 /\ scalar' = scalar /\ digit' = digit /\ carry' = carry
      /\ step' = (IF index + 2 < Digits THEN "even" ELSE "done")
      /\ point' = ToP3(GeMAdd(point, Select(index \div 2, digit[index])))
  BY DEF AddEven, AddDigit
<1>2. point' \in P3 /\ index \in 0..Digits-1
  BY <1>1, AddDigitType
<1>3. index' \in 0..Digits+1 /\ (step' = "even" => index' \in 0..Digits-1)
  BY <1>1, <1>2, MultNumbers
<1>4. step' \in {"even", "done"}
  BY <1>1
<1> QED
  BY <1>1, <1>2, <1>3, <1>4 DEF MultInv, MultTypeOK, RecodeInv, DigitsFit

LEMMA P2Type ==
  ASSUME NEW p \in [X : Fe, Y : Fe, Z : Fe, T : Fe]
  PROVE  P2(p) \in [X : Fe, Y : Fe, Z : Fe]
  BY DEF P2

LEMMA MultiplyBy16Step == MultInv /\ MultiplyBy16 => MultInv'
<1> SUFFICES ASSUME MultInv, MultiplyBy16 PROVE MultInv'
  OBVIOUS
<1>1. /\ step = "double" /\ index' = 0 /\ scalar' = scalar /\ digit' = digit /\ carry' = carry
      /\ step' = "even"
      /\ point' = ToP3(GeDbl(ToP2(GeDbl(ToP2(GeDbl(ToP2(GeDbl(P2(point)))))))))
  BY DEF MultiplyBy16
<1>2. \A p \in [X : Fe, Y : Fe, Z : Fe] : ToP2(GeDbl(p)) \in [X : Fe, Y : Fe, Z : Fe]
  BY GeDblType, ToP3Type
<1>3. P2(point) \in [X : Fe, Y : Fe, Z : Fe]
  BY P2Type, P3Is DEF MultInv, MultTypeOK
<1>4. ToP2(GeDbl(ToP2(GeDbl(ToP2(GeDbl(P2(point))))))) \in [X : Fe, Y : Fe, Z : Fe]
  BY <1>2, <1>3
<1>5. point' \in P3
  BY <1>1, <1>4, GeDblType, ToP3Type, P3Is
<1>6. 0 \in 0..Digits-1 /\ 0 \in 0..Digits+1
  BY MultNumbers
<1> QED
  BY <1>1, <1>5, <1>6 DEF MultInv, MultTypeOK, RecodeInv, DigitsFit

LEMMA MultInvStep == MultInv /\ [MultNext]_multVars => MultInv'
<1>1. MultInv /\ UNCHANGED multVars => MultInv'
  BY DEF MultInv, MultTypeOK, RecodeInv, DigitsFit, multVars
<1> QED
  BY <1>1, RecodeDigitStep, RecodeTopStep, AddOddStep, AddEvenStep, MultiplyBy16Step
     DEF MultNext

(* For every scalar the precondition allows, each digit fits a signed char *)
(* and has an entry in its table (ge.c:386-433).                           *)
THEOREM MultTypeCorrect == MultSpec => []MultTypeOK
<1>1. MultInv => MultTypeOK
  BY DEF MultInv
<1> QED
  BY <1>1, MultStart, MultInvStep, PTL DEF MultSpec

-----------------------------------------------------------------------------
(* The value of the digits.                                                *)

DigitFunctions == [0..Digits-1 -> Int]

IsSum(h, d, S) ==
  /\ h \in [0..Digits -> Int] /\ h[0] = 0
  /\ \A n \in 1..Digits : h[n] = h[n - 1] + Adds(d, S, n - 1)

LEMMA AddsType ==
  ASSUME NEW d \in DigitFunctions, NEW S, NEW n \in 0..Digits-1
  PROVE  Adds(d, S, n) \in Int
<1>1. n \in 0..Digits+1
  BY MultNumbers
<1>2. d[n] \in Int /\ Power16[n] \in Int
  BY <1>1, Power16Is DEF DigitFunctions
<1>3. d[n] * Power16[n] \in Int
  BY <1>2
<1> QED
  BY <1>3 DEF Adds

LEMMA DigitSumsExist ==
  ASSUME NEW d \in DigitFunctions, NEW S
  PROVE  \E f : f = [n \in 0..Digits |-> IF n = 0 THEN 0 ELSE f[n - 1] + Adds(d, S, n - 1)]
<1> DEFINE G == [k \in 1..Digits |-> [v \in Int |-> v + Adds(d, S, k - 1)]]
<1>1. ASSUME NEW k \in 1..Digits PROVE k - 1 \in 0..Digits-1 /\ Adds(d, S, k - 1) \in Int
  <2>1. k - 1 \in 0..Digits-1
    BY MultNumbers
  <2> QED
    BY <2>1, AddsType
<1>2. G \in Steps(Digits, Int)
  BY <1>1 DEF Steps
<1>3. \A k \in 1..Digits : \A v \in Int : G[k][v] = v + Adds(d, S, k - 1)
  OBVIOUS
<1> HIDE DEF G
<1>4. PICK f \in [0..Digits -> Int] : IsIterated(f, Digits, 0, G)
  <2>1. 0 \in Int /\ Digits \in Nat
    BY MultNumbers
  <2> QED
    BY <1>2, <2>1, RecursionExists, Zenon
<1>5. ASSUME NEW k \in 1..Digits PROVE f[k] = f[k - 1] + Adds(d, S, k - 1)
  <2>1. k - 1 \in 0..Digits
    BY MultNumbers
  <2>2. f[k] = G[k][f[k - 1]] /\ f[k - 1] \in Int
    BY <1>4, <2>1 DEF IsIterated
  <2> QED
    BY <1>3, <2>2
<1>6. f = [n \in 0..Digits |-> IF n = 0 THEN 0 ELSE f[n - 1] + Adds(d, S, n - 1)]
  BY <1>4, <1>5 DEF IsIterated
<1> QED
  BY <1>6

LEMMA SumOfIs ==
  ASSUME NEW d \in DigitFunctions, NEW S
  PROVE  \E h : IsSum(h, d, S) /\ SumOf(d, S) = h[Digits]
<1> DEFINE body(f) == [n \in 0..Digits |-> IF n = 0 THEN 0 ELSE f[n - 1] + Adds(d, S, n - 1)]
           h == CHOOSE f : f = body(f)
<1>1. h = body(h)
  BY DigitSumsExist
<1>2. SumOf(d, S) = h[Digits]
  BY DEF SumOf
<1> HIDE DEF h
<1>3. h[0] = 0 /\ \A k \in 1..Digits : h[k] = h[k - 1] + Adds(d, S, k - 1)
  <2>1. \A k \in 0..Digits : h[k] = IF k = 0 THEN 0 ELSE h[k - 1] + Adds(d, S, k - 1)
    BY <1>1, Zenon
  <2> HIDE DEF body
  <2> QED
    BY <2>1, MultNumbers
<1> DEFINE T == {k \in 0..Digits : h[k] \in Int}
<1>4. 0 \in T
  BY <1>3, MultNumbers
<1>5. ASSUME NEW k \in 0..Digits-1, k \in T PROVE k + 1 \in T
  <2>1. k + 1 \in 1..Digits /\ (k + 1) - 1 = k
    BY MultNumbers
  <2>2. h[k + 1] = h[k] + Adds(d, S, k)
    BY <1>3, <2>1
  <2>3. h[k] \in Int /\ Adds(d, S, k) \in Int
    BY <1>5, AddsType
  <2> QED
    BY <2>1, <2>2, <2>3
<1> HIDE DEF T
<1>6. 0..Digits \subseteq T
  BY <1>4, <1>5, InductionUpTo, MultNumbers
<1>7. h \in [0..Digits -> Int]
  BY <1>1, <1>6 DEF T
<1> QED
  BY <1>2, <1>3, <1>7 DEF IsSum

LEMMA SumOfInt ==
  ASSUME NEW d \in DigitFunctions, NEW S
  PROVE  SumOf(d, S) \in Int
<1>1. PICK h : IsSum(h, d, S) /\ SumOf(d, S) = h[Digits]
  BY SumOfIs
<1> QED
  BY <1>1, MultNumbers DEF IsSum

LEMMA SumOfNothing ==
  ASSUME NEW d \in DigitFunctions
  PROVE  SumOf(d, {}) = 0
<1>1. PICK h : IsSum(h, d, {}) /\ SumOf(d, {}) = h[Digits]
  BY SumOfIs
<1> DEFINE T == {n \in 0..Digits : h[n] = 0}
<1>2. 0 \in T
  BY <1>1, MultNumbers DEF IsSum
<1>3. ASSUME NEW n \in 0..Digits-1, n \in T PROVE n + 1 \in T
  <2>1. n + 1 \in 1..Digits /\ (n + 1) - 1 = n /\ n + 1 \in 0..Digits
    BY MultNumbers
  <2>2. h[n + 1] = h[n] + Adds(d, {}, n)
    BY <1>1, <2>1 DEF IsSum
  <2>3. Adds(d, {}, n) = 0 /\ h[n] = 0
    BY <1>3 DEF Adds
  <2>4. h[n + 1] = 0
    BY <2>2, <2>3
  <2> QED
    BY <2>1, <2>4
<1> HIDE DEF T
<1>4. 0..Digits \subseteq T
  BY <1>2, <1>3, InductionUpTo, MultNumbers
<1> QED
  BY <1>1, <1>4, MultNumbers DEF T

(* Sums that agree but for one digit. *)
LEMMA SumChanges ==
  ASSUME NEW d \in DigitFunctions, NEW S, NEW e \in DigitFunctions, NEW U,
         NEW i \in 0..Digits-1,
         \A n \in 0..Digits-1 : n # i => Adds(e, U, n) = Adds(d, S, n)
  PROVE  SumOf(e, U) = SumOf(d, S) + (Adds(e, U, i) - Adds(d, S, i))
<1>1. PICK h : IsSum(h, d, S) /\ SumOf(d, S) = h[Digits]
  BY SumOfIs
<1>2. PICK g : IsSum(g, e, U) /\ SumOf(e, U) = g[Digits]
  BY SumOfIs
<1> DEFINE c == Adds(e, U, i) - Adds(d, S, i)
           T == {n \in 0..Digits : g[n] = h[n] + (IF n > i THEN c ELSE 0)}
<1>3. Adds(e, U, i) \in Int /\ Adds(d, S, i) \in Int /\ c \in Int
  BY AddsType
<1>4. 0 \in T
  BY <1>1, <1>2, MultNumbers DEF IsSum
<1>5. ASSUME NEW n \in 0..Digits-1, n \in T PROVE n + 1 \in T
  <2>1. n + 1 \in 1..Digits /\ (n + 1) - 1 = n /\ n \in 0..Digits
    BY MultNumbers
  <2>2. h[n + 1] = h[n] + Adds(d, S, n) /\ g[n + 1] = g[n] + Adds(e, U, n)
    BY <1>1, <1>2, <2>1 DEF IsSum
  <2>3. /\ h[n] \in Int /\ Adds(d, S, n) \in Int /\ Adds(e, U, n) \in Int
        /\ g[n] = h[n] + (IF n > i THEN c ELSE 0)
    BY <1>1, <1>5, <2>1, AddsType DEF IsSum
  <2>4. g[n + 1] = h[n + 1] + (IF n + 1 > i THEN c ELSE 0)
    <3>1. CASE n < i
      <4>1. Adds(e, U, n) = Adds(d, S, n) /\ ~ (n > i) /\ ~ (n + 1 > i)
        BY <3>1
      <4> QED
        BY <2>2, <2>3, <4>1
    <3>2. CASE n = i
      BY <1>3, <2>2, <2>3, <3>2
    <3>3. CASE n > i
      <4>1. Adds(e, U, n) = Adds(d, S, n) /\ n + 1 > i
        BY <3>3
      <4> HIDE DEF c
      <4> QED
        BY <1>3, <2>2, <2>3, <3>3, <4>1
    <3> QED
      BY <3>1, <3>2, <3>3
  <2> QED
    BY <2>1, <2>4
<1> HIDE DEF T, c
<1>6. 0..Digits \subseteq T
  BY <1>4, <1>5, InductionUpTo, MultNumbers
<1>7. Digits \in 0..Digits /\ Digits > i
  BY MultNumbers
<1>8. g[Digits] = h[Digits] + c
  BY <1>6, <1>7 DEF T
<1> QED
  BY <1>1, <1>2, <1>8 DEF c

(* One digit is replaced. *)
LEMMA DigitReplaced ==
  ASSUME NEW d \in DigitFunctions, NEW S, NEW i \in 0..Digits-1, i \in S, NEW x \in Int
  PROVE  /\ [d EXCEPT ![i] = x] \in DigitFunctions
         /\ SumOf([d EXCEPT ![i] = x], S) = SumOf(d, S) + (x - d[i]) * Power16[i]
<1> DEFINE e == [d EXCEPT ![i] = x]
<1>1. /\ e \in DigitFunctions /\ e[i] = x
      /\ \A n \in 0..Digits-1 : n # i => e[n] = d[n]
  BY DEF DigitFunctions
<1> HIDE DEF e
<1>2. \A n \in 0..Digits-1 : n # i => Adds(e, S, n) = Adds(d, S, n)
  BY <1>1 DEF Adds
<1>3. SumOf(e, S) = SumOf(d, S) + (Adds(e, S, i) - Adds(d, S, i))
  BY <1>1, <1>2, SumChanges
<1>4. i \in 0..Digits+1
  BY MultNumbers
<1>5. d[i] \in Int /\ Power16[i] \in Int
  BY <1>4, Power16Is DEF DigitFunctions
<1>6. Adds(e, S, i) - Adds(d, S, i) = (x - d[i]) * Power16[i]
  BY <1>1, <1>5 DEF Adds
<1> QED
  BY <1>1, <1>3, <1>6 DEF e

(* One more digit is counted. *)
LEMMA DigitCounted ==
  ASSUME NEW d \in DigitFunctions, NEW S, NEW i \in 0..Digits-1, i \notin S
  PROVE  SumOf(d, S \cup {i}) = SumOf(d, S) + d[i] * Power16[i]
<1> DEFINE U == S \cup {i}
<1>1. i \in U /\ \A n \in 0..Digits-1 : n # i => (n \in U <=> n \in S)
  OBVIOUS
<1> HIDE DEF U
<1>2. \A n \in 0..Digits-1 : n # i => Adds(d, U, n) = Adds(d, S, n)
  BY <1>1 DEF Adds
<1>3. SumOf(d, U) = SumOf(d, S) + (Adds(d, U, i) - Adds(d, S, i))
  BY <1>2, SumChanges
<1>4. i \in 0..Digits+1
  BY MultNumbers
<1>5. d[i] \in Int /\ Power16[i] \in Int
  BY <1>4, Power16Is DEF DigitFunctions
<1>6. Adds(d, U, i) - Adds(d, S, i) = d[i] * Power16[i]
  BY <1>1, <1>5 DEF Adds
<1> QED
  BY <1>3, <1>6 DEF U

(* The value of a scalar, from its bytes and from its nibbles. *)
LEMMA ByteSumsExist ==
  ASSUME NEW s \in [0..Bytes-1 -> 0..255]
  PROVE  \E f : f = [n \in 0..Bytes |->
                       IF n = 0 THEN 0 ELSE f[n - 1] + s[n - 1] * Power16[2 * (n - 1)]]
<1> DEFINE G == [k \in 1..Bytes |-> [v \in Int |-> v + s[k - 1] * Power16[2 * (k - 1)]]]
<1>1. ASSUME NEW k \in 1..Bytes PROVE s[k - 1] * Power16[2 * (k - 1)] \in Int
  <2>1. k - 1 \in 0..Bytes-1 /\ 2 * (k - 1) \in 0..Digits+1
    BY MultNumbers
  <2> DEFINE b == s[k - 1]
  <2>2. b \in 0..255
    BY <2>1
  <2>3. Power16[2 * (k - 1)] \in Int
    BY <2>1, Power16Is
  <2> HIDE DEF b
  <2>4. b * Power16[2 * (k - 1)] \in Int
    BY <2>2, <2>3
  <2> QED
    BY <2>4 DEF b
<1>2. G \in Steps(Bytes, Int)
  BY <1>1 DEF Steps
<1>3. \A k \in 1..Bytes : \A v \in Int : G[k][v] = v + s[k - 1] * Power16[2 * (k - 1)]
  OBVIOUS
<1> HIDE DEF G
<1>4. PICK f \in [0..Bytes -> Int] : IsIterated(f, Bytes, 0, G)
  <2>1. 0 \in Int /\ Bytes \in Nat
    BY MultNumbers
  <2> QED
    BY <1>2, <2>1, RecursionExists, Zenon
<1>5. ASSUME NEW k \in 1..Bytes PROVE f[k] = f[k - 1] + s[k - 1] * Power16[2 * (k - 1)]
  <2>1. k - 1 \in 0..Bytes
    BY MultNumbers
  <2>2. f[k] = G[k][f[k - 1]] /\ f[k - 1] \in Int
    BY <1>4, <2>1 DEF IsIterated
  <2> QED
    BY <1>3, <2>2
<1>6. f = [n \in 0..Bytes |-> IF n = 0 THEN 0 ELSE f[n - 1] + s[n - 1] * Power16[2 * (n - 1)]]
  BY <1>4, <1>5 DEF IsIterated
<1> QED
  BY <1>6

LEMMA ValueOfIs ==
  ASSUME NEW s \in [0..Bytes-1 -> 0..255]
  PROVE  \E h : /\ h[0] = 0 /\ ValueOf(s) = h[Bytes]
                /\ \A k \in 1..Bytes : h[k] = h[k - 1] + s[k - 1] * Power16[2 * (k - 1)]
<1> DEFINE body(f) == [n \in 0..Bytes |-> IF n = 0 THEN 0
                                          ELSE f[n - 1] + s[n - 1] * Power16[2 * (n - 1)]]
           h == CHOOSE f : f = body(f)
<1>1. h = body(h)
  BY ByteSumsExist
<1>2. ValueOf(s) = h[Bytes]
  BY DEF ValueOf
<1> HIDE DEF h
<1>3. \A k \in 0..Bytes : h[k] = IF k = 0 THEN 0 ELSE h[k - 1] + s[k - 1] * Power16[2 * (k - 1)]
  BY <1>1, Zenon
<1> HIDE DEF body
<1>4. h[0] = 0 /\ \A k \in 1..Bytes : h[k] = h[k - 1] + s[k - 1] * Power16[2 * (k - 1)]
  BY <1>3, MultNumbers
<1> QED
  BY <1>2, <1>4

LEMMA NibblesKeepValue ==
  ASSUME NEW s \in Scalars
  PROVE  Nibbles(s) \in DigitFunctions /\ SumOf(Nibbles(s), 0..Digits-1) = ValueOf(s)
<1> DEFINE d == Nibbles(s)
           S == 0..Digits-1
<1>1. s \in [0..Bytes-1 -> 0..255]
  BY BytesAssumption
<1>2. d \in DigitFunctions
  <2>1. \A k \in 0..Digits-1 : d[k] \in Int
    BY NibblesSmall
  <2>2. d = [k \in 0..Digits-1 |-> d[k]]
    BY DEF Nibbles
  <2> HIDE DEF d
  <2> QED
    BY <2>1, <2>2 DEF DigitFunctions
<1>3. ASSUME NEW n \in 0..Bytes-1
      PROVE  /\ 2 * n \in 0..Digits-1 /\ 2 * n + 1 \in 0..Digits-1
             /\ d[2 * n] = s[n] % 16 /\ d[2 * n + 1] = s[n] \div 16
  <2>1. 2 * n \in 0..Digits-1 /\ 2 * n + 1 \in 0..Digits-1
    BY MultNumbers
  <2>2. (2 * n) % 2 = 0 /\ (2 * n) \div 2 = n /\ (2 * n + 1) % 2 = 1 /\ (2 * n + 1) \div 2 = n
    OBVIOUS
  <2> QED
    BY <2>1, <2>2 DEF Nibbles
<1> HIDE DEF d
<1>4. PICK h : IsSum(h, d, S) /\ SumOf(d, S) = h[Digits]
  BY <1>2, SumOfIs
<1>5. PICK v : /\ v[0] = 0 /\ ValueOf(s) = v[Bytes]
               /\ \A k \in 1..Bytes : v[k] = v[k - 1] + s[k - 1] * Power16[2 * (k - 1)]
  BY <1>1, ValueOfIs
<1> DEFINE T == {n \in 0..Bytes : h[2 * n] = v[n]}
<1>6. 0 \in T
  BY <1>4, <1>5, MultNumbers DEF IsSum
<1>7. ASSUME NEW n \in 0..Bytes-1, n \in T PROVE n + 1 \in T
  <2> DEFINE W == Power16[2 * n]
             lo == s[n] % 16
             hi == s[n] \div 16
  <2>1. /\ 2 * n \in 0..Digits /\ 2 * n + 1 \in 1..Digits /\ (2 * n + 1) + 1 \in 1..Digits
        /\ 2 * n + 1 \in 1..Digits+1 /\ 2 * n \in 0..Digits+1
        /\ ((2 * n + 1) + 1) - 1 = 2 * n + 1 /\ (2 * n + 1) - 1 = 2 * n
        /\ 2 * (n + 1) = (2 * n + 1) + 1
        /\ n + 1 \in 1..Bytes /\ (n + 1) - 1 = n /\ n + 1 \in 0..Bytes
    BY MultNumbers
  <2>2. W \in Int /\ Power16[2 * n + 1] = 16 * W
    BY <2>1, Power16Is
  <2>3. s[n] \in Int /\ lo \in Int /\ hi \in Int /\ s[n] = 16 * hi + lo
    <3>1. s[n] \in 0..255
      BY <1>1
    <3> QED
      BY <3>1
  <2> HIDE DEF lo, hi, W
  <2>4. h[2 * n + 1] = h[2 * n] + lo * W
    <3>1. h[2 * n + 1] = h[2 * n] + Adds(d, S, 2 * n)
      BY <1>4, <2>1 DEF IsSum
    <3> QED
      BY <1>3, <3>1 DEF Adds, lo, W
  <2>5. h[(2 * n + 1) + 1] = h[2 * n + 1] + hi * (16 * W)
    <3>1. h[(2 * n + 1) + 1] = h[2 * n + 1] + Adds(d, S, 2 * n + 1)
      BY <1>4, <2>1 DEF IsSum
    <3> QED
      BY <1>3, <2>2, <3>1 DEF Adds, hi
  <2>6. v[n + 1] = v[n] + s[n] * W
    BY <1>5, <2>1 DEF W
  <2>7. h[2 * n] \in Int /\ h[2 * n] = v[n]
    BY <1>4, <1>7, <2>1 DEF IsSum
  <2>8. h[(2 * n + 1) + 1] = h[2 * n] + (lo * W + hi * (16 * W))
    BY <2>2, <2>3, <2>4, <2>5, <2>7
  <2>9. lo * W + hi * (16 * W) = s[n] * W
    BY <2>2, <2>3
  <2>10. h[2 * (n + 1)] = v[n + 1]
    BY <2>1, <2>6, <2>7, <2>8, <2>9
  <2> QED
    BY <2>1, <2>10
<1> HIDE DEF T
<1>8. 0..Bytes \subseteq T
  BY <1>6, <1>7, InductionUpTo, MultNumbers
<1>9. h[Digits] = v[Bytes]
  <2>1. Bytes \in 0..Bytes /\ Digits = 2 * Bytes
    BY MultNumbers
  <2> QED
    BY <1>8, <2>1 DEF T
<1> QED
  BY <1>2, <1>4, <1>5, <1>9 DEF d

LEMMA DigitsAreInt == MultTypeOK => digit \in DigitFunctions
<1> HAVE MultTypeOK
<1>1. digit \in [0..Digits-1 -> -8..15]
  BY DEF MultTypeOK, DigitsFit
<1>2. \A k \in -8..15 : k \in Int
  OBVIOUS
<1> QED
  BY <1>1, <1>2, Zenon DEF DigitFunctions

LEMMA ValueStart == MultInit => DigitsKeepValue
<1> SUFFICES ASSUME MultInit PROVE DigitsKeepValue
  OBVIOUS
<1>1. scalar \in Scalars /\ digit = Nibbles(scalar) /\ carry = 0 /\ index = 0
  BY DEF MultInit
<1>2. SumOf(digit, 0..Digits-1) = ValueOf(scalar) /\ SumOf(digit, 0..Digits-1) \in Int
  BY <1>1, NibblesKeepValue, SumOfInt
<1>3. Power16[index] \in Int
  BY <1>1, Power16Is
<1> QED
  BY <1>1, <1>2, <1>3 DEF DigitsKeepValue

LEMMA ValueStep == MultInv /\ DigitsKeepValue /\ [MultNext]_multVars => DigitsKeepValue'
<1> SUFFICES ASSUME MultInv, DigitsKeepValue, [MultNext]_multVars PROVE DigitsKeepValue'
  OBVIOUS
<1> DEFINE S == 0..Digits-1
           v == SumOf(digit, S)
<1>1. digit \in DigitFunctions /\ v \in Int /\ carry \in Int /\ index \in 0..Digits+1
  BY DigitsAreInt, SumOfInt DEF MultInv, MultTypeOK
<1>2. v + carry * Power16[index] = ValueOf(scalar)
  BY DEF DigitsKeepValue
<1> HIDE DEF v
<1>3. CASE RecodeDigit
  <2> DEFINE n == digit[index] + carry
             c == CarryOf(n)
             W == Power16[index]
  <2>1. index \in 0..Digits-1 /\ index < Digits - 1
    BY <1>3 DEF RecodeDigit, MultInv, RecodeInv
  <2>2. W \in Int /\ Power16[index + 1] = 16 * W
    <3>1. index + 1 \in 1..Digits+1 /\ (index + 1) - 1 = index
      BY <1>1, <2>1, MultNumbers
    <3> QED
      BY <1>1, <3>1, Power16Is
  <2>3. digit[index] \in Int /\ n \in Int
    BY <1>1, <2>1 DEF DigitFunctions
  <2>4. c \in Int
    <3> HIDE DEF n
    <3> QED
      BY <2>3 DEF CarryOf
  <2>5. /\ carry' = c /\ digit' = [digit EXCEPT ![index] = n - 16 * c]
        /\ index' = index + 1 /\ scalar' = scalar
    BY <1>3 DEF RecodeDigit
  <2> HIDE DEF c, W
  <2>6. SumOf(digit', S) = v + ((n - 16 * c) - digit[index]) * W
    <3> HIDE DEF n
    <3>1. n - 16 * c \in Int
      BY <2>3, <2>4
    <3> HIDE DEF S
    <3>2. index \in S
      BY <2>1 DEF S
    <3> QED
      BY <1>1, <2>1, <2>5, <3>1, <3>2, DigitReplaced DEF v, W
  <2>7. SumOf(digit', S) + c * (16 * W) = v + carry * W
    <3>1. (n - 16 * c) - digit[index] = carry - 16 * c
      BY <1>1, <2>3, <2>4
    <3>2. (carry - 16 * c) * W + c * (16 * W) = carry * W
      BY <1>1, <2>2, <2>4
    <3>3. (carry - 16 * c) * W \in Int /\ c * (16 * W) \in Int
      BY <1>1, <2>2, <2>4
    <3> HIDE DEF n
    <3> QED
      BY <1>1, <2>6, <3>1, <3>2, <3>3
  <2> QED
    BY <1>2, <2>2, <2>5, <2>7 DEF DigitsKeepValue, W
<1>4. CASE RecodeTop
  <2> DEFINE W == Power16[index]
             x == digit[index] + carry
  <2>1. index \in 0..Digits-1
    BY <1>4, MultNumbers DEF RecodeTop
  <2>2. W \in Int /\ digit[index] \in Int /\ Power16[1] \in Int
    <3>1. 1 \in 0..Digits+1
      BY MultNumbers
    <3> QED
      BY <1>1, <2>1, <3>1, Power16Is DEF DigitFunctions
  <2>3. /\ carry' = 0 /\ digit' = [digit EXCEPT ![index] = x]
        /\ index' = 1 /\ scalar' = scalar
    BY <1>4 DEF RecodeTop
  <2>4. SumOf(digit', S) = v + (x - digit[index]) * W
    <3>1. x \in Int
      BY <1>1, <2>2
    <3>2. index \in S
      BY <2>1
    <3> HIDE DEF S, x
    <3> QED
      BY <1>1, <2>1, <2>3, <3>1, <3>2, DigitReplaced DEF v
  <2> HIDE DEF W
  <2>5. SumOf(digit', S) = v + carry * W /\ SumOf(digit', S) \in Int
    BY <1>1, <2>2, <2>4
  <2>6. SumOf(digit', S) + 0 * Power16[1] = SumOf(digit', S)
    BY <2>2, <2>5
  <2> QED
    BY <1>2, <2>3, <2>5, <2>6 DEF DigitsKeepValue, W
<1>5. CASE AddOdd \/ MultiplyBy16 \/ AddEven \/ UNCHANGED multVars
  <2>1. carry' = carry /\ digit' = digit /\ scalar' = scalar
    BY <1>5 DEF AddOdd, MultiplyBy16, AddEven, multVars
  <2>2. CASE UNCHANGED multVars
    BY <1>2, <2>1, <2>2 DEF DigitsKeepValue, multVars, v
  <2>3. CASE AddOdd \/ MultiplyBy16 \/ AddEven
    <3>1. carry = 0 /\ index' \in 0..Digits+1
      BY <2>3, MultInvStep
         DEF MultNext, MultInv, MultTypeOK, RecodeInv, AddOdd, MultiplyBy16, AddEven
    <3>2. Power16[index] \in Int /\ Power16[index'] \in Int
      BY <1>1, <3>1, Power16Is
    <3> QED
      BY <1>2, <2>1, <3>1, <3>2 DEF DigitsKeepValue, v
  <2> QED
    BY <1>5, <2>2, <2>3
<1> QED
  BY <1>3, <1>4, <1>5 DEF MultNext

-----------------------------------------------------------------------------
(* Arithmetic mod P.                                                       *)

Same(a, b) == a % P = b % P

LEMMA SameItself == \A a : Same(a, a)
  BY DEF Same

LEMMA SameTurned == \A a, b : Same(a, b) => Same(b, a)
  BY DEF Same

LEMMA SameThrough ==
  ASSUME NEW a, NEW b, NEW c, Same(a, b), Same(b, c)
  PROVE  Same(a, c)
  BY DEF Same

LEMMA SameSum ==
  ASSUME NEW a \in Int, NEW b \in Int, NEW c \in Int, NEW d \in Int, Same(a, b), Same(c, d)
  PROVE  Same(a + c, b + d)
<1>1. P \in Nat \ {0}
  BY MultNumbers
<1>2. ((a % P) + c) % P = (a + c) % P /\ ((b % P) + c) % P = (b + c) % P
  BY <1>1, ModSum
<1>3. ((c % P) + b) % P = (c + b) % P /\ ((d % P) + b) % P = (d + b) % P
  BY <1>1, ModSum
<1>4. b + c = c + b /\ b + d = d + b
  OBVIOUS
<1> QED
  BY <1>2, <1>3, <1>4 DEF Same

LEMMA SameProduct ==
  ASSUME NEW a \in Int, NEW b \in Int, NEW c \in Int, NEW d \in Int, Same(a, b), Same(c, d)
  PROVE  Same(a * c, b * d)
<1>1. P \in Nat \ {0}
  BY MultNumbers
<1>2. \A m \in Int, x \in Int : (m * (x % P)) % P = (m * x) % P
  <2> SUFFICES ASSUME NEW m \in Int, NEW x \in Int PROVE (m * (x % P)) % P = (m * x) % P
    OBVIOUS
  <2>0. \A y \in Int : (m * (x % P) + y) % P = (m * x + y) % P
    BY <1>1, ModProduct
  <2>1. (m * (x % P) + 0) % P = (m * x + 0) % P
    BY <2>0
  <2>2. x % P \in Int /\ m * x \in Int
    BY <1>1
  <2>3. m * (x % P) \in Int
    BY <2>2
  <2> QED
    BY <2>1, <2>2, <2>3
<1>3. (a * (c % P)) % P = (a * c) % P /\ (a * (d % P)) % P = (a * d) % P
  BY <1>2
<1>4. (d * (a % P)) % P = (d * a) % P /\ (d * (b % P)) % P = (d * b) % P
  BY <1>2
<1>5. a * d = d * a /\ b * d = d * b
  OBVIOUS
<1> QED
  BY <1>3, <1>4, <1>5 DEF Same

LEMMA SameDifference ==
  ASSUME NEW a \in Int, NEW b \in Int, NEW c \in Int, NEW d \in Int, Same(a, b), Same(c, d)
  PROVE  Same(a - c, b - d)
<1>1. Same((-1) * c, (-1) * d)
  <2>1. \A m \in Int : Same(m * c, m * d)
    BY SameProduct, SameItself
  <2> QED
    BY <2>1
<1>2. (-1) * c \in Int /\ (-1) * d \in Int
  OBVIOUS
<1>3. Same(a + (-1) * c, b + (-1) * d)
  BY <1>1, <1>2, SameSum
<1>4. a + (-1) * c = a - c /\ b + (-1) * d = b - d
  OBVIOUS
<1> QED
  BY <1>3, <1>4

LEMMA SameReduced ==
  ASSUME NEW a \in Int
  PROVE  Same(a % P, a) /\ a % P \in Fe
<1>1. a % P \in 0..P-1 /\ a = P * (a \div P) + (a % P) /\ a \div P \in Int
  BY ModSplits, MultNumbers
<1>2. (P * 0 + (a % P)) % P = a % P
  BY <1>1, ModUnique, MultNumbers
<1>3. P * 0 + (a % P) = a % P
  BY <1>1, MultNumbers
<1> QED
  BY <1>1, <1>2, <1>3 DEF Same, Fe

(* Elements are equal if they are the same mod P. *)
LEMMA FeEqual ==
  ASSUME NEW a \in Fe, NEW b \in Fe, Same(a, b)
  PROVE  a = b
<1>1. a % P = a /\ b % P = b
  <2>1. ASSUME NEW c \in Fe PROVE c % P = c
    <3>1. (P * 0 + c) % P = c
      BY ModUnique, MultNumbers DEF Fe
    <3>2. P * 0 + c = c
      BY MultNumbers DEF Fe
    <3> QED
      BY <3>1, <3>2
  <2> QED
    BY <2>1
<1> QED
  BY <1>1 DEF Same

(* The operations, on operands known mod P. *)
LEMMA FeAddOf ==
  ASSUME NEW f \in Int, NEW g \in Int, NEW a \in Int, NEW b \in Int, Same(f, a), Same(g, b)
  PROVE  Same(FeAdd(f, g), a + b)
<1>1. Same(FeAdd(f, g), f + g)
  BY SameReduced DEF FeAdd
<1> QED
  BY <1>1, SameSum, SameThrough

LEMMA FeSubOf ==
  ASSUME NEW f \in Int, NEW g \in Int, NEW a \in Int, NEW b \in Int, Same(f, a), Same(g, b)
  PROVE  Same(FeSub(f, g), a - b)
<1>1. Same(FeSub(f, g), f - g)
  BY SameReduced DEF FeSub
<1> QED
  BY <1>1, SameDifference, SameThrough

LEMMA FeMulOf ==
  ASSUME NEW f \in Int, NEW g \in Int, NEW a \in Int, NEW b \in Int, Same(f, a), Same(g, b)
  PROVE  Same(FeMul(f, g), a * b)
<1>1. Same(FeMul(f, g), f * g)
  <2>1. f * g \in Int
    OBVIOUS
  <2> QED
    BY <2>1, SameReduced DEF FeMul
<1>2. Same(f * g, a * b)
  BY SameProduct
<1> QED
  BY <1>1, <1>2, SameThrough

LEMMA FeNegOf ==
  ASSUME NEW f \in Int, NEW a \in Int, Same(f, a)
  PROVE  Same(FeNeg(f), -a)
<1>1. Same(FeNeg(f), -f)
  BY SameReduced DEF FeNeg
<1>2. Same(0 - f, 0 - a)
  BY SameDifference, SameItself
<1>3. 0 - f = -f /\ 0 - a = -a
  OBVIOUS
<1> QED
  BY <1>1, <1>2, <1>3, SameThrough

(* Nothing but 0 divides 0. *)
NotZero(a) == a % P # 0

LEMMA InverseOf ==
  ASSUME NEW a \in Int, NotZero(a)
  PROVE  /\ a % P \in 1..P-1 /\ FeInvert[a % P] \in Int
         /\ Same(a * FeInvert[a % P], 1)
<1> DEFINE z == a % P
<1>1. z \in 1..P-1
  BY SameReduced DEF NotZero, Fe
<1>2. z \in Fe /\ z \in Int /\ Same(z, a)
  BY SameReduced, FeInt
<1> HIDE DEF z
<1>3. FeInvert[z] \in Int
  BY <1>2, FeInvertType, FeInt DEF Fe
<1>4. FeMul(z, FeInvert[z]) = 1
  BY <1>1, CurveAssumption
<1>5. Same(FeMul(z, FeInvert[z]), a * FeInvert[z])
  BY <1>2, <1>3, FeMulOf, SameItself
<1>6. Same(a * FeInvert[z], 1)
  BY <1>4, <1>5, SameTurned
<1> QED
  BY <1>1, <1>3, <1>6 DEF z

LEMMA Cancelled ==
  ASSUME NEW z \in Int, NotZero(z), NEW a \in Int, NEW b \in Int, Same(z * a, z * b)
  PROVE  Same(a, b)
<1>1. PICK v \in Int : Same(z * v, 1)
  BY InverseOf
<1>2. Same(v * (z * a), v * (z * b))
  <2>1. z * a \in Int /\ z * b \in Int
    OBVIOUS
  <2>2. Same(v, v)
    BY SameItself
  <2> QED
    BY <2>1, <2>2, SameProduct
<1>3. v * (z * a) = (z * v) * a /\ v * (z * b) = (z * v) * b
  OBVIOUS
<1>4. Same((z * v) * a, 1 * a) /\ Same((z * v) * b, 1 * b)
  <2>1. z * v \in Int /\ 1 \in Int
    OBVIOUS
  <2>2. Same(a, a) /\ Same(b, b)
    BY SameItself
  <2> QED
    BY <1>1, <2>1, <2>2, SameProduct
<1>5. 1 * a = a /\ 1 * b = b
  OBVIOUS
<1>6. Same(a, (z * v) * a) /\ Same((z * v) * a, (z * v) * b) /\ Same((z * v) * b, b)
  BY <1>2, <1>3, <1>4, <1>5, SameTurned
<1> QED
  BY <1>6, SameThrough

LEMMA ProductNotZero ==
  ASSUME NEW a \in Int, NotZero(a), NEW b \in Int, NotZero(b)
  PROVE  NotZero(a * b)
<1> SUFFICES ASSUME ~ NotZero(a * b) PROVE FALSE
  OBVIOUS
<1>1. 0 % P = 0
  BY MultNumbers
<1>2. Same(a * b, a * 0)
  <2>1. a * 0 = 0
    OBVIOUS
  <2> QED
    BY <1>1, <2>1 DEF NotZero, Same
<1>3. Same(b, 0)
  BY <1>2, Cancelled
<1> QED
  BY <1>1, <1>3 DEF NotZero, Same

LEMMA NotZeroSame ==
  ASSUME NEW a, NEW b, Same(a, b), NotZero(b)
  PROVE  NotZero(a)
  BY DEF NotZero, Same

LEMMA NotZeroFe ==
  ASSUME NEW a \in Fe
  PROVE  NotZero(a) <=> a # 0
<1>1. a % P = a
  <2>1. a % P \in Fe /\ Same(a % P, a)
    BY SameReduced, FeInt
  <2> QED
    BY <2>1, FeEqual
<1> QED
  BY <1>1 DEF NotZero

LEMMA TwoNotZero == NotZero(2)
<1>1. P % 8 = 5
  BY CurveAssumption
<1>2. P # 2
  BY <1>1
<1>3. 2 \in Fe
  BY <1>2, MultNumbers DEF Fe
<1> QED
  BY <1>3, NotZeroFe

-----------------------------------------------------------------------------
(* Points and what stands for them.                                        *)

Coordinates == [x : Fe, y : Fe]

(* The curve equation, in numbers. *)
LEMMA CurveEquation ==
  ASSUME NEW q \in Coordinates
  PROVE  q \in Curve <=> Same(q.y * q.y - q.x * q.x, 1 + D * ((q.x * q.x) * (q.y * q.y)))
<1> DEFINE xx == q.x * q.x
           yy == q.y * q.y
           left == FeSub(FeSq(q.y), FeSq(q.x))
           right == FeAdd(1, FeMul(D, FeMul(FeSq(q.x), FeSq(q.y))))
<1>1. q.x \in Int /\ q.y \in Int /\ D \in Int
  BY FeInt, MultNumbers DEF Coordinates
<1>2. xx \in Int /\ yy \in Int
  BY <1>1
<1>3. q \in Curve <=> left = right
  BY DEF Curve, Coordinates, Fe
<1>4. /\ FeSq(q.x) \in Int /\ FeSq(q.y) \in Int /\ FeMul(FeSq(q.x), FeSq(q.y)) \in Int
      /\ FeMul(D, FeMul(FeSq(q.x), FeSq(q.y))) \in Int
  BY <1>1, FeTypes, FeInt
<1>5. Same(FeSq(q.x), xx) /\ Same(FeSq(q.y), yy)
  BY <1>1, FeMulOf, SameItself DEF FeSq
<1> HIDE DEF xx, yy
<1>6. Same(left, yy - xx) /\ left \in Fe
  BY <1>2, <1>4, <1>5, FeSubOf, FeTypes
<1>7. Same(FeMul(FeSq(q.x), FeSq(q.y)), xx * yy) /\ xx * yy \in Int
  BY <1>2, <1>4, <1>5, FeMulOf
<1>8. Same(FeMul(D, FeMul(FeSq(q.x), FeSq(q.y))), D * (xx * yy)) /\ D * (xx * yy) \in Int
  <2>1. D * (xx * yy) \in Int
    BY <1>1, <1>7
  <2>2. Same(D, D)
    BY SameItself
  <2> QED
    BY <1>1, <1>4, <1>7, <2>1, <2>2, FeMulOf
<1>9. Same(right, 1 + D * (xx * yy)) /\ right \in Fe
  <2>1. 1 \in Int /\ Same(1, 1)
    BY SameItself
  <2> QED
    BY <1>4, <1>8, <2>1, FeAddOf, FeTypes
<1> HIDE DEF left, right
<1>10. left = right <=> Same(yy - xx, 1 + D * (xx * yy))
  <2>1. ASSUME left = right PROVE Same(yy - xx, 1 + D * (xx * yy))
    BY <1>6, <1>9, <2>1, SameTurned, SameThrough
  <2>2. ASSUME Same(yy - xx, 1 + D * (xx * yy)) PROVE left = right
    <3>1. Same(left, right)
      BY <1>6, <1>9, <2>2, SameTurned, SameThrough
    <3> QED
      BY <1>6, <1>9, <3>1, FeEqual
  <2> QED
    BY <2>1, <2>2
<1> QED
  BY <1>3, <1>10 DEF xx, yy

LEMMA CurveIs ==
  /\ Curve \subseteq Coordinates
  /\ \A q \in Curve : Same(q.y * q.y - q.x * q.x, 1 + D * ((q.x * q.x) * (q.y * q.y)))
<1>1. Curve \subseteq Coordinates
  BY DEF Curve, Coordinates, Fe
<1> QED
  BY <1>1, CurveEquation

(* Cross as a number. *)
CrossOf(q, r) == D * ((q.x * r.x) * (q.y * r.y))

LEMMA CrossIs ==
  ASSUME NEW q \in Coordinates, NEW r \in Coordinates
  PROVE  Same(Cross(q, r), CrossOf(q, r)) /\ CrossOf(q, r) \in Int /\ Cross(q, r) \in Fe
<1>1. q.x \in Int /\ q.y \in Int /\ r.x \in Int /\ r.y \in Int /\ D \in Int
  BY FeInt, MultNumbers DEF Coordinates
<1>2. FeMul(q.x, r.x) \in Int /\ FeMul(q.y, r.y) \in Int
  BY <1>1, FeTypes, FeInt
<1>3. Same(FeMul(q.x, r.x), q.x * r.x) /\ Same(FeMul(q.y, r.y), q.y * r.y)
  BY <1>1, FeMulOf, SameItself
<1>4. q.x * r.x \in Int /\ q.y * r.y \in Int
  BY <1>1
<1>5. Same(FeMul(FeMul(q.x, r.x), FeMul(q.y, r.y)), (q.x * r.x) * (q.y * r.y))
  BY <1>2, <1>3, <1>4, FeMulOf
<1>6. FeMul(FeMul(q.x, r.x), FeMul(q.y, r.y)) \in Int /\ (q.x * r.x) * (q.y * r.y) \in Int
  <2>1. FeMul(FeMul(q.x, r.x), FeMul(q.y, r.y)) \in Int
    BY <1>2, FeTypes, FeInt
  <2>2. (q.x * r.x) * (q.y * r.y) \in Int
    BY <1>4
  <2> QED
    BY <2>1, <2>2
<1>7. Same(Cross(q, r), CrossOf(q, r))
  BY <1>1, <1>5, <1>6, FeMulOf, SameItself DEF Cross, CrossOf
<1>8. Cross(q, r) \in Fe
  BY <1>1, <1>6, FeTypes DEF Cross
<1>9. CrossOf(q, r) \in Int
  BY <1>1, <1>6 DEF CrossOf
<1> QED
  BY <1>7, <1>8, <1>9

LEMMA QuotientMeans ==
  ASSUME NEW n \in Int, NEW m \in Int, NEW z \in Fe, z # 0, Same(z, m)
  PROVE  FeMul(n, FeInvert[z]) \in Fe /\ Same(FeMul(n, FeInvert[z]) * m, n)
<1> DEFINE v == FeInvert[z]
           u == FeMul(n, v)
<1>1. z \in Int /\ z \in 1..P-1
  BY FeInt DEF Fe
<1>2. v \in Int
  BY FeInvertType, FeInt DEF Fe
<1>3. FeMul(z, v) = 1
  BY <1>1, CurveAssumption
<1> HIDE DEF v
<1>4. Same(z * v, 1)
  <2>1. Same(FeMul(z, v), z * v)
    BY <1>1, <1>2, FeMulOf, SameItself
  <2> QED
    BY <1>3, <2>1, SameTurned
<1>5. Same(u, n * v) /\ u \in Fe /\ u \in Int
  BY <1>2, FeMulOf, SameItself, FeTypes, FeInt
<1> HIDE DEF u
<1>6. Same(u * m, (n * v) * z)
  <2>1. n * v \in Int /\ Same(m, z)
    BY <1>2, SameTurned
  <2> QED
    BY <1>1, <1>5, <2>1, SameProduct
<1>7. (n * v) * z = n * (z * v)
  BY <1>1, <1>2
<1>8. Same(n * (z * v), n * 1)
  <2>1. z * v \in Int /\ Same(n, n) /\ 1 \in Int
    BY <1>1, <1>2, SameItself
  <2> QED
    BY <1>4, <2>1, SameProduct
<1>9. n * 1 = n
  OBVIOUS
<1>10. Same(u * m, n)
  BY <1>6, <1>7, <1>8, <1>9, SameThrough
<1> QED
  BY <1>5, <1>10 DEF u, v

LEMMA PlusMeans ==
  ASSUME NEW q \in Curve, NEW r \in Curve
  PROVE  /\ Plus(q, r) \in Coordinates /\ CrossOf(q, r) \in Int
         /\ NotZero(1 + CrossOf(q, r)) /\ NotZero(1 - CrossOf(q, r))
         /\ Same(Plus(q, r).x * (1 + CrossOf(q, r)), q.x * r.y + q.y * r.x)
         /\ Same(Plus(q, r).y * (1 - CrossOf(q, r)), q.y * r.y + q.x * r.x)
<1> DEFINE t  == Cross(q, r)
           t0 == CrossOf(q, r)
           nx == FeAdd(FeMul(q.x, r.y), FeMul(q.y, r.x))
           ny == FeAdd(FeMul(q.y, r.y), FeMul(q.x, r.x))
           s  == Plus(q, r)
<1>1. q \in Coordinates /\ r \in Coordinates
  BY CurveIs
<1>2. q.x \in Int /\ q.y \in Int /\ r.x \in Int /\ r.y \in Int
  BY <1>1, FeInt DEF Coordinates
<1>3. Same(t, t0) /\ t0 \in Int /\ t \in Int
  BY <1>1, CrossIs, FeInt
<1>4. /\ FeMul(q.x, r.y) \in Int /\ FeMul(q.y, r.x) \in Int
      /\ FeMul(q.y, r.y) \in Int /\ FeMul(q.x, r.x) \in Int
  BY <1>2, FeTypes, FeInt
<1>5. /\ Same(FeMul(q.x, r.y), q.x * r.y) /\ Same(FeMul(q.y, r.x), q.y * r.x)
      /\ Same(FeMul(q.y, r.y), q.y * r.y) /\ Same(FeMul(q.x, r.x), q.x * r.x)
  BY <1>2, FeMulOf, SameItself
<1>6. q.x * r.y \in Int /\ q.y * r.x \in Int /\ q.y * r.y \in Int /\ q.x * r.x \in Int
  BY <1>2
<1>7. Same(nx, q.x * r.y + q.y * r.x) /\ Same(ny, q.y * r.y + q.x * r.x)
  BY <1>4, <1>5, <1>6, FeAddOf
<1>8. nx \in Int /\ ny \in Int
  BY <1>4, FeTypes, FeInt
<1>9. /\ FeAdd(1, t) # 0 /\ FeSub(1, t) # 0
      /\ FeAdd(1, t) \in Fe /\ FeSub(1, t) \in Fe
  BY <1>3, GroupAssumption, FeTypes
<1>10. s.x = FeMul(nx, FeInvert[FeAdd(1, t)]) /\ s.y = FeMul(ny, FeInvert[FeSub(1, t)])
  BY DEF Plus, Affine
<1> HIDE DEF t, nx, ny, s, t0
<1>11. Same(FeAdd(1, t), 1 + t0) /\ Same(FeSub(1, t), 1 - t0)
  BY <1>3, FeAddOf, FeSubOf, SameItself
<1>12. 1 + t0 \in Int /\ 1 - t0 \in Int
  BY <1>3
<1>13. Same(s.x * (1 + t0), nx) /\ Same(s.y * (1 - t0), ny)
  BY <1>8, <1>9, <1>10, <1>11, <1>12, QuotientMeans
<1>14. NotZero(1 + t0) /\ NotZero(1 - t0)
  <2>1. NotZero(FeAdd(1, t)) /\ NotZero(FeSub(1, t))
    BY <1>9, NotZeroFe
  <2> QED
    BY <1>11, <2>1, NotZeroSame, SameTurned
<1>15. s \in Coordinates
  BY <1>1, PlusType DEF s, Coordinates
<1>16. /\ Same(s.x * (1 + t0), q.x * r.y + q.y * r.x)
       /\ Same(s.y * (1 - t0), q.y * r.y + q.x * r.x)
  BY <1>7, <1>13, SameThrough
<1> QED
  BY <1>3, <1>14, <1>15, <1>16 DEF s, t0

Point3 == [X : Fe, Y : Fe, Z : Fe, T : Fe]
Point2 == [X : Fe, Y : Fe, Z : Fe]

LEMMA StandsForMeans ==
  ASSUME NEW p, p.X \in Fe, p.Y \in Fe, p.Z \in Fe, NEW q \in Coordinates
  PROVE  StandsFor(p, q) <=>
           NotZero(p.Z) /\ Same(p.X, q.x * p.Z) /\ Same(p.Y, q.y * p.Z)
<1>1. q.x \in Int /\ q.y \in Int /\ p.Z \in Int
  BY FeInt DEF Coordinates
<1>2. /\ FeMul(q.x, p.Z) \in Fe /\ Same(FeMul(q.x, p.Z), q.x * p.Z)
      /\ FeMul(q.y, p.Z) \in Fe /\ Same(FeMul(q.y, p.Z), q.y * p.Z)
  BY <1>1, FeTypes, FeMulOf, SameItself
<1>3. p.X = FeMul(q.x, p.Z) <=> Same(p.X, q.x * p.Z)
  BY <1>2, FeEqual, SameTurned, SameThrough
<1>4. p.Y = FeMul(q.y, p.Z) <=> Same(p.Y, q.y * p.Z)
  BY <1>2, FeEqual, SameTurned, SameThrough
<1>5. p.Z # 0 <=> NotZero(p.Z)
  BY NotZeroFe
<1> QED
  BY <1>3, <1>4, <1>5 DEF StandsFor

LEMMA RepresentsMeans ==
  ASSUME NEW p \in Point3, NEW q \in Coordinates, Represents(p, q)
  PROVE  /\ NotZero(p.Z) /\ Same(p.X, q.x * p.Z) /\ Same(p.Y, q.y * p.Z)
         /\ Same(p.T, (q.x * q.y) * p.Z)
<1> DEFINE X == p.X
           Y == p.Y
           Z == p.Z
           T == p.T
           x == q.x
           y == q.y
<1>1. X \in Fe /\ Y \in Fe /\ Z \in Fe /\ T \in Fe
  BY DEF Point3
<1>2. X \in Int /\ Y \in Int /\ Z \in Int /\ T \in Int /\ x \in Int /\ y \in Int
  BY <1>1, FeInt DEF Coordinates
<1>3. NotZero(Z) /\ Same(X, x * Z) /\ Same(Y, y * Z)
  BY <1>1, StandsForMeans DEF Represents
<1>4. FeMul(X, Y) = FeMul(Z, T)
  BY DEF Represents
<1> HIDE DEF X, Y, Z, T, x, y
<1>5. Same(Z * T, X * Y)
  <2>1. Same(FeMul(X, Y), X * Y) /\ Same(FeMul(Z, T), Z * T)
    BY <1>2, FeMulOf, SameItself
  <2> QED
    BY <1>4, <2>1, SameTurned, SameThrough
<1>6. Same(X * Y, (x * Z) * (y * Z))
  <2>1. x * Z \in Int /\ y * Z \in Int
    BY <1>2
  <2> QED
    BY <1>2, <1>3, <2>1, SameProduct
<1>7. (x * Z) * (y * Z) = Z * ((x * y) * Z) /\ (x * y) * Z \in Int
  BY <1>2
<1>8. Same(Z * T, Z * ((x * y) * Z))
  BY <1>5, <1>6, <1>7, SameThrough
<1>9. Same(T, (x * y) * Z)
  BY <1>2, <1>3, <1>7, <1>8, Cancelled
<1> QED
  BY <1>3, <1>9 DEF X, Y, Z, T, x, y

(* A completed point: x = X/Z, y = Y/T. *)
Completes(r, s) ==
  NotZero(r.Z) /\ NotZero(r.T) /\ Same(r.X, s.x * r.Z) /\ Same(r.Y, s.y * r.T)

LEMMA ToP3Represents ==
  ASSUME NEW r \in Point3, NEW s \in Coordinates, Completes(r, s)
  PROVE  Represents(ToP3(r), s) /\ StandsFor(ToP2(r), s)
<1> DEFINE X == r.X
           Y == r.Y
           Z == r.Z
           T == r.T
           x == s.x
           y == s.y
           p == ToP3(r)
<1>1. X \in Int /\ Y \in Int /\ Z \in Int /\ T \in Int /\ x \in Int /\ y \in Int
  BY FeInt DEF Coordinates, Point3
<1>2. NotZero(Z) /\ NotZero(T) /\ Same(X, x * Z) /\ Same(Y, y * T)
  BY DEF Completes
<1>3. /\ p.X = FeMul(X, T) /\ p.Y = FeMul(Y, Z) /\ p.Z = FeMul(Z, T) /\ p.T = FeMul(X, Y)
      /\ ToP2(r).X = p.X /\ ToP2(r).Y = p.Y /\ ToP2(r).Z = p.Z
  BY DEF ToP3, ToP2
<1> HIDE DEF X, Y, Z, T, x, y, p
<1>4. /\ Same(p.X, X * T) /\ Same(p.Y, Y * Z) /\ Same(p.Z, Z * T) /\ Same(p.T, X * Y)
      /\ p.X \in Fe /\ p.Y \in Fe /\ p.Z \in Fe /\ p.T \in Fe
  BY <1>1, <1>3, FeTypes, FeMulOf, SameItself
<1>5. p.X \in Int /\ p.Y \in Int /\ p.Z \in Int /\ p.T \in Int
  BY <1>4, FeInt
<1>6. X * T \in Int /\ Y * Z \in Int /\ Z * T \in Int /\ X * Y \in Int /\ x * Z \in Int /\ y * T \in Int
  BY <1>1
<1>7. NotZero(p.Z)
  BY <1>1, <1>2, <1>4, ProductNotZero, NotZeroSame
<1>8. Same(p.X, x * p.Z)
  <2>1. Same(X * T, (x * Z) * T)
    BY <1>1, <1>2, <1>6, SameProduct, SameItself
  <2>2. (x * Z) * T = x * (Z * T)
    BY <1>1
  <2>3. Same(x * p.Z, x * (Z * T))
    BY <1>1, <1>4, <1>5, <1>6, SameProduct, SameItself
  <2> QED
    BY <1>4, <2>1, <2>2, <2>3, SameTurned, SameThrough
<1>9. Same(p.Y, y * p.Z)
  <2>1. Same(Y * Z, (y * T) * Z)
    BY <1>1, <1>2, <1>6, SameProduct, SameItself
  <2>2. (y * T) * Z = y * (Z * T)
    BY <1>1
  <2>3. Same(y * p.Z, y * (Z * T))
    BY <1>1, <1>4, <1>5, <1>6, SameProduct, SameItself
  <2> QED
    BY <1>4, <2>1, <2>2, <2>3, SameTurned, SameThrough
<1>10. FeMul(p.X, p.Y) = FeMul(p.Z, p.T)
  <2>1. Same(FeMul(p.X, p.Y), (X * T) * (Y * Z)) /\ Same(FeMul(p.Z, p.T), (Z * T) * (X * Y))
    BY <1>4, <1>5, <1>6, FeMulOf
  <2>2. (X * T) * (Y * Z) = (Z * T) * (X * Y)
    BY <1>1
  <2>3. FeMul(p.X, p.Y) \in Fe /\ FeMul(p.Z, p.T) \in Fe
    BY <1>5, FeTypes
  <2>4. Same(FeMul(p.X, p.Y), FeMul(p.Z, p.T))
    BY <2>1, <2>2, SameTurned, SameThrough
  <2> QED
    BY <2>3, <2>4, FeEqual
<1>11. StandsFor(p, s)
  BY <1>4, <1>7, <1>8, <1>9, StandsForMeans DEF x, y
<1>12. StandsFor(ToP2(r), s)
  BY <1>3, <1>11 DEF StandsFor
<1> QED
  BY <1>10, <1>11, <1>12 DEF Represents, p

-----------------------------------------------------------------------------
(* The formulas of ge.c.                                                   *)

(* The numbers that an addition comes to, for coordinates that are Z and w *)
(* times those of the two points.                                          *)
LEMMA SumIdentity ==
  ASSUME NEW x1 \in Int, NEW y1 \in Int, NEW x2 \in Int, NEW y2 \in Int,
         NEW Z \in Int, NEW w \in Int
  PROVE  /\ (y1 * Z + x1 * Z) * (w * (y2 + x2)) - (y1 * Z - x1 * Z) * (w * (y2 - x2))
              = (2 * (w * Z)) * (x1 * y2 + y1 * x2)
         /\ (y1 * Z + x1 * Z) * (w * (y2 + x2)) + (y1 * Z - x1 * Z) * (w * (y2 - x2))
              = (2 * (w * Z)) * (y1 * y2 + x1 * x2)
  OBVIOUS

LEMMA CrossIdentity ==
  ASSUME NEW x1 \in Int, NEW y1 \in Int, NEW x2 \in Int, NEW y2 \in Int,
         NEW Z \in Int, NEW w \in Int, NEW d \in Int
  PROVE  /\ 2 * (w * Z) + (2 * (w * d)) * ((x2 * y2) * ((x1 * y1) * Z))
              = (2 * (w * Z)) * (1 + d * ((x1 * x2) * (y1 * y2)))
         /\ 2 * (w * Z) - (2 * (w * d)) * ((x2 * y2) * ((x1 * y1) * Z))
              = (2 * (w * Z)) * (1 - d * ((x1 * x2) * (y1 * y2)))
  OBVIOUS

(* u times a quotient. *)
LEMMA SameScaled ==
  ASSUME NEW u \in Int, NEW a \in Int, NEW b \in Int, NEW n \in Int, Same(a * b, n)
  PROVE  Same(u * n, a * (u * b))
<1>1. a * b \in Int /\ Same(u, u)
  BY SameItself
<1>2. Same(u * n, u * (a * b))
  BY <1>1, SameProduct, SameTurned
<1>3. u * (a * b) = a * (u * b)
  OBVIOUS
<1> QED
  BY <1>2, <1>3

(* A completed point whose parts are u times those of the sum. *)
LEMMA CompletesPlus ==
  ASSUME NEW q \in Curve, NEW r \in Curve, NEW h \in Point3, NEW u \in Int, NotZero(u),
         Same(h.X, u * (q.x * r.y + q.y * r.x)), Same(h.Y, u * (q.y * r.y + q.x * r.x)),
         Same(h.Z, u * (1 + CrossOf(q, r))), Same(h.T, u * (1 - CrossOf(q, r)))
  PROVE  Completes(h, Plus(q, r))
<1> DEFINE s  == Plus(q, r)
           t0 == CrossOf(q, r)
           nx == q.x * r.y + q.y * r.x
           ny == q.y * r.y + q.x * r.x
<1>1. q \in Coordinates /\ r \in Coordinates
  BY CurveIs
<1>2. nx \in Int /\ ny \in Int
  <2>1. q.x \in Int /\ q.y \in Int /\ r.x \in Int /\ r.y \in Int
    BY <1>1, FeInt DEF Coordinates
  <2> QED
    BY <2>1
<1>3. /\ s \in Coordinates /\ t0 \in Int /\ NotZero(1 + t0) /\ NotZero(1 - t0)
      /\ Same(s.x * (1 + t0), nx) /\ Same(s.y * (1 - t0), ny)
  BY PlusMeans
<1>4. /\ Same(h.X, u * nx) /\ Same(h.Y, u * ny)
      /\ Same(h.Z, u * (1 + t0)) /\ Same(h.T, u * (1 - t0))
  OBVIOUS
<1> HIDE DEF s, t0, nx, ny
<1>5. s.x \in Int /\ s.y \in Int /\ h.Z \in Int /\ h.T \in Int
  BY <1>3, FeInt DEF Coordinates, Point3
<1>6. 1 + t0 \in Int /\ 1 - t0 \in Int
  BY <1>3
<1>7. u * (1 + t0) \in Int /\ u * (1 - t0) \in Int
  BY <1>6
<1>8. NotZero(h.Z) /\ NotZero(h.T)
  <2>1. NotZero(u * (1 + t0)) /\ NotZero(u * (1 - t0))
    BY <1>3, <1>6, ProductNotZero
  <2> QED
    BY <1>4, <2>1, NotZeroSame
<1>9. Same(s.x, s.x) /\ Same(s.y, s.y)
  BY SameItself
<1>10. Same(h.X, s.x * h.Z)
  <2>1. Same(u * nx, s.x * (u * (1 + t0)))
    BY <1>2, <1>3, <1>5, <1>6, SameScaled
  <2>2. Same(s.x * h.Z, s.x * (u * (1 + t0)))
    BY <1>4, <1>5, <1>7, <1>9, SameProduct
  <2> QED
    BY <1>4, <2>1, <2>2, SameTurned, SameThrough
<1>11. Same(h.Y, s.y * h.T)
  <2>1. Same(u * ny, s.y * (u * (1 - t0)))
    BY <1>2, <1>3, <1>5, <1>6, SameScaled
  <2>2. Same(s.y * h.T, s.y * (u * (1 - t0)))
    BY <1>4, <1>5, <1>7, <1>9, SameProduct
  <2> QED
    BY <1>4, <2>1, <2>2, SameTurned, SameThrough
<1> QED
  BY <1>8, <1>10, <1>11 DEF Completes, s

LEMMA CompletedPlus ==
  ASSUME NEW p \in Point3, NEW q \in Curve, NEW r \in Curve, Represents(p, q),
         NEW w \in Int, NotZero(w),
         NEW yp \in Fe, Same(yp, w * (r.y + r.x)),
         NEW ym \in Fe, Same(ym, w * (r.y - r.x)),
         NEW c \in Fe, Same(c, (2 * (w * D)) * ((r.x * r.y) * p.T)),
         NEW z2 \in Fe, Same(z2, 2 * (w * p.Z))
  PROVE  /\ Completed(p, yp, ym, c, z2) \in Point3
         /\ Completes(Completed(p, yp, ym, c, z2), Plus(q, r))
<1> DEFINE X == p.X
           Y == p.Y
           Z == p.Z
           T == p.T
           x1 == q.x
           y1 == q.y
           x2 == r.x
           y2 == r.y
           s  == Plus(q, r)
           t0 == CrossOf(q, r)
           u  == 2 * (w * Z)
           A == FeAdd(Y, X)
           B == FeSub(Y, X)
           plus == FeMul(A, yp)
           minus == FeMul(B, ym)
           h == Completed(p, yp, ym, c, z2)
<1>1. q \in Coordinates /\ r \in Coordinates
  BY CurveIs
<1>2. /\ X \in Int /\ Y \in Int /\ Z \in Int /\ T \in Int /\ D \in Int
      /\ yp \in Int /\ ym \in Int /\ c \in Int /\ z2 \in Int
      /\ x1 \in Int /\ y1 \in Int /\ x2 \in Int /\ y2 \in Int
  BY <1>1, FeInt, MultNumbers DEF Coordinates, Point3
<1>3. /\ NotZero(Z) /\ Same(X, x1 * Z) /\ Same(Y, y1 * Z) /\ Same(T, (x1 * y1) * Z)
  BY <1>1, RepresentsMeans
<1>4. t0 \in Int
  BY PlusMeans
<1>6. t0 = D * ((x1 * x2) * (y1 * y2))
  BY DEF CrossOf
<1>7. h \in Point3
  BY CompletedType DEF Point3
<1>8. h.X = FeSub(plus, minus) /\ h.Y = FeAdd(plus, minus)
      /\ h.Z = FeAdd(z2, c) /\ h.T = FeSub(z2, c)
  BY DEF Completed
<1>9. /\ Same(yp, w * (y2 + x2)) /\ Same(ym, w * (y2 - x2))
      /\ Same(c, (2 * (w * D)) * ((x2 * y2) * T)) /\ Same(z2, u)
  OBVIOUS
<1> HIDE DEF X, Y, Z, T, x1, y1, x2, y2, s, t0, h
<1>10. /\ x1 * Z \in Int /\ y1 * Z \in Int /\ w * (y2 + x2) \in Int /\ w * (y2 - x2) \in Int
       /\ u \in Int /\ (x1 * y1) * Z \in Int /\ x2 * y2 \in Int /\ 2 * (w * D) \in Int
  BY <1>2
<1>11. A \in Int /\ B \in Int /\ Same(A, y1 * Z + x1 * Z) /\ Same(B, y1 * Z - x1 * Z)
  BY <1>2, <1>3, <1>10, FeTypes, FeInt, FeAddOf, FeSubOf
<1>12. y1 * Z + x1 * Z \in Int /\ y1 * Z - x1 * Z \in Int
  BY <1>10
<1> DEFINE m == (y1 * Z + x1 * Z) * (w * (y2 + x2))
           n == (y1 * Z - x1 * Z) * (w * (y2 - x2))
<1>13. Same(plus, m) /\ Same(minus, n) /\ plus \in Int /\ minus \in Int
  <2> HIDE DEF A, B
  <2> QED
    BY <1>2, <1>9, <1>10, <1>11, <1>12, FeMulOf, FeTypes, FeInt
<1>14. m \in Int /\ n \in Int
  BY <1>10, <1>12
<1>15. m - n = u * (x1 * y2 + y1 * x2) /\ m + n = u * (y1 * y2 + x1 * x2)
  BY <1>2, SumIdentity
<1> HIDE DEF A, B, plus, minus, m, n, u
<1>16. Same(h.X, m - n) /\ Same(h.Y, m + n)
  BY <1>8, <1>13, <1>14, FeAddOf, FeSubOf
<1> DEFINE e == (2 * (w * D)) * ((x2 * y2) * ((x1 * y1) * Z))
<1>17. Same(c, e) /\ e \in Int
  <2>1. (x2 * y2) * T \in Int /\ (x2 * y2) * ((x1 * y1) * Z) \in Int
    BY <1>2, <1>10
  <2>2. Same((x2 * y2) * T, (x2 * y2) * ((x1 * y1) * Z))
    BY <1>2, <1>3, <1>10, SameProduct, SameItself
  <2>3. Same((2 * (w * D)) * ((x2 * y2) * T), e)
    BY <1>10, <2>1, <2>2, SameProduct, SameItself
  <2>4. e \in Int
    BY <1>10, <2>1
  <2> HIDE DEF e
  <2> QED
    BY <1>9, <2>3, <2>4, SameThrough
<1>18. u + e = u * (1 + t0) /\ u - e = u * (1 - t0)
  BY <1>2, <1>6, CrossIdentity DEF u
<1> HIDE DEF e
<1>19. Same(h.Z, u * (1 + t0)) /\ Same(h.T, u * (1 - t0))
  <2>1. Same(h.Z, u + e) /\ Same(h.T, u - e)
    BY <1>2, <1>8, <1>9, <1>10, <1>17, FeAddOf, FeSubOf
  <2> QED
    BY <1>18, <2>1
<1>20. NotZero(u)
  <2>1. w * Z \in Int /\ 2 \in Int /\ NotZero(w * Z)
    BY <1>2, <1>3, ProductNotZero
  <2> QED
    BY <2>1, TwoNotZero, ProductNotZero DEF u
<1>21. Same(h.X, u * (x1 * y2 + y1 * x2)) /\ Same(h.Y, u * (y1 * y2 + x1 * x2))
  BY <1>15, <1>16
<1>22. Completes(h, s)
  BY <1>7, <1>10, <1>19, <1>20, <1>21, CompletesPlus DEF x1, y1, x2, y2, s, t0
<1> QED
  BY <1>7, <1>22 DEF h, s
LEMMA MinusIs ==
  ASSUME NEW r \in Curve
  PROVE  /\ Minus(r) \in Curve /\ Minus(r).y = r.y
         /\ Minus(r).x = FeNeg(r.x) /\ Same(Minus(r).x, -r.x)
<1>1. r \in Coordinates
  BY CurveIs
<1>2. r.x \in Int /\ r.y \in Int
  BY <1>1, FeInt DEF Coordinates
<1>3. Minus(r).x = FeNeg(r.x) /\ Minus(r).y = r.y
  BY DEF Minus, Affine
<1>4. Same(FeNeg(r.x), -r.x) /\ FeNeg(r.x) \in Fe
  BY <1>2, FeNegOf, SameItself, FeTypes
<1>5. FeSq(FeNeg(r.x)) = FeSq(r.x)
  <2>0. -r.x \in Int
    BY <1>2
  <2>1. FeNeg(r.x) \in Int
    BY <1>4, FeInt
  <2>2. Same(FeSq(FeNeg(r.x)), (-r.x) * (-r.x))
    BY <1>4, <2>0, <2>1, FeMulOf DEF FeSq
  <2>3. Same(FeSq(r.x), r.x * r.x)
    BY <1>2, FeMulOf, SameItself DEF FeSq
  <2>4. (-r.x) * (-r.x) = r.x * r.x
    BY <1>2
  <2>5. FeSq(FeNeg(r.x)) \in Fe /\ FeSq(r.x) \in Fe
    BY <1>2, <2>1, FeTypes
  <2>6. Same(FeSq(FeNeg(r.x)), FeSq(r.x))
    BY <2>2, <2>3, <2>4, SameTurned, SameThrough
  <2> QED
    BY <2>5, <2>6, FeEqual
<1>6. Minus(r) \in [x : 0..P-1, y : 0..P-1]
  BY <1>1, <1>4 DEF Minus, Affine, Coordinates, Fe
<1>7. FeSub(FeSq(r.y), FeSq(r.x)) = FeAdd(1, FeMul(D, FeMul(FeSq(r.x), FeSq(r.y))))
  BY DEF Curve
<1>8. Minus(r) \in Curve
  BY <1>3, <1>5, <1>6, <1>7 DEF Curve
<1> QED
  BY <1>3, <1>4, <1>8

(* The same, with the sum and the difference exchanged and the product of  *)
(* the T's negated.                                                        *)
LEMMA CompletedMinus ==
  ASSUME NEW p \in Point3, NEW q \in Curve, NEW r \in Curve, Represents(p, q),
         NEW w \in Int, NotZero(w),
         NEW yp \in Fe, Same(yp, w * (r.y - r.x)),
         NEW ym \in Fe, Same(ym, w * (r.y + r.x)),
         NEW c \in Fe, Same(c, -((2 * (w * D)) * ((r.x * r.y) * p.T))),
         NEW z2 \in Fe, Same(z2, 2 * (w * p.Z))
  PROVE  /\ Completed(p, yp, ym, c, z2) \in Point3
         /\ Completes(Completed(p, yp, ym, c, z2), Plus(q, Minus(r)))
<1> DEFINE x == r.x
           y == r.y
           n == Minus(r).x
           T == p.T
<1>1. /\ Minus(r) \in Curve /\ Minus(r).y = y /\ Same(n, -x)
  BY MinusIs
<1>2. r \in Coordinates /\ Minus(r) \in Coordinates
  BY <1>1, CurveIs
<1>3. x \in Int /\ y \in Int /\ n \in Int /\ T \in Int /\ D \in Int
  BY <1>2, FeInt, MultNumbers DEF Coordinates, Point3
<1>4. /\ Same(yp, w * (y - x)) /\ Same(ym, w * (y + x))
      /\ Same(c, -((2 * (w * D)) * ((x * y) * T)))
  OBVIOUS
<1> HIDE DEF x, y, n, T
<1>5. -x \in Int
  BY <1>3
<1>6. Same(y + n, y + (-x)) /\ Same(y - n, y - (-x))
  BY <1>1, <1>3, <1>5, SameSum, SameDifference, SameItself
<1>7. /\ y + (-x) = y - x /\ y - (-x) = y + x
      /\ y - x \in Int /\ y + x \in Int /\ y + n \in Int /\ y - n \in Int
  BY <1>3
<1>8. Same(w * (y + n), w * (y - x)) /\ Same(w * (y - n), w * (y + x))
  BY <1>6, <1>7, SameProduct, SameItself
<1>9. Same(yp, w * (y + n)) /\ Same(ym, w * (y - n))
  BY <1>4, <1>8, SameTurned, SameThrough
<1>10. Same(c, (2 * (w * D)) * ((n * y) * T))
  <2> DEFINE k == 2 * (w * D)
  <2>1. k \in Int
    BY <1>3
  <2> DEFINE f == n * y
             g == (-x) * y
  <2>2. f \in Int /\ g \in Int
    BY <1>3, <1>5
  <2>3. Same(y, y) /\ Same(T, T) /\ Same(k, k)
    BY SameItself
  <2>3a. Same(f, g)
    BY <1>1, <1>3, <1>5, <2>3, SameProduct
  <2> HIDE DEF k, f, g
  <2>3b. Same(f * T, g * T)
    BY <1>3, <2>2, <2>3, <2>3a, SameProduct
  <2>3c. f * T \in Int /\ g * T \in Int
    BY <1>3, <2>2
  <2>3d. Same(k * (f * T), k * (g * T))
    BY <2>1, <2>3, <2>3b, <2>3c, SameProduct
  <2>4. Same(k * ((n * y) * T), k * (((-x) * y) * T))
    BY <2>3d DEF f, g
  <2>5. k * (((-x) * y) * T) = -(k * ((x * y) * T))
    BY <1>3, <2>1
  <2>6. Same(c, -(k * ((x * y) * T)))
    BY <1>4 DEF k
  <2>7. Same(c, k * ((n * y) * T))
    BY <2>4, <2>5, <2>6, SameTurned, SameThrough
  <2> QED
    BY <2>7 DEF k
<1> QED
  BY <1>1, <1>9, <1>10, CompletedPlus DEF n, T

LEMMA PrecompIs ==
  ASSUME NEW r \in Curve
  PROVE  /\ Precomp(r) \in [yplusx : Fe, yminusx : Fe, xy2d : Fe]
         /\ Same(Precomp(r).yplusx, r.y + r.x) /\ Same(Precomp(r).yminusx, r.y - r.x)
         /\ Same(Precomp(r).xy2d, (2 * D) * (r.x * r.y))
<1>1. r \in Coordinates
  BY CurveIs
<1>2. r.x \in Int /\ r.y \in Int /\ D \in Int
  BY <1>1, FeInt, MultNumbers DEF Coordinates
<1>3. Same(FeMul(r.x, r.y), r.x * r.y) /\ FeMul(r.x, r.y) \in Int /\ r.x * r.y \in Int
  <2>1. Same(FeMul(r.x, r.y), r.x * r.y)
    BY <1>2, FeMulOf, SameItself
  <2>2. FeMul(r.x, r.y) \in Int
    BY <1>2, FeTypes, FeInt
  <2>3. r.x * r.y \in Int
    BY <1>2
  <2> QED
    BY <2>1, <2>2, <2>3
<1>4. Same(FeAdd(D, D), 2 * D) /\ FeAdd(D, D) \in Int /\ 2 * D \in Int
  <2>1. Same(FeAdd(D, D), D + D) /\ FeAdd(D, D) \in Int
    BY <1>2, FeAddOf, SameItself, FeTypes, FeInt
  <2>2. D + D = 2 * D /\ 2 * D \in Int
    BY <1>2
  <2> QED
    BY <2>1, <2>2
<1>5. Same(FeMul(FeAdd(D, D), FeMul(r.x, r.y)), (2 * D) * (r.x * r.y))
  BY <1>3, <1>4, FeMulOf
<1>6. Same(FeAdd(r.y, r.x), r.y + r.x) /\ Same(FeSub(r.y, r.x), r.y - r.x)
  BY <1>2, FeAddOf, FeSubOf, SameItself
<1>7. Precomp(r) \in [yplusx : Fe, yminusx : Fe, xy2d : Fe]
  BY <1>1, PrecompType DEF Coordinates
<1> QED
  BY <1>5, <1>6, <1>7 DEF Precomp

(* What ge_madd and ge_msub multiply the T's and the Z's to. *)
LEMMA MixedProducts ==
  ASSUME NEW p \in Point3, NEW r \in Curve
  PROVE  LET c == FeMul(Precomp(r).xy2d, p.T) IN
         /\ c \in Fe /\ Same(c, (2 * (1 * D)) * ((r.x * r.y) * p.T))
         /\ FeNeg(c) \in Fe /\ Same(FeNeg(c), -((2 * (1 * D)) * ((r.x * r.y) * p.T)))
         /\ FeAdd(p.Z, p.Z) \in Fe /\ Same(FeAdd(p.Z, p.Z), 2 * (1 * p.Z))
<1> DEFINE c == FeMul(Precomp(r).xy2d, p.T)
           e == (2 * (1 * D)) * ((r.x * r.y) * p.T)
<1>1. r \in Coordinates
  BY CurveIs
<1>2. r.x \in Int /\ r.y \in Int /\ D \in Int /\ p.T \in Int /\ p.Z \in Int
  BY <1>1, FeInt, MultNumbers DEF Coordinates, Point3
<1>3. Precomp(r).xy2d \in Int /\ Same(Precomp(r).xy2d, (2 * D) * (r.x * r.y))
  BY PrecompIs, FeInt
<1>4. (2 * D) * (r.x * r.y) \in Int /\ ((2 * D) * (r.x * r.y)) * p.T = e
  <2> DEFINE x == r.x
             y == r.y
             T == p.T
  <2>1. x \in Int /\ y \in Int /\ D \in Int /\ T \in Int
    BY <1>2
  <2> HIDE DEF x, y, T
  <2>2. (2 * D) * (x * y) \in Int
    BY <2>1
  <2>3. ((2 * D) * (x * y)) * T = (2 * (1 * D)) * ((x * y) * T)
    BY <2>1
  <2> QED
    BY <2>2, <2>3 DEF x, y, T
<1>5. e \in Int
  <2>1. ((2 * D) * (r.x * r.y)) * p.T \in Int
    BY <1>2, <1>4
  <2> QED
    BY <1>4, <2>1
<1>6. c \in Fe /\ Same(c, e)
  <2>1. c \in Fe
    BY <1>2, <1>3, FeTypes
  <2>2. Same(c, ((2 * D) * (r.x * r.y)) * p.T)
    BY <1>2, <1>3, <1>4, FeMulOf, SameItself
  <2> QED
    BY <1>4, <2>1, <2>2
<1>7. FeAdd(p.Z, p.Z) \in Fe /\ Same(FeAdd(p.Z, p.Z), 2 * (1 * p.Z))
  <2>1. FeAdd(p.Z, p.Z) \in Fe /\ Same(FeAdd(p.Z, p.Z), p.Z + p.Z)
    BY <1>2, FeTypes, FeAddOf, SameItself
  <2>2. p.Z + p.Z = 2 * (1 * p.Z)
    BY <1>2
  <2> QED
    BY <2>1, <2>2
<1> HIDE DEF c, e
<1>8. FeNeg(c) \in Fe /\ Same(FeNeg(c), -e)
  <2>1. c \in Int
    BY <1>6, FeInt
  <2> QED
    BY <1>5, <1>6, <2>1, FeTypes, FeNegOf
<1> QED
  BY <1>6, <1>7, <1>8 DEF c, e

(* ge_madd and ge_msub. *)
LEMMA GeMAddPlus ==
  ASSUME NEW p \in Point3, NEW q \in Curve, NEW r \in Curve, Represents(p, q)
  PROVE  /\ GeMAdd(p, Precomp(r)) \in Point3 /\ Completes(GeMAdd(p, Precomp(r)), Plus(q, r))
         /\ GeMSub(p, Precomp(r)) \in Point3
         /\ Completes(GeMSub(p, Precomp(r)), Plus(q, Minus(r)))
<1> DEFINE c == FeMul(Precomp(r).xy2d, p.T)
           z2 == FeAdd(p.Z, p.Z)
           yp == Precomp(r).yplusx
           ym == Precomp(r).yminusx
<1>1. /\ c \in Fe /\ Same(c, (2 * (1 * D)) * ((r.x * r.y) * p.T))
      /\ FeNeg(c) \in Fe /\ Same(FeNeg(c), -((2 * (1 * D)) * ((r.x * r.y) * p.T)))
      /\ z2 \in Fe /\ Same(z2, 2 * (1 * p.Z))
  BY MixedProducts
<1>2. yp \in Fe /\ ym \in Fe /\ Same(yp, r.y + r.x) /\ Same(ym, r.y - r.x)
  BY PrecompIs
<1>3. 1 * (r.y + r.x) = r.y + r.x /\ 1 * (r.y - r.x) = r.y - r.x
  <2>1. r \in Coordinates
    BY CurveIs
  <2>2. r.x \in Int /\ r.y \in Int
    BY <2>1, FeInt DEF Coordinates
  <2> QED
    BY <2>2
<1>4. 1 \in Int /\ NotZero(1)
  BY NotZeroFe, FeInt
<1>5. /\ GeMAdd(p, Precomp(r)) = Completed(p, yp, ym, c, z2)
      /\ GeMSub(p, Precomp(r)) = Completed(p, ym, yp, FeNeg(c), z2)
  BY DEF GeMAdd, GeMSub
<1> HIDE DEF c, z2, yp, ym
<1>6. Same(yp, 1 * (r.y + r.x)) /\ Same(ym, 1 * (r.y - r.x))
  BY <1>2, <1>3
<1>7. /\ Completed(p, yp, ym, c, z2) \in Point3
      /\ Completes(Completed(p, yp, ym, c, z2), Plus(q, r))
  BY <1>1, <1>2, <1>4, <1>6, CompletedPlus
<1>8. /\ Completed(p, ym, yp, FeNeg(c), z2) \in Point3
      /\ Completes(Completed(p, ym, yp, FeNeg(c), z2), Plus(q, Minus(r)))
  BY <1>1, <1>2, <1>4, <1>6, CompletedMinus
<1> QED
  BY <1>5, <1>7, <1>8

(* The numbers that a doubling comes to. *)
LEMMA DoubleIdentity ==
  ASSUME NEW x \in Int, NEW y \in Int, NEW Z \in Int
  PROVE  /\ (x * Z + y * Z) * (x * Z + y * Z) - ((y * Z) * (y * Z) + (x * Z) * (x * Z))
              = (Z * Z) * (x * y + y * x)
         /\ (y * Z) * (y * Z) + (x * Z) * (x * Z) = (Z * Z) * (y * y + x * x)
         /\ (y * Z) * (y * Z) - (x * Z) * (x * Z) = (Z * Z) * (y * y - x * x)
         /\ (Z * Z) * (y * y - x * x) \in Int /\ (Z * Z) * (y * y + x * x) \in Int
  OBVIOUS

(* ge_p2_dbl. *)
LEMMA GeDblPlus ==
  ASSUME NEW p \in Point2, NEW q \in Curve, StandsFor(p, q)
  PROVE  GeDbl(p) \in Point3 /\ Completes(GeDbl(p), Plus(q, q))
<1> DEFINE x  == q.x
           y  == q.y
           Z  == p.Z
           u  == Z * Z
           t0 == CrossOf(q, q)
           xZ == x * Z
           yZ == y * Z
           xx == FeSq(p.X)
           yy == FeSq(p.Y)
           sum2 == FeSq(FeAdd(p.X, p.Y))
           zz  == FeSq(p.Z)
           zz2 == FeAdd(zz, zz)
           dif == FeSub(yy, xx)
           all == FeAdd(yy, xx)
           h   == GeDbl(p)
<1>1. q \in Coordinates
  BY CurveIs
<1>2. p.X \in Int /\ p.Y \in Int /\ Z \in Int /\ x \in Int /\ y \in Int /\ D \in Int
  BY <1>1, FeInt, MultNumbers DEF Coordinates, Point2
<1>3. NotZero(Z) /\ Same(p.X, xZ) /\ Same(p.Y, yZ)
  BY <1>1, StandsForMeans DEF Point2
<1>4. t0 \in Int /\ t0 = D * ((x * x) * (y * y))
  BY PlusMeans DEF CrossOf
<1>5. Same(y * y - x * x, 1 + t0)
  BY <1>4, CurveIs
<1>6. h \in Point3
  BY GeDblType DEF Point2, Point3
<1>7. h.X = FeSub(sum2, all) /\ h.Y = all /\ h.Z = dif /\ h.T = FeSub(zz2, dif)
  BY DEF GeDbl
<1> HIDE DEF x, y, Z, t0, h
<1>8. u \in Int /\ xZ \in Int /\ yZ \in Int
  BY <1>2
<1> HIDE DEF xZ, yZ
<1>9. /\ xx \in Int /\ yy \in Int /\ zz \in Int
      /\ Same(xx, xZ * xZ) /\ Same(yy, yZ * yZ) /\ Same(zz, u)
  <2>1. xx \in Int /\ yy \in Int /\ zz \in Int
    BY <1>2, FeTypes, FeInt DEF FeSq, Z
  <2>2. Same(xx, xZ * xZ) /\ Same(yy, yZ * yZ)
    BY <1>2, <1>3, <1>8, FeMulOf DEF FeSq
  <2>3. Same(Z, Z)
    BY SameItself
  <2>4. Same(zz, u)
    BY <1>2, <2>3, FeMulOf DEF FeSq, Z
  <2> QED
    BY <2>1, <2>2, <2>4
<1>10. FeAdd(p.X, p.Y) \in Int /\ Same(FeAdd(p.X, p.Y), xZ + yZ) /\ xZ + yZ \in Int
  <2>1. FeAdd(p.X, p.Y) \in Int
    BY <1>2, FeTypes, FeInt
  <2>2. Same(FeAdd(p.X, p.Y), xZ + yZ)
    BY <1>2, <1>3, <1>8, FeAddOf
  <2>3. xZ + yZ \in Int
    BY <1>8
  <2> QED
    BY <2>1, <2>2, <2>3
<1>11. Same(sum2, (xZ + yZ) * (xZ + yZ)) /\ sum2 \in Int
  BY <1>10, FeMulOf, FeTypes, FeInt DEF FeSq
<1> HIDE DEF xx, yy, sum2, zz
<1>12. xZ * xZ \in Int /\ yZ * yZ \in Int
  BY <1>8
<1>13. /\ Same(all, yZ * yZ + xZ * xZ) /\ Same(dif, yZ * yZ - xZ * xZ)
       /\ all \in Int /\ dif \in Int
  <2>1. Same(all, yZ * yZ + xZ * xZ) /\ Same(dif, yZ * yZ - xZ * xZ)
    BY <1>9, <1>12, FeAddOf, FeSubOf
  <2>2. all \in Int /\ dif \in Int
    BY <1>9, FeTypes, FeInt
  <2> QED
    BY <2>1, <2>2
<1>14. Same(zz2, u + u) /\ zz2 \in Int
  <2>1. Same(zz2, u + u)
    BY <1>8, <1>9, FeAddOf
  <2>2. zz2 \in Int
    BY <1>9, FeTypes, FeInt
  <2> QED
    BY <2>1, <2>2
<1> HIDE DEF all, dif, zz2, u
<1>15. (xZ + yZ) * (xZ + yZ) \in Int /\ yZ * yZ + xZ * xZ \in Int
  <2>1. yZ * yZ + xZ * xZ \in Int
    BY <1>12
  <2>2. (xZ + yZ) * (xZ + yZ) \in Int
    BY <1>10
  <2> QED
    BY <2>1, <2>2
<1>16. Same(h.X, (xZ + yZ) * (xZ + yZ) - (yZ * yZ + xZ * xZ))
  BY <1>7, <1>11, <1>13, <1>15, FeSubOf
<1>17. /\ Same(h.X, u * (x * y + y * x)) /\ Same(h.Y, u * (y * y + x * x))
       /\ Same(dif, u * (y * y - x * x))
  BY <1>2, <1>7, <1>13, <1>16, DoubleIdentity DEF u, xZ, yZ
<1>18. y * y - x * x \in Int /\ 1 + t0 \in Int /\ 1 - t0 \in Int
  BY <1>2, <1>4
<1>19. Same(dif, u * (1 + t0))
  <2>1. Same(u, u)
    BY SameItself
  <2>2. Same(u * (y * y - x * x), u * (1 + t0))
    BY <1>5, <1>8, <1>18, <2>1, SameProduct
  <2> QED
    BY <1>17, <2>2, SameThrough
<1>20. Same(h.T, u * (1 - t0))
  <2>1. u + u \in Int /\ u * (1 + t0) \in Int
    BY <1>8, <1>18
  <2>2. Same(h.T, (u + u) - u * (1 + t0))
    BY <1>7, <1>13, <1>14, <1>19, <2>1, FeSubOf
  <2>3. (u + u) - u * (1 + t0) = u * (1 - t0)
    BY <1>4, <1>8
  <2> QED
    BY <2>2, <2>3
<1>21. NotZero(u)
  BY <1>2, <1>3, ProductNotZero DEF u
<1>22. Completes(h, Plus(q, q))
  BY <1>6, <1>7, <1>8, <1>17, <1>19, <1>20, <1>21, CompletesPlus DEF x, y, t0
<1> QED
  BY <1>6, <1>22 DEF h

-----------------------------------------------------------------------------
(* The group.                                                              *)

LEMMA PointEqual ==
  ASSUME NEW q \in Coordinates, NEW r \in Coordinates, Same(q.x, r.x), Same(q.y, r.y)
  PROVE  q = r
<1>1. q.x = r.x /\ q.y = r.y
  BY FeEqual DEF Coordinates
<1> QED
  BY <1>1 DEF Coordinates

Neutral == Affine(0, 1)

LEMMA NeutralOnCurve == Neutral \in Curve
<1>1. Neutral.x = 0 /\ Neutral.y = 1 /\ Neutral \in [x : 0..P-1, y : 0..P-1]
  BY MultNumbers DEF Neutral, Affine
<1>2. 1 % P = 1 /\ 0 % P = 0
  BY MultNumbers
<1>3. FeSq(1) = 1 /\ FeSq(0) = 0
  <2>1. 1 * 1 = 1 /\ 0 * 0 = 0
    OBVIOUS
  <2> QED
    BY <1>2, <2>1 DEF FeSq, FeMul
<1>4. FeMul(0, 1) = 0 /\ FeMul(D, 0) = 0
  <2>1. 0 * 1 = 0 /\ D * 0 = 0
    BY MultNumbers
  <2> QED
    BY <1>2, <2>1 DEF FeMul
<1>5. FeSub(1, 0) = 1 /\ FeAdd(1, 0) = 1
  <2>1. 1 - 0 = 1 /\ 1 + 0 = 1
    OBVIOUS
  <2> QED
    BY <1>2, <2>1 DEF FeSub, FeAdd
<1> QED
  BY <1>1, <1>3, <1>4, <1>5 DEF Curve

LEMMA PlusClosed ==
  ASSUME NEW q \in Curve, NEW r \in Curve
  PROVE  Plus(q, r) \in Curve
  BY GroupAssumption

LEMMA PlusAssociative ==
  ASSUME NEW q \in Curve, NEW r \in Curve, NEW s \in Curve
  PROVE  Plus(Plus(q, r), s) = Plus(q, Plus(r, s))
  BY GroupAssumption

LEMMA PlusCommutes ==
  ASSUME NEW q \in Curve, NEW r \in Curve
  PROVE  Plus(q, r) = Plus(r, q)
<1>1. q.x \in Int /\ q.y \in Int /\ r.x \in Int /\ r.y \in Int
  BY CurveIs, FeInt DEF Coordinates
<1>2. \A f, g \in Int : FeMul(f, g) = FeMul(g, f)
  <2> SUFFICES ASSUME NEW f \in Int, NEW g \in Int PROVE FeMul(f, g) = FeMul(g, f)
    OBVIOUS
  <2>1. f * g = g * f
    OBVIOUS
  <2> QED
    BY <2>1 DEF FeMul
<1>3. \A f, g \in Int : FeAdd(f, g) = FeAdd(g, f)
  <2> SUFFICES ASSUME NEW f \in Int, NEW g \in Int PROVE FeAdd(f, g) = FeAdd(g, f)
    OBVIOUS
  <2>1. f + g = g + f
    OBVIOUS
  <2> QED
    BY <2>1 DEF FeAdd
<1>4. /\ FeMul(q.x, r.y) = FeMul(r.y, q.x) /\ FeMul(q.y, r.x) = FeMul(r.x, q.y)
      /\ FeMul(q.x, r.x) = FeMul(r.x, q.x) /\ FeMul(q.y, r.y) = FeMul(r.y, q.y)
      /\ FeMul(q.x, r.y) \in Int /\ FeMul(q.y, r.x) \in Int
  BY <1>1, <1>2, FeTypes, FeInt
<1>5. FeAdd(FeMul(q.x, r.y), FeMul(q.y, r.x)) = FeAdd(FeMul(r.x, q.y), FeMul(r.y, q.x))
  BY <1>3, <1>4
<1>6. Cross(q, r) = Cross(r, q)
  BY <1>4 DEF Cross
<1> QED
  BY <1>4, <1>5, <1>6 DEF Plus

LEMMA PlusNeutral ==
  ASSUME NEW q \in Curve
  PROVE  Plus(q, Neutral) = q
<1> DEFINE s == Plus(q, Neutral)
<1>1. q \in Coordinates /\ q.x \in Int /\ q.y \in Int /\ D \in Int
  BY CurveIs, FeInt, MultNumbers DEF Coordinates
<1>2. Neutral.x = 0 /\ Neutral.y = 1
  BY DEF Neutral, Affine
<1>3. CrossOf(q, Neutral) = 0
  BY <1>1, <1>2 DEF CrossOf
<1>4. /\ s \in Coordinates /\ Same(s.x * (1 + CrossOf(q, Neutral)), q.x * Neutral.y + q.y * Neutral.x)
      /\ Same(s.y * (1 - CrossOf(q, Neutral)), q.y * Neutral.y + q.x * Neutral.x)
  BY NeutralOnCurve, PlusMeans
<1> HIDE DEF s
<1>5. s.x \in Int /\ s.y \in Int
  BY <1>4, FeInt DEF Coordinates
<1>6. /\ s.x * (1 + 0) = s.x /\ s.y * (1 - 0) = s.y
      /\ q.x * 1 + q.y * 0 = q.x /\ q.y * 1 + q.x * 0 = q.y
  BY <1>1, <1>5
<1>7. Same(s.x, q.x) /\ Same(s.y, q.y)
  BY <1>2, <1>3, <1>4, <1>6
<1> QED
  BY <1>1, <1>4, <1>7, PointEqual DEF s

LEMMA PlusMinus ==
  ASSUME NEW q \in Curve
  PROVE  Plus(q, Minus(q)) = Neutral
<1> DEFINE s == Plus(q, Minus(q))
           x == q.x
           y == q.y
           n == Minus(q).x
           t0 == CrossOf(q, Minus(q))
<1>1. q \in Coordinates /\ x \in Int /\ y \in Int /\ D \in Int
  BY CurveIs, FeInt, MultNumbers DEF Coordinates
<1>2. Minus(q) \in Curve /\ Minus(q).y = y /\ Same(n, -x)
  BY MinusIs
<1>3. n \in Int
  BY <1>2, CurveIs, FeInt DEF Coordinates
<1>4. /\ s \in Coordinates /\ t0 \in Int /\ NotZero(1 + t0) /\ NotZero(1 - t0)
      /\ Same(s.x * (1 + t0), x * y + y * n) /\ Same(s.y * (1 - t0), y * y + x * n)
  BY <1>2, PlusMeans
<1>5. t0 = D * ((x * n) * (y * y))
  BY <1>2 DEF CrossOf
<1>6. Same(y * y - x * x, 1 + D * ((x * x) * (y * y)))
  BY CurveIs
<1> HIDE DEF s, x, y, n, t0
<1>7. s.x \in Int /\ s.y \in Int /\ -x \in Int /\ 1 + t0 \in Int /\ 1 - t0 \in Int
  <2>1. s.x \in Int /\ s.y \in Int
    BY <1>4, FeInt DEF Coordinates
  <2>2. -x \in Int /\ 1 + t0 \in Int /\ 1 - t0 \in Int
    BY <1>1, <1>4
  <2> QED
    BY <2>1, <2>2
<1>8. \A m \in Int : Same(m * n, m * (-x))
  BY <1>2, <1>3, <1>7, SameProduct, SameItself
<1>9. \A m \in Int : m * n \in Int /\ m * (-x) \in Int
  BY <1>3, <1>7
<1>10. Same(s.x, 0)
  <2>1. Same(x * y + y * n, x * y + y * (-x))
    <3>1. x * y \in Int /\ Same(x * y, x * y)
      BY <1>1, SameItself
    <3>2. y * n \in Int /\ y * (-x) \in Int /\ Same(y * n, y * (-x))
      BY <1>1, <1>8, <1>9
    <3> QED
      BY <3>1, <3>2, SameSum
  <2>2. x * y + y * (-x) = (1 + t0) * 0
    BY <1>1, <1>7
  <2>3. s.x * (1 + t0) = (1 + t0) * s.x
    BY <1>7
  <2>4. Same((1 + t0) * s.x, (1 + t0) * 0)
    BY <1>4, <2>1, <2>2, <2>3, SameThrough
  <2>5. 0 \in Int
    OBVIOUS
  <2> HIDE DEF s
  <2> QED
    BY <1>4, <1>7, <2>4, <2>5, Cancelled
<1>11. Same(s.y, 1)
  <2>1. Same(y * y + x * n, y * y + x * (-x))
    <3>1. y * y \in Int /\ Same(y * y, y * y)
      BY <1>1, SameItself
    <3>2. x * n \in Int /\ x * (-x) \in Int /\ Same(x * n, x * (-x))
      BY <1>1, <1>8, <1>9
    <3> QED
      BY <3>1, <3>2, SameSum
  <2>2. y * y + x * (-x) = y * y - x * x
    BY <1>1
  <2> DEFINE k == D * (x * (y * y))
  <2>3. k \in Int
    <3>1. x * (y * y) \in Int
      BY <1>1
    <3> QED
      BY <1>1, <3>1
  <2>4. t0 = k * n
    BY <1>1, <1>3, <1>5
  <2>5. k * (-x) = -(D * ((x * x) * (y * y)))
    BY <1>1
  <2> DEFINE g == D * ((x * x) * (y * y))
  <2>6. g \in Int
    <3>1. (x * x) * (y * y) \in Int
      <4>1. x * x \in Int /\ y * y \in Int
        BY <1>1
      <4> QED
        BY <4>1
    <3> QED
      BY <1>1, <3>1
  <2> HIDE DEF k
  <2>7. Same(t0, k * (-x)) /\ k * (-x) \in Int
    BY <1>8, <1>9, <2>3, <2>4
  <2>8. Same(1 - t0, 1 - k * (-x))
    <3>1. Same(1, 1) /\ 1 \in Int
      BY SameItself
    <3> QED
      BY <1>4, <2>7, <3>1, SameDifference
  <2>9. k * (-x) = -g /\ Same(y * y - x * x, 1 + g)
    BY <1>6, <2>5
  <2> HIDE DEF g
  <2>10. 1 - (-g) = 1 + g
    BY <2>6
  <2>11. Same(y * y - x * x, 1 - t0)
    BY <2>8, <2>9, <2>10, SameTurned, SameThrough
  <2>12. Same(s.y * (1 - t0), 1 - t0)
    BY <1>4, <2>1, <2>2, <2>11, SameThrough
  <2>13. s.y * (1 - t0) = (1 - t0) * s.y /\ (1 - t0) * 1 = 1 - t0
    BY <1>7
  <2>14. Same((1 - t0) * s.y, (1 - t0) * 1)
    BY <2>12, <2>13
  <2>15. 1 \in Int
    OBVIOUS
  <2> QED
    BY <1>4, <1>7, <2>14, <2>15, Cancelled
<1>12. Neutral.x = 0 /\ Neutral.y = 1 /\ Neutral \in Coordinates
  BY NeutralOnCurve, CurveIs DEF Neutral, Affine
<1> QED
  BY <1>4, <1>10, <1>11, <1>12, PointEqual DEF s
-----------------------------------------------------------------------------
(* The multiples of the base point.                                        *)

B == Affine(BaseX, BaseY)

(* N times q is the neutral element.                                       *)
HasOrder(q, N) == q \in Curve /\ N \in Nat \ {0} /\ MultiplesOf(q, N)[N] = Neutral

(* n q, for any integer. *)
TimesOf(q, N, n) == MultiplesOf(q, N)[n % N]

LEMMA MultiplesOnCurve ==
  ASSUME NEW q \in Curve, NEW N \in Nat
  PROVE  \A k \in 0..N : MultiplesOf(q, N)[k] \in Curve
<1> DEFINE M == MultiplesOf(q, N)
           T == {k \in 0..N : M[k] \in Curve}
<1>0. q \in [x : Fe, y : Fe]
  BY CurveIs DEF Coordinates
<1>1. M[0] = Neutral /\ \A k \in 1..N : M[k] = Plus(M[k - 1], q)
  BY <1>0, MultiplesAre, Zenon DEF Neutral
<1> HIDE DEF M
<1>2. 0 \in T
  BY <1>1, NeutralOnCurve
<1>3. ASSUME NEW k \in 0..N-1, k \in T PROVE k + 1 \in T
  <2>1. k + 1 \in 1..N /\ (k + 1) - 1 = k
    OBVIOUS
  <2>2. M[k + 1] = Plus(M[k], q)
    BY <1>1, <2>1
  <2>3. M[k] \in Curve
    BY <1>3
  <2>4. M[k + 1] \in Curve
    BY <2>2, <2>3, PlusClosed
  <2> QED
    BY <2>1, <2>4
<1> HIDE DEF T
<1>4. 0..N \subseteq T
  BY <1>2, <1>3, InductionUpTo
<1> QED
  BY <1>4 DEF T, M

LEMMA TimesOnCurve ==
  ASSUME NEW q, NEW N, HasOrder(q, N), NEW n \in Int
  PROVE  TimesOf(q, N, n) \in Curve
<1>1. q \in Curve /\ N \in Nat \ {0} /\ N \in Nat
  BY DEF HasOrder
<1>2. n % N \in 0..N
  BY <1>1
<1> QED
  BY <1>1, <1>2, MultiplesOnCurve, Zenon DEF TimesOf

LEMMA TimesSame ==
  ASSUME NEW q, NEW N, NEW n, NEW m, n % N = m % N
  PROVE  TimesOf(q, N, n) = TimesOf(q, N, m)
  BY DEF TimesOf

LEMMA TimesZero ==
  ASSUME NEW q, NEW N, HasOrder(q, N)
  PROVE  TimesOf(q, N, 0) = Neutral
<1>1. q \in [x : Fe, y : Fe] /\ N \in Nat \ {0} /\ N \in Nat
  BY CurveIs DEF HasOrder, Coordinates
<1>2. 0 % N = 0
  BY <1>1
<1>3. MultiplesOf(q, N)[0] = Neutral
  BY <1>1, MultiplesAre, Zenon DEF Neutral
<1> QED
  BY <1>2, <1>3 DEF TimesOf

LEMMA TimesNext ==
  ASSUME NEW q, NEW N, HasOrder(q, N), NEW n \in Int
  PROVE  TimesOf(q, N, n + 1) = Plus(TimesOf(q, N, n), q)
<1> DEFINE r == n % N
           M == MultiplesOf(q, N)
<1>0. q \in [x : Fe, y : Fe] /\ N \in Nat \ {0} /\ N \in Nat /\ M[N] = Neutral
  BY CurveIs DEF HasOrder, Coordinates
<1>1. r \in 0..N-1
  BY <1>0, ModSplits
<1>2. (r + 1) % N = (n + 1) % N
  <2>1. \A y \in Int : ((n % N) + y) % N = (n + y) % N
    BY <1>0, ModSum
  <2>2. 1 \in Int
    OBVIOUS
  <2> QED
    BY <2>1, <2>2
<1>3. \A k \in 1..N : M[k] = Plus(M[k - 1], q)
  BY <1>0, MultiplesAre, Zenon
<1>4. M[0] = Neutral
  BY <1>0, MultiplesAre, Zenon DEF Neutral
<1> HIDE DEF r, M
<1>5. r + 1 \in 1..N /\ (r + 1) - 1 = r
  BY <1>0, <1>1
<1>6. M[r + 1] = Plus(M[r], q)
  BY <1>3, <1>5
<1>7. M[(r + 1) % N] = M[r + 1]
  <2>1. CASE r + 1 = N
    <3>1. N % N = 0
      BY <1>0
    <3> QED
      BY <1>0, <1>4, <2>1, <3>1
  <2>2. CASE r + 1 # N
    <3>1. r + 1 \in 0..N-1
      BY <1>0, <1>1, <2>2
    <3>2. (N * 0 + (r + 1)) % N = r + 1
      BY <1>0, <3>1, ModUnique
    <3>3. N * 0 + (r + 1) = r + 1
      BY <1>0, <1>1
    <3> QED
      BY <3>2, <3>3
  <2> QED
    BY <2>1, <2>2
<1> QED
  BY <1>2, <1>6, <1>7 DEF TimesOf, r, M

LEMMA TimesSum ==
  ASSUME NEW q, NEW N, HasOrder(q, N), NEW n \in Int, NEW m \in Int
  PROVE  TimesOf(q, N, n + m) = Plus(TimesOf(q, N, n), TimesOf(q, N, m))
<1> DEFINE t(k) == TimesOf(q, N, k)
           T == {k \in Nat : t(n + k) = Plus(t(n), t(k))}
<1>0. \A k \in Int : t(k) \in Curve /\ t(k + 1) = Plus(t(k), q)
  BY TimesOnCurve, TimesNext
<1>1. t(n) \in Curve /\ q \in Curve /\ t(0) = Neutral
  BY TimesOnCurve, TimesZero DEF HasOrder
<1> HIDE DEF t
<1>2. 0 \in T
  <2>1. n + 0 = n
    OBVIOUS
  <2> QED
    BY <1>1, <2>1, PlusNeutral
<1>3. ASSUME NEW k \in Nat, k \in T PROVE k + 1 \in T
  <2>1. n + k \in Int /\ k \in Int /\ n + (k + 1) = (n + k) + 1
    OBVIOUS
  <2>2. t(n + (k + 1)) = Plus(t(n + k), q)
    BY <1>0, <2>1
  <2>3. t(n + k) = Plus(t(n), t(k))
    BY <1>3
  <2>4. t(k) \in Curve
    BY <1>0, <2>1
  <2>5. Plus(Plus(t(n), t(k)), q) = Plus(t(n), Plus(t(k), q))
    BY <1>1, <2>4, PlusAssociative
  <2>6. Plus(t(k), q) = t(k + 1)
    BY <1>0, <2>1
  <2>7. t(n + (k + 1)) = Plus(t(n), t(k + 1))
    BY <2>2, <2>3, <2>5, <2>6
  <2> QED
    BY <2>7
<1> HIDE DEF T
<1>4. Nat \subseteq T
  BY <1>2, <1>3, Induction
<1>5. m % N \in Nat /\ m % N \in Int /\ N \in Nat \ {0}
  BY DEF HasOrder
<1>6. t(n + (m % N)) = Plus(t(n), t(m % N))
  BY <1>4, <1>5 DEF T
<1>7. t(m % N) = t(m) /\ t(n + (m % N)) = t(n + m)
  <2>0. \A y \in Int : ((m % N) + y) % N = (m + y) % N
    BY <1>5, ModSum
  <2>1. ((m % N) + n) % N = (m + n) % N /\ ((m % N) + 0) % N = (m + 0) % N
    BY <2>0
  <2>2. (m % N) + n = n + (m % N) /\ m + n = n + m /\ (m % N) + 0 = m % N /\ m + 0 = m
    BY <1>5
  <2> QED
    BY <2>1, <2>2 DEF TimesOf, t
<1> QED
  BY <1>6, <1>7 DEF t

LEMMA TimesMinus ==
  ASSUME NEW q, NEW N, HasOrder(q, N), NEW n \in Int
  PROVE  TimesOf(q, N, -n) = Minus(TimesOf(q, N, n))
<1> DEFINE s == TimesOf(q, N, n)
           m == Minus(s)
           r == TimesOf(q, N, -n)
<1>1. s \in Curve
  BY TimesOnCurve
<1>2. -n \in Int
  OBVIOUS
<1>3. r \in Curve
  BY <1>2, TimesOnCurve
<1>4. m \in Curve
  BY <1>1, MinusIs
<1>5. Plus(s, r) = Neutral
  <2>1. n + (-n) = 0
    OBVIOUS
  <2> QED
    BY <1>2, <2>1, TimesSum, TimesZero
<1>6. Plus(s, m) = Neutral
  BY <1>1, PlusMinus
<1> HIDE DEF s, m, r
<1>7. Plus(Plus(m, s), r) = Plus(m, Plus(s, r))
  BY <1>1, <1>3, <1>4, PlusAssociative
<1>8. Plus(m, s) = Neutral
  BY <1>1, <1>4, <1>6, PlusCommutes
<1>9. Plus(m, Plus(s, r)) = m
  BY <1>4, <1>5, PlusNeutral
<1>10. Plus(Neutral, r) = r
  BY <1>3, NeutralOnCurve, PlusCommutes, PlusNeutral
<1>11. r = m
  BY <1>7, <1>8, <1>9, <1>10
<1> QED
  BY <1>11 DEF s, m, r

(* The base point has the order Order. *)
LEMMA BaseHasOrder == HasOrder(B, Order) /\ \A n : TimesBase(n) = TimesOf(B, Order, n)
<1>1. B \in Curve /\ Multiple[Order] = Multiple[0] /\ Multiple[0] = Neutral
  BY CurveAssumption, MultipleIs DEF B, Neutral
<1>2. Order \in Nat \ {0}
  BY MultNumbers
<1>3. \A n : TimesBase(n) = TimesOf(B, Order, n)
  BY DEF TimesBase, TimesOf, Multiple, B
<1> QED
  BY <1>1, <1>2, <1>3 DEF HasOrder, Multiple, B

LEMMA TimesBaseOnCurve ==
  ASSUME NEW n \in Int
  PROVE  TimesBase(n) \in Curve
  BY BaseHasOrder, TimesOnCurve

LEMMA TimesBaseZero == TimesBase(0) = Neutral
  BY BaseHasOrder, TimesZero

LEMMA TimesBaseSum ==
  ASSUME NEW n \in Int, NEW m \in Int
  PROVE  TimesBase(n + m) = Plus(TimesBase(n), TimesBase(m))
  BY BaseHasOrder, TimesSum

LEMMA TimesBaseMinus ==
  ASSUME NEW n \in Int
  PROVE  TimesBase(-n) = Minus(TimesBase(n))
  BY BaseHasOrder, TimesMinus

(* The entry of the negated point is the one that select negates. *)
LEMMA PrecompMinus ==
  ASSUME NEW r \in Curve
  PROVE  Precomp(Minus(r)) = [yplusx |-> Precomp(r).yminusx, yminusx |-> Precomp(r).yplusx,
                              xy2d |-> FeNeg(Precomp(r).xy2d)]
<1> DEFINE m == Minus(r)
           x == r.x
           y == r.y
           a == Precomp(m)
           b == Precomp(r)
<1>1. m \in Curve /\ m.y = y /\ Same(m.x, -x)
  BY MinusIs
<1>2. x \in Int /\ y \in Int /\ D \in Int
  BY CurveIs, FeInt, MultNumbers DEF Coordinates
<1>3. m.x \in Int
  BY <1>1, CurveIs, FeInt DEF Coordinates
<1>4. /\ a \in [yplusx : Fe, yminusx : Fe, xy2d : Fe]
      /\ Same(a.yplusx, m.y + m.x) /\ Same(a.yminusx, m.y - m.x)
      /\ Same(a.xy2d, (2 * D) * (m.x * m.y))
  BY <1>1, PrecompIs
<1>5. /\ b \in [yplusx : Fe, yminusx : Fe, xy2d : Fe]
      /\ Same(b.yplusx, y + x) /\ Same(b.yminusx, y - x)
      /\ Same(b.xy2d, (2 * D) * (x * y))
  BY PrecompIs
<1> HIDE DEF m, x, y, a, b
<1>6. -x \in Int /\ Same(y, y)
  BY <1>2, SameItself
<1>7. Same(y + m.x, y + (-x)) /\ Same(y - m.x, y - (-x))
  BY <1>1, <1>2, <1>3, <1>6, SameSum, SameDifference
<1>8. y + (-x) = y - x /\ y - (-x) = y + x
  BY <1>2
<1>9. a.yplusx = b.yminusx
  <2>1. Same(a.yplusx, b.yminusx)
    BY <1>1, <1>4, <1>5, <1>7, <1>8, SameTurned, SameThrough
  <2> QED
    BY <1>4, <1>5, <2>1, FeEqual
<1>10. a.yminusx = b.yplusx
  <2>1. Same(a.yminusx, b.yplusx)
    BY <1>1, <1>4, <1>5, <1>7, <1>8, SameTurned, SameThrough
  <2> QED
    BY <1>4, <1>5, <2>1, FeEqual
<1> DEFINE k == 2 * D
           f == m.x * y
           g == (-x) * y
<1>11. k \in Int /\ f \in Int /\ g \in Int
  BY <1>2, <1>3, <1>6
<1>12. Same(f, g)
  BY <1>1, <1>2, <1>3, <1>6, SameProduct
<1>13. k * g = -(k * (x * y))
  BY <1>2
<1>14. k * (x * y) \in Int
  <2>1. x * y \in Int
    BY <1>2
  <2> HIDE DEF k
  <2> QED
    BY <1>11, <2>1
<1>15. Same(a.xy2d, k * f)
  BY <1>1, <1>4
<1>16. Same(b.xy2d, k * (x * y))
  BY <1>5
<1> HIDE DEF k, f, g
<1>17. Same(k * f, k * g)
  BY <1>11, <1>12, SameProduct, SameItself
<1>18. b.xy2d \in Int
  BY <1>5, FeInt
<1>19. Same(FeNeg(b.xy2d), -(k * (x * y))) /\ FeNeg(b.xy2d) \in Fe
  BY <1>14, <1>16, <1>18, FeNegOf, FeTypes
<1>20. Same(a.xy2d, FeNeg(b.xy2d))
  BY <1>13, <1>15, <1>17, <1>19, SameTurned, SameThrough
<1>21. a.xy2d = FeNeg(b.xy2d)
  BY <1>4, <1>19, <1>20, FeEqual
<1>22. a = [yplusx |-> a.yplusx, yminusx |-> a.yminusx, xy2d |-> a.xy2d]
  BY <1>4
<1> QED
  BY <1>9, <1>10, <1>21, <1>22 DEF a, b, m

LEMMA PrecompNeutral == Precomp(Neutral) = [yplusx |-> 1, yminusx |-> 1, xy2d |-> 0]
<1>1. Neutral.x = 0 /\ Neutral.y = 1
  BY DEF Neutral, Affine
<1>2. 1 % P = 1 /\ 0 % P = 0
  BY MultNumbers
<1>3. 1 + 0 = 1 /\ 1 - 0 = 1 /\ 0 * 1 = 0
  OBVIOUS
<1>4. FeAdd(1, 0) = 1 /\ FeSub(1, 0) = 1 /\ FeMul(0, 1) = 0
  BY <1>2, <1>3 DEF FeAdd, FeSub, FeMul
<1>5. FeMul(FeAdd(D, D), 0) = 0
  <2>1. FeAdd(D, D) \in Int
    BY MultNumbers, FeTypes, FeInt
  <2>2. FeAdd(D, D) * 0 = 0
    BY <2>1
  <2> QED
    BY <1>2, <2>2 DEF FeMul
<1> QED
  BY <1>1, <1>4, <1>5 DEF Precomp

(* select finds the entry of the multiple that the digit stands for. *)
LEMMA SelectIs ==
  ASSUME NEW pos \in 0..Bytes-1, NEW b \in -8..8
  PROVE  Select(pos, b) = Precomp(TimesBase(b * Power16[2 * pos]))
<1> DEFINE W == Power16[2 * pos]
           babs == IF b < 0 THEN -b ELSE b
           none == [yplusx |-> 1, yminusx |-> 1, xy2d |-> 0]
           t == IF babs \in 1..8 THEN Base[pos][babs - 1] ELSE none
<1>1. W \in Int
  <2>1. 2 * pos \in 0..Digits+1
    BY MultNumbers
  <2> QED
    BY <2>1, Power16Is
<1>2. Select(pos, b) = IF b < 0 THEN [yplusx |-> t.yminusx, yminusx |-> t.yplusx,
                                      xy2d |-> FeNeg(t.xy2d)]
                                ELSE t
  BY DEF Select
<1>3. ASSUME NEW k \in 1..8 PROVE Base[pos][k - 1] = Precomp(TimesBase(k * W))
  <2>1. k - 1 \in 0..7 /\ (k - 1) + 1 = k
    OBVIOUS
  <2> QED
    BY <2>1 DEF Base
<1> HIDE DEF W
<1>4. CASE b = 0
  <2>1. babs = 0 /\ ~ (babs \in 1..8) /\ ~ (b < 0)
    BY <1>4
  <2>2. b * W = 0
    BY <1>1, <1>4
  <2>3. Precomp(TimesBase(b * W)) = none
    BY <2>2, TimesBaseZero, PrecompNeutral
  <2>4. Select(pos, b) = none
    BY <1>2, <2>1
  <2> QED
    BY <2>3, <2>4 DEF W
<1>5. CASE b > 0
  <2>1. babs = b /\ b \in 1..8 /\ ~ (b < 0)
    BY <1>5
  <2>2. t = Base[pos][b - 1]
    BY <2>1
  <2> QED
    BY <1>2, <1>3, <2>1, <2>2 DEF W
<1>6. CASE b < 0
  <2>1. babs = -b /\ -b \in 1..8
    BY <1>6
  <2>2. t = Precomp(TimesBase((-b) * W))
    BY <1>3, <2>1
  <2>3. (-b) * W \in Int /\ -((-b) * W) = b * W
    BY <1>1
  <2>4. TimesBase((-b) * W) \in Curve /\ TimesBase(b * W) = Minus(TimesBase((-b) * W))
    BY <2>3, TimesBaseOnCurve, TimesBaseMinus
  <2> HIDE DEF t
  <2>5. Select(pos, b) = [yplusx |-> t.yminusx, yminusx |-> t.yplusx, xy2d |-> FeNeg(t.xy2d)]
    BY <1>2, <1>6
  <2> QED
    BY <2>2, <2>4, <2>5, PrecompMinus DEF W
<1> QED
  BY <1>4, <1>5, <1>6
-----------------------------------------------------------------------------
(* The point.                                                              *)

(* The additions of the odd digits leave out a factor 16, which the four   *)
(* doublings make good.                                                    *)
OddSum(n) ==
  \E u \in Int : SumOf(digit, Odd(n)) = 16 * u /\ Represents(point, TimesBase(u))

PointInv ==
  /\ step = "recode" => point = P3Zero
  /\ step = "odd"    => (index % 2) = 1 /\ OddSum(index)
  /\ step = "double" => OddSum(Digits)
  /\ step = "even"   =>
       /\ (index % 2) = 0
       /\ Represents(point, TimesBase(SumOf(digit, Odd(Digits) \cup Even(index))))
  /\ step = "done"   => Represents(point, TimesBase(ValueOf(scalar)))

LEMMA PlusPoint ==
  ASSUME NEW n \in Int
  PROVE  TimesBase(n) \in Curve /\ TimesBase(n) \in Coordinates
  BY TimesBaseOnCurve, CurveIs

(* One addition of a digit. *)
LEMMA AddDigitIs ==
  ASSUME MultInv, step \in {"odd", "even"}, NEW u \in Int, Represents(point, TimesBase(u))
  PROVE  Represents(ToP3(GeMAdd(point, Select(index \div 2, digit[index]))),
                    TimesBase(u + digit[index] * Power16[2 * (index \div 2)]))
<1> DEFINE b == digit[index]
           v == b * Power16[2 * (index \div 2)]
           h == GeMAdd(point, Precomp(TimesBase(v)))
<1>1. (index \div 2) \in 0..Bytes-1 /\ b \in -8..8
  BY AddDigitType
<1>2. Select(index \div 2, b) = Precomp(TimesBase(v))
  BY <1>1, SelectIs
<1>3. v \in Int
  <2>1. 2 * (index \div 2) \in 0..Digits+1
    BY <1>1, MultNumbers
  <2> HIDE DEF b
  <2>2. b \in Int
    BY <1>1
  <2>3. \A n \in 0..Digits+1 : Power16[n] \in Int
    BY Power16Is
  <2>4. Power16[2 * (index \div 2)] \in Int
    BY <2>1, <2>3, Zenon
  <2> QED
    BY <2>2, <2>4
<1>4. TimesBase(u) \in Curve /\ TimesBase(v) \in Curve
  BY <1>3, TimesBaseOnCurve
<1>5. point \in Point3
  BY P3Is DEF MultInv, MultTypeOK, Point3
<1>6. h \in Point3 /\ Completes(h, Plus(TimesBase(u), TimesBase(v)))
  BY <1>4, <1>5, GeMAddPlus
<1>7. Plus(TimesBase(u), TimesBase(v)) = TimesBase(u + v) /\ TimesBase(u + v) \in Coordinates
  <2>1. u + v \in Int
    BY <1>3
  <2> QED
    BY <1>3, <2>1, TimesBaseSum, PlusPoint
<1>8. Represents(ToP3(h), TimesBase(u + v))
  BY <1>6, <1>7, ToP3Represents
<1> QED
  BY <1>2, <1>8

(* One doubling. *)
LEMMA DoubleIs ==
  ASSUME NEW p \in Point2, NEW u \in Int, StandsFor(p, TimesBase(u))
  PROVE  /\ GeDbl(p) \in Point3 /\ Completes(GeDbl(p), TimesBase(2 * u))
         /\ ToP2(GeDbl(p)) \in Point2 /\ StandsFor(ToP2(GeDbl(p)), TimesBase(2 * u))
<1>1. TimesBase(u) \in Curve
  BY TimesBaseOnCurve
<1>2. u + u = 2 * u /\ 2 * u \in Int
  OBVIOUS
<1>3. Plus(TimesBase(u), TimesBase(u)) = TimesBase(2 * u) /\ TimesBase(2 * u) \in Coordinates
  BY <1>2, TimesBaseSum, PlusPoint
<1>4. GeDbl(p) \in Point3 /\ Completes(GeDbl(p), TimesBase(2 * u))
  BY <1>1, <1>3, GeDblPlus
<1>5. StandsFor(ToP2(GeDbl(p)), TimesBase(2 * u))
  BY <1>3, <1>4, ToP3Represents
<1>6. ToP2(GeDbl(p)) \in Point2
  BY <1>4, ToP3Type DEF Point2, Point3
<1> QED
  BY <1>4, <1>5, <1>6

LEMMA ZeroRepresents == Represents(P3Zero, TimesBase(0))
<1>1. TimesBase(0) = Neutral /\ Neutral.x = 0 /\ Neutral.y = 1
  BY TimesBaseZero DEF Neutral, Affine
<1>2. 1 % P = 1 /\ 0 % P = 0
  BY MultNumbers
<1>3. 0 * 1 = 0 /\ 1 * 1 = 1 /\ 1 * 0 = 0
  OBVIOUS
<1>4. FeMul(0, 1) = 0 /\ FeMul(1, 1) = 1 /\ FeMul(1, 0) = 0
  BY <1>2, <1>3 DEF FeMul
<1> QED
  BY <1>1, <1>4 DEF Represents, StandsFor, P3Zero

(* The sets of digits added. *)
LEMMA OddGrows ==
  ASSUME NEW n \in 0..Digits-1, (n % 2) = 1
  PROVE  /\ Odd(n + 2) = Odd(n) \cup {n} /\ n \notin Odd(n)
         /\ n + 2 >= Digits => Odd(n + 2) = Odd(Digits)
<1>1. n \in Nat /\ Digits \in Nat /\ Digits = 2 * Bytes /\ Bytes \in Nat
  BY MultNumbers
<1>2. Odd(n + 2) = Odd(n) \cup {n} /\ n \notin Odd(n)
  BY <1>1 DEF Odd
<1>3. ASSUME n + 2 >= Digits PROVE Odd(n + 2) = Odd(Digits)
  <2>1. n + 1 = Digits
    BY <1>1, <1>3
  <2>2. (Digits % 2) = 0
    BY <1>1
  <2> QED
    BY <1>1, <2>1, <2>2 DEF Odd
<1> QED
  BY <1>2, <1>3

LEMMA EvenGrows ==
  ASSUME NEW n \in 0..Digits-1, (n % 2) = 0
  PROVE  /\ Odd(Digits) \cup Even(n + 2) = (Odd(Digits) \cup Even(n)) \cup {n}
         /\ n \notin Odd(Digits) \cup Even(n)
         /\ n + 2 >= Digits => Odd(Digits) \cup Even(n + 2) = 0..Digits-1
<1>1. n \in Nat /\ Digits \in Nat /\ Digits = 2 * Bytes /\ Bytes \in Nat
  BY MultNumbers
<1>2. Even(n + 2) = Even(n) \cup {n} /\ n \notin Even(n) /\ n \notin Odd(Digits)
  BY <1>1 DEF Even, Odd
<1>3. ASSUME n + 2 >= Digits PROVE Odd(Digits) \cup Even(n + 2) = 0..Digits-1
  <2>1. n + 2 = Digits
    BY <1>1, <1>3
  <2>2. \A k \in 0..Digits-1 : (k % 2) = 0 \/ (k % 2) = 1
    BY <1>1
  <2> QED
    BY <2>1, <2>2 DEF Odd, Even
<1> QED
  BY <1>2, <1>3

LEMMA PointStart == MultInit => PointInv
  BY DEF MultInit, PointInv

LEMMA PointRecode ==
  ASSUME MultInv, PointInv, RecodeDigit \/ RecodeTop
  PROVE  PointInv'
<1>1. CASE RecodeDigit
  BY <1>1 DEF RecodeDigit, PointInv
<1>2. CASE RecodeTop
  <2>1. /\ point' = point /\ index' = 1 /\ step' = "odd" /\ point = P3Zero
    BY <1>2 DEF RecodeTop, PointInv
  <2>2. MultInv'
    BY <1>2, RecodeTopStep
  <2>3. digit' \in DigitFunctions
    <3>1. digit' \in [0..Digits-1 -> -8..15]
      BY <2>2 DEF MultInv, MultTypeOK, DigitsFit
    <3>2. \A k \in -8..15 : k \in Int
      OBVIOUS
    <3> QED
      BY <3>1, <3>2, Zenon DEF DigitFunctions
  <2>4. Odd(1) = {}
    BY DEF Odd
  <2>5. SumOf(digit', Odd(1)) = 0
    BY <2>3, <2>4, SumOfNothing
  <2>6. 16 * 0 = 0 /\ (1 % 2) = 1 /\ 0 \in Int
    OBVIOUS
  <2>7. Represents(point', TimesBase(0))
    BY <2>1, ZeroRepresents
  <2>8. OddSum(index)'
    BY <2>1, <2>5, <2>6, <2>7 DEF OddSum
  <2> QED
    BY <2>1, <2>6, <2>8 DEF PointInv
<1> QED
  BY <1>1, <1>2

LEMMA PointOdd ==
  ASSUME MultInv, PointInv, AddOdd
  PROVE  PointInv'
<1> DEFINE i == index
           W == Power16[i - 1]
           b == digit[i]
<1>1. /\ step = "odd" /\ index' = i + 2 /\ digit' = digit
      /\ step' = (IF i + 2 < Digits THEN "odd" ELSE "double")
      /\ point' = ToP3(GeMAdd(point, Select(i \div 2, b)))
  BY DEF AddOdd, AddDigit
<1>2. i \in 0..Digits-1 /\ (i % 2) = 1 /\ b \in -8..8
  BY <1>1, AddDigitType DEF PointInv
<1>3. PICK u \in Int : SumOf(digit, Odd(i)) = 16 * u /\ Represents(point, TimesBase(u))
  BY <1>1 DEF PointInv, OddSum
<1>4. Represents(point', TimesBase(u + b * Power16[2 * (i \div 2)]))
  BY <1>1, <1>3, AddDigitIs
<1>5. digit \in DigitFunctions
  BY DigitsAreInt DEF MultInv
<1> HIDE DEF i, b
<1>6. 2 * (i \div 2) = i - 1 /\ i - 1 \in 0..Digits+1 /\ i \in 1..Digits+1
  BY <1>2, MultNumbers
<1>7. W \in Int /\ Power16[i] = 16 * W
  BY <1>6, Power16Is
<1>8. b * W \in Int /\ b \in Int
  <2>1. b \in Int
    BY <1>2
  <2> HIDE DEF W
  <2> QED
    BY <1>7, <2>1
<1>9. SumOf(digit, Odd(i + 2)) = SumOf(digit, Odd(i)) + b * Power16[i]
  BY <1>2, <1>5, OddGrows, DigitCounted DEF b
<1>10. 16 * u + b * (16 * W) = 16 * (u + b * W) /\ u + b * W \in Int
  <2> HIDE DEF W
  <2>1. b * (16 * W) = 16 * (b * W)
    BY <1>7, <1>8
  <2> DEFINE f == b * W
  <2> HIDE DEF f
  <2>2. 16 * u + 16 * f = 16 * (u + f) /\ u + f \in Int
    BY <1>8 DEF f
  <2> QED
    BY <2>1, <2>2 DEF f
<1>11. SumOf(digit, Odd(i + 2)) = 16 * (u + b * W)
  BY <1>3, <1>7, <1>9, <1>10
<1>12. Represents(point', TimesBase(u + b * W))
  BY <1>4, <1>6
<1>13. \E w \in Int : SumOf(digit', Odd(i + 2)) = 16 * w /\ Represents(point', TimesBase(w))
  BY <1>1, <1>10, <1>11, <1>12
<1>14. CASE i + 2 < Digits
  <2>1. step' = "odd" /\ ((i + 2) % 2) = 1
    BY <1>1, <1>2, <1>14
  <2> QED
    BY <1>1, <1>13, <2>1 DEF PointInv, OddSum
<1>15. CASE ~ (i + 2 < Digits)
  <2>1. step' = "double" /\ i + 2 >= Digits
    BY <1>1, <1>2, <1>15, MultNumbers
  <2>2. Odd(i + 2) = Odd(Digits)
    BY <1>2, <2>1, OddGrows
  <2> QED
    BY <1>13, <2>1, <2>2 DEF PointInv, OddSum
<1> QED
  BY <1>14, <1>15

LEMMA PointDouble ==
  ASSUME MultInv, PointInv, MultiplyBy16
  PROVE  PointInv'
<1> DEFINE p0 == P2(point)
           p1 == ToP2(GeDbl(p0))
           p2 == ToP2(GeDbl(p1))
           p3 == ToP2(GeDbl(p2))
<1>1. /\ step = "double" /\ index' = 0 /\ digit' = digit /\ step' = "even"
      /\ point' = ToP3(GeDbl(p3))
  BY DEF MultiplyBy16
<1>2. PICK u \in Int : SumOf(digit, Odd(Digits)) = 16 * u /\ Represents(point, TimesBase(u))
  BY <1>1 DEF PointInv, OddSum
<1>3. p0 \in Point2 /\ StandsFor(p0, TimesBase(u))
  <2>1. point \in Point3
    BY P3Is DEF MultInv, MultTypeOK, Point3
  <2> QED
    BY <1>2, <2>1 DEF P2, Point2, Point3, Represents, StandsFor
<1> DEFINE v1 == 2 * u
           v2 == 2 * v1
           v3 == 2 * v2
           v4 == 2 * v3
<1>4. v1 \in Int /\ v2 \in Int /\ v3 \in Int /\ v4 \in Int /\ v4 = 16 * u
  OBVIOUS
<1> HIDE DEF p0
<1>5. p1 \in Point2 /\ StandsFor(p1, TimesBase(v1))
  BY <1>3, DoubleIs
<1> HIDE DEF p1, v1
<1>6. p2 \in Point2 /\ StandsFor(p2, TimesBase(v2))
  BY <1>4, <1>5, DoubleIs
<1> HIDE DEF p2, v2
<1>7. p3 \in Point2 /\ StandsFor(p3, TimesBase(v3))
  BY <1>4, <1>6, DoubleIs
<1> HIDE DEF p3, v3
<1>8. GeDbl(p3) \in Point3 /\ Completes(GeDbl(p3), TimesBase(v4))
  BY <1>4, <1>7, DoubleIs
<1> HIDE DEF v4
<1>9. Represents(point', TimesBase(v4))
  BY <1>1, <1>4, <1>8, PlusPoint, ToP3Represents
<1>10. v4 = SumOf(digit, Odd(Digits))
  BY <1>2, <1>4
<1>11. Even(0) = {} /\ (0 % 2) = 0
  BY DEF Even
<1>12. Odd(Digits) \cup Even(0) = Odd(Digits)
  BY <1>11
<1> QED
  BY <1>1, <1>9, <1>10, <1>11, <1>12 DEF PointInv

LEMMA PointEven ==
  ASSUME MultInv, DigitsKeepValue, PointInv, AddEven
  PROVE  PointInv'
<1> DEFINE i == index
           S == Odd(Digits) \cup Even(i)
           U == Odd(Digits) \cup Even(i + 2)
           u == SumOf(digit, S)
           b == digit[i]
<1>1. /\ step = "even" /\ index' = i + 2 /\ digit' = digit /\ scalar' = scalar
      /\ step' = (IF i + 2 < Digits THEN "even" ELSE "done")
      /\ point' = ToP3(GeMAdd(point, Select(i \div 2, b)))
  BY DEF AddEven, AddDigit
<1>2. i \in 0..Digits-1 /\ (i % 2) = 0
  BY <1>1, AddDigitType DEF PointInv
<1>3. digit \in DigitFunctions
  BY DigitsAreInt DEF MultInv
<1>4. u \in Int
  BY <1>3, SumOfInt
<1>5. Represents(point, TimesBase(u))
  BY <1>1 DEF PointInv
<1>6. Represents(point', TimesBase(u + b * Power16[2 * (i \div 2)]))
  BY <1>1, <1>4, <1>5, AddDigitIs
<1> HIDE DEF i, b
<1>7. 2 * (i \div 2) = i
  BY <1>2
<1>8. U = S \cup {i} /\ i \notin S /\ (i + 2 >= Digits => U = 0..Digits-1)
  BY <1>2, EvenGrows
<1> HIDE DEF S, U
<1>9. SumOf(digit, U) = u + b * Power16[i]
  BY <1>2, <1>3, <1>8, DigitCounted DEF b
<1>10. Represents(point', TimesBase(SumOf(digit, U)))
  BY <1>6, <1>7, <1>9
<1>11. CASE i + 2 < Digits
  <2>1. step' = "even" /\ ((i + 2) % 2) = 0
    BY <1>1, <1>2, <1>11
  <2> QED
    BY <1>1, <1>10, <2>1 DEF PointInv, U
<1>12. CASE ~ (i + 2 < Digits)
  <2>1. step' = "done" /\ i + 2 >= Digits
    BY <1>1, <1>2, <1>12, MultNumbers
  <2>2. SumOf(digit, U) = SumOf(digit, 0..Digits-1)
    BY <1>8, <2>1
  <2>3. SumOf(digit, 0..Digits-1) = ValueOf(scalar)
    <3>1. carry = 0 /\ index \in 0..Digits+1
      BY <1>1 DEF MultInv, MultTypeOK, RecodeInv
    <3>2. Power16[index] \in Int /\ SumOf(digit, 0..Digits-1) \in Int
      BY <1>3, <3>1, Power16Is, SumOfInt
    <3>3. SumOf(digit, 0..Digits-1) + 0 * Power16[index] = ValueOf(scalar)
      BY <3>1 DEF DigitsKeepValue
    <3> QED
      BY <3>2, <3>3
  <2> QED
    BY <1>1, <1>10, <2>1, <2>2, <2>3 DEF PointInv
<1> QED
  BY <1>11, <1>12

LEMMA PointStep == MultInv /\ DigitsKeepValue /\ PointInv /\ [MultNext]_multVars => PointInv'
<1>1. PointInv /\ UNCHANGED multVars => PointInv'
  BY DEF PointInv, OddSum, multVars
<1> QED
  BY <1>1, PointRecode, PointOdd, PointDouble, PointEven DEF MultNext

LEMMA PointMeans == DigitsKeepValue /\ PointInv => PartialSum
<1> SUFFICES ASSUME DigitsKeepValue, PointInv PROVE PartialSum
  OBVIOUS
<1>1. ASSUME NEW n, OddSum(n)
      PROVE  Represents(point, TimesBase(SumOf(digit, Odd(n)) \div 16))
  <2>1. PICK u \in Int : SumOf(digit, Odd(n)) = 16 * u /\ Represents(point, TimesBase(u))
    BY <1>1 DEF OddSum
  <2>2. (16 * u) \div 16 = u
    OBVIOUS
  <2> QED
    BY <2>1, <2>2
<1> QED
  BY <1>1 DEF PartialSum, PointInv

(* ge_scalarmult_base computes the scalar times the base point: all along  *)
(* the digits and the carry keep the value of the scalar, and the point is *)
(* the multiple that the digits added so far make up (ge.c:386-433).       *)
THEOREM PartialSumAlways == MultSpec => []PartialSum
<1> DEFINE I == MultInv /\ DigitsKeepValue /\ PointInv
<1>1. MultInit => I
  BY MultStart, ValueStart, PointStart
<1>2. I /\ [MultNext]_multVars => I'
  BY MultInvStep, ValueStep, PointStep
<1>3. I => PartialSum
  BY PointMeans
<1> QED
  BY <1>1, <1>2, <1>3, PTL DEF MultSpec
-----------------------------------------------------------------------------
(* Cached points, and the addition and the subtraction of one.             *)

CachedPoint == [YplusX : Fe, YminusX : Fe, Z : Fe, T2d : Fe]

IsCached(c, r) ==
  /\ NotZero(c.Z) /\ Same(c.YplusX, c.Z * (r.y + r.x)) /\ Same(c.YminusX, c.Z * (r.y - r.x))
  /\ Same(c.T2d, (2 * (c.Z * D)) * (r.x * r.y))

LEMMA ToCachedIs ==
  ASSUME NEW p \in Point3, NEW r \in Curve, Represents(p, r)
  PROVE  ToCached(p) \in CachedPoint /\ IsCached(ToCached(p), r)
<1> DEFINE x == r.x
           y == r.y
           X == p.X
           Y == p.Y
           Z == p.Z
           T == p.T
           c == ToCached(p)
<1>1. r \in Coordinates
  BY CurveIs
<1>2. X \in Int /\ Y \in Int /\ Z \in Int /\ T \in Int /\ x \in Int /\ y \in Int /\ D \in Int
  BY <1>1, FeInt, MultNumbers DEF Coordinates, Point3
<1>3. NotZero(Z) /\ Same(X, x * Z) /\ Same(Y, y * Z) /\ Same(T, (x * y) * Z)
  BY <1>1, RepresentsMeans
<1>4. /\ c.YplusX = FeAdd(Y, X) /\ c.YminusX = FeSub(Y, X) /\ c.Z = Z
      /\ c.T2d = FeMul(T, FeAdd(D, D)) /\ Z \in Fe
      /\ c = [YplusX |-> c.YplusX, YminusX |-> c.YminusX, Z |-> c.Z, T2d |-> c.T2d]
  BY DEF ToCached, Point3
<1> HIDE DEF x, y, X, Y, Z, T, c
<1>5. x * Z \in Int /\ y * Z \in Int /\ x * y \in Int
  BY <1>2
<1>6. Same(c.YplusX, y * Z + x * Z) /\ Same(c.YminusX, y * Z - x * Z)
  BY <1>2, <1>3, <1>4, <1>5, FeAddOf, FeSubOf
<1>7. y * Z + x * Z = Z * (y + x) /\ y * Z - x * Z = Z * (y - x)
  BY <1>2
<1>8. FeAdd(D, D) \in Int /\ Same(FeAdd(D, D), D + D) /\ D + D \in Int
  <2>1. FeAdd(D, D) \in Int
    BY <1>2, FeTypes, FeInt
  <2>2. Same(FeAdd(D, D), D + D)
    BY <1>2, FeAddOf, SameItself
  <2>3. D + D \in Int
    BY <1>2
  <2> QED
    BY <2>1, <2>2, <2>3
<1>9. (x * y) * Z \in Int
  BY <1>2, <1>5
<1>10. Same(c.T2d, ((x * y) * Z) * (D + D))
  BY <1>2, <1>3, <1>4, <1>8, <1>9, FeMulOf
<1>11. ((x * y) * Z) * (D + D) = (2 * (Z * D)) * (x * y)
  BY <1>2
<1>12. c.YplusX \in Fe /\ c.YminusX \in Fe /\ c.T2d \in Fe
  BY <1>2, <1>4, <1>8, FeTypes
<1>13. c \in CachedPoint
  BY <1>4, <1>12 DEF CachedPoint
<1>14. IsCached(c, r)
  BY <1>3, <1>4, <1>6, <1>7, <1>10, <1>11 DEF IsCached, x, y
<1> QED
  BY <1>13, <1>14 DEF c

(* ge_add and ge_sub. *)
LEMMA GeAddPlus ==
  ASSUME NEW p \in Point3, NEW q \in Curve, NEW r \in Curve, Represents(p, q),
         NEW e \in CachedPoint, IsCached(e, r)
  PROVE  /\ GeAdd(p, e) \in Point3 /\ Completes(GeAdd(p, e), Plus(q, r))
         /\ GeSub(p, e) \in Point3 /\ Completes(GeSub(p, e), Plus(q, Minus(r)))
<1> DEFINE x == r.x
           y == r.y
           Z == p.Z
           T == p.T
           w == e.Z
           t2d == e.T2d
           c == FeMul(t2d, T)
           zz == FeMul(Z, w)
           z2 == FeAdd(zz, zz)
           yp == e.YplusX
           ym == e.YminusX
           k == 2 * (w * D)
<1>1. r \in Coordinates
  BY CurveIs
<1>2. /\ Z \in Int /\ T \in Int /\ x \in Int /\ y \in Int /\ D \in Int /\ w \in Int
      /\ yp \in Fe /\ ym \in Fe /\ t2d \in Int
  BY <1>1, FeInt, MultNumbers DEF Coordinates, Point3, CachedPoint
<1>3. /\ NotZero(w) /\ Same(yp, w * (y + x)) /\ Same(ym, w * (y - x))
      /\ Same(t2d, k * (x * y))
  BY DEF IsCached
<1>4. GeAdd(p, e) = Completed(p, yp, ym, c, z2) /\ GeSub(p, e) = Completed(p, ym, yp, FeNeg(c), z2)
  BY DEF GeAdd, GeSub
<1> HIDE DEF x, y, Z, T, w, yp, ym, t2d
<1>5. k \in Int /\ x * y \in Int
  <2>1. w * D \in Int
    BY <1>2
  <2>2. x * y \in Int
    BY <1>2
  <2> QED
    BY <2>1, <2>2
<1>6. Same(c, (k * (x * y)) * T) /\ c \in Fe /\ c \in Int
  <2> HIDE DEF k
  <2>1. k * (x * y) \in Int
    BY <1>5
  <2>2. Same(T, T)
    BY SameItself
  <2>3. Same(c, (k * (x * y)) * T)
    BY <1>2, <1>3, <2>1, <2>2, FeMulOf
  <2>4. c \in Fe /\ c \in Int
    BY <1>2, FeTypes, FeInt
  <2> QED
    BY <2>3, <2>4
<1>7. (k * (x * y)) * T = k * ((x * y) * T) /\ k * ((x * y) * T) \in Int
  <2> DEFINE m == x * y
  <2> HIDE DEF k, m
  <2>1. m * T \in Int /\ k \in Int /\ m \in Int
    BY <1>2, <1>5 DEF m
  <2>2. (k * m) * T = k * (m * T)
    BY <1>2, <2>1
  <2>3. k * (m * T) \in Int
    BY <2>1
  <2> QED
    BY <2>2, <2>3 DEF m
<1> DEFINE f == k * ((x * y) * T)
<1>8. Same(c, f) /\ f \in Int
  BY <1>6, <1>7
<1> HIDE DEF c, f
<1>9. Same(FeNeg(c), -f) /\ FeNeg(c) \in Fe
  BY <1>6, <1>8, FeNegOf, FeTypes
<1>10. z2 \in Fe /\ Same(z2, 2 * (w * Z))
  <2>1. zz \in Int /\ Same(zz, Z * w)
    BY <1>2, FeTypes, FeInt, FeMulOf, SameItself
  <2>2. Z * w \in Int /\ Z * w + Z * w = 2 * (w * Z)
    BY <1>2
  <2> HIDE DEF zz
  <2>3. Same(z2, Z * w + Z * w)
    BY <2>1, <2>2, FeAddOf
  <2>4. z2 \in Fe
    BY <2>1, FeTypes
  <2> QED
    BY <2>2, <2>3, <2>4
<1> HIDE DEF z2
<1>11. Same(c, (2 * (w * D)) * ((x * y) * T)) /\ Same(FeNeg(c), -((2 * (w * D)) * ((x * y) * T)))
  BY <1>8, <1>9 DEF f
<1>12. /\ Completed(p, yp, ym, c, z2) \in Point3
       /\ Completes(Completed(p, yp, ym, c, z2), Plus(q, r))
  BY <1>2, <1>3, <1>6, <1>10, <1>11, CompletedPlus DEF x, y, Z, T
<1>13. /\ Completed(p, ym, yp, FeNeg(c), z2) \in Point3
       /\ Completes(Completed(p, ym, yp, FeNeg(c), z2), Plus(q, Minus(r)))
  BY <1>2, <1>3, <1>9, <1>10, <1>11, CompletedMinus DEF x, y, Z, T
<1> QED
  BY <1>4, <1>12, <1>13

LEMMA ScaledRepresents ==
  ASSUME NEW q \in Curve
  PROVE  Scaled(q) \in Point3 /\ Represents(Scaled(q), q)
<1> DEFINE x == q.x
           y == q.y
           X == FeMul(x, 2)
           Y == FeMul(y, 2)
           t == FeMul(x, y)
           T == FeMul(2, t)
<1>1. x \in Int /\ y \in Int /\ 2 \in Int
  <2>1. q \in Coordinates
    BY CurveIs
  <2>2. x \in Int /\ y \in Int
    BY <2>1, FeInt DEF Coordinates
  <2> QED
    BY <2>2
<1>2. 2 \in Fe
  <2>1. P # 2
    BY CurveAssumption
  <2> QED
    BY <2>1, MultNumbers DEF Fe
<1>3. Scaled(q) = [X |-> X, Y |-> Y, Z |-> 2, T |-> T]
  BY DEF Scaled
<1> HIDE DEF x, y
<1>4. X \in Fe /\ Y \in Fe /\ t \in Fe /\ T \in Fe
  BY <1>1, FeTypes, FeInt
<1>5. /\ X \in Int /\ Y \in Int /\ t \in Int /\ T \in Int
      /\ x * 2 \in Int /\ y * 2 \in Int /\ x * y \in Int
  <2>1. X \in Int /\ Y \in Int /\ t \in Int /\ T \in Int
    BY <1>4, FeInt
  <2>2. x * 2 \in Int /\ y * 2 \in Int /\ x * y \in Int
    BY <1>1
  <2> QED
    BY <2>1, <2>2
<1>6. Same(X, x * 2) /\ Same(Y, y * 2) /\ Same(t, x * y) /\ Same(2, 2)
  BY <1>1, FeMulOf, SameItself
<1>7. Same(T, 2 * (x * y)) /\ 2 * (x * y) \in Int
  BY <1>1, <1>5, <1>6, FeMulOf
<1> HIDE DEF X, Y, t, T
<1>8. Same(FeMul(X, Y), (x * 2) * (y * 2)) /\ Same(FeMul(2, T), 2 * (2 * (x * y)))
  BY <1>1, <1>5, <1>6, <1>7, FeMulOf
<1>9. (x * 2) * (y * 2) = 2 * (2 * (x * y))
  BY <1>1
<1>10. FeMul(X, Y) = FeMul(2, T)
  <2>1. FeMul(X, Y) \in Fe /\ FeMul(2, T) \in Fe
    BY <1>1, <1>5, FeTypes
  <2>2. Same(FeMul(X, Y), FeMul(2, T))
    BY <1>8, <1>9, SameTurned, SameThrough
  <2> QED
    BY <2>1, <2>2, FeEqual
<1>11. Scaled(q) \in Point3
  BY <1>2, <1>3, <1>4 DEF Point3
<1>12. StandsFor(Scaled(q), q)
  BY <1>3 DEF StandsFor, X, Y, x, y
<1> QED
  BY <1>3, <1>10, <1>11, <1>12 DEF Represents
-----------------------------------------------------------------------------
(* Powers, and the roots that decoding takes.                              *)

(* The powers of z up to the n-th. *)
IsPowers(h, z, n) == h[0] = 1 /\ \A k \in 1..n : h[k] = FeMul(h[k - 1], z)

LEMMA FePowerIs ==
  ASSUME NEW n \in Nat, NEW z \in Int
  PROVE  \E h : IsPowers(h, z, n) /\ FePower(z, n) = h[n]
<1> DEFINE body(f) == [k \in 0..n |-> IF k = 0 THEN 1 ELSE FeMul(f[k - 1], z)]
           h == CHOOSE f : f = body(f)
<1>1. h = body(h)
  BY FePowersExist
<1>2. FePower(z, n) = h[n]
  BY DEF FePower
<1> HIDE DEF h
<1>3. h[0] = 1 /\ \A k \in 1..n : h[k] = FeMul(h[k - 1], z)
  <2>1. \A k \in 0..n : h[k] = IF k = 0 THEN 1 ELSE FeMul(h[k - 1], z)
    BY <1>1, Zenon
  <2> HIDE DEF body
  <2> QED
    BY <2>1
<1> QED
  BY <1>2, <1>3 DEF IsPowers

LEMMA FePowerZero ==
  ASSUME NEW z \in Int
  PROVE  FePower(z, 0) = 1
  BY FePowerIs DEF IsPowers

LEMMA FePowerNext ==
  ASSUME NEW z \in Int, NEW n \in Nat
  PROVE  FePower(z, n + 1) = FeMul(FePower(z, n), z)
<1>1. PICK f : IsPowers(f, z, n) /\ FePower(z, n) = f[n]
  BY FePowerIs
<1>2. n + 1 \in Nat
  OBVIOUS
<1>3. PICK g : IsPowers(g, z, n + 1) /\ FePower(z, n + 1) = g[n + 1]
  BY <1>2, FePowerIs
<1> DEFINE T == {k \in 0..n : g[k] = f[k]}
<1>4. 0 \in T
  BY <1>1, <1>3 DEF IsPowers
<1>5. ASSUME NEW k \in 0..n-1, k \in T PROVE k + 1 \in T
  <2>1. k + 1 \in 1..n /\ k + 1 \in 1..(n + 1) /\ (k + 1) - 1 = k
    OBVIOUS
  <2>2. f[k + 1] = FeMul(f[k], z) /\ g[k + 1] = FeMul(g[k], z)
    BY <1>1, <1>3, <2>1 DEF IsPowers
  <2> QED
    BY <1>5, <2>1, <2>2
<1> HIDE DEF T
<1>6. 0..n \subseteq T
  BY <1>4, <1>5, InductionUpTo
<1>7. g[n] = f[n]
  BY <1>6 DEF T
<1>8. n + 1 \in 1..(n + 1) /\ (n + 1) - 1 = n
  OBVIOUS
<1>9. g[n + 1] = FeMul(g[n], z)
  BY <1>3, <1>8 DEF IsPowers
<1> QED
  BY <1>1, <1>3, <1>7, <1>9

LEMMA FePowerFe ==
  ASSUME NEW z \in Int, NEW n \in Nat
  PROVE  FePower(z, n) \in Fe /\ FePower(z, n) \in Int
  BY FePowerType, FeInt DEF Fe

LEMMA FePowerSum ==
  ASSUME NEW z \in Int, NEW m \in Nat, NEW n \in Nat
  PROVE  Same(FePower(z, m + n), FePower(z, m) * FePower(z, n))
<1> DEFINE p == FePower(z, m)
           T == {k \in Nat : Same(FePower(z, m + k), p * FePower(z, k))}
<1>1. p \in Int
  BY FePowerFe
<1>2. 0 \in T
  <2>1. m + 0 = m /\ p * 1 = p
    BY <1>1
  <2> QED
    BY <2>1, FePowerZero, SameItself
<1>3. ASSUME NEW k \in Nat, k \in T PROVE k + 1 \in T
  <2> DEFINE a == FePower(z, m + k)
             b == FePower(z, k)
  <2>1. m + k \in Nat /\ m + (k + 1) = (m + k) + 1
    OBVIOUS
  <2>2. a \in Int /\ b \in Int
    BY <2>1, FePowerFe
  <2>3. FePower(z, m + (k + 1)) = FeMul(a, z) /\ FePower(z, k + 1) = FeMul(b, z)
    BY <2>1, FePowerNext
  <2>4. Same(a, p * b)
    BY <1>3
  <2> HIDE DEF a, b, p
  <2>5. p * b \in Int /\ b * z \in Int
    BY <1>1, <2>2
  <2>6. Same(FeMul(a, z), (p * b) * z)
    BY <2>2, <2>4, <2>5, FeMulOf, SameItself
  <2>7. Same(FeMul(b, z), b * z) /\ FeMul(b, z) \in Int
    BY <2>2, FeMulOf, SameItself, FeTypes, FeInt
  <2>8. Same(p * FeMul(b, z), p * (b * z))
    BY <1>1, <2>5, <2>7, SameProduct, SameItself
  <2>9. (p * b) * z = p * (b * z)
    BY <1>1, <2>2
  <2>10. Same(FeMul(a, z), p * FeMul(b, z))
    BY <2>6, <2>8, <2>9, SameTurned, SameThrough
  <2> QED
    BY <2>3, <2>10 DEF p
<1> HIDE DEF T
<1>4. Nat \subseteq T
  BY <1>2, <1>3, Induction
<1> QED
  BY <1>4 DEF T

LEMMA FePowerSquare ==
  ASSUME NEW z \in Int, NEW g \in Int, Same(z, g * g), NEW n \in Nat
  PROVE  Same(FePower(z, n), FePower(g, n) * FePower(g, n))
<1> DEFINE T == {k \in Nat : Same(FePower(z, k), FePower(g, k) * FePower(g, k))}
<1>1. 0 \in T
  <2>1. 1 * 1 = 1
    OBVIOUS
  <2> QED
    BY <2>1, FePowerZero, SameItself
<1>2. ASSUME NEW k \in Nat, k \in T PROVE k + 1 \in T
  <2> DEFINE a == FePower(z, k)
             b == FePower(g, k)
             c == FeMul(b, g)
  <2>1. a \in Int /\ b \in Int
    BY FePowerFe
  <2>2. FePower(z, k + 1) = FeMul(a, z) /\ FePower(g, k + 1) = c
    BY FePowerNext
  <2>3. Same(a, b * b)
    BY <1>2
  <2> HIDE DEF a, b
  <2>4. b * b \in Int /\ g * g \in Int /\ b * g \in Int
    BY <2>1
  <2>5. Same(FeMul(a, z), (b * b) * (g * g))
    BY <2>1, <2>3, <2>4, FeMulOf
  <2>6. Same(c, b * g) /\ c \in Int
    BY <2>1, FeMulOf, SameItself, FeTypes, FeInt
  <2> HIDE DEF c
  <2>7. Same(c * c, (b * g) * (b * g))
    BY <2>4, <2>6, SameProduct
  <2>8. (b * b) * (g * g) = (b * g) * (b * g)
    BY <2>1
  <2>9. Same(FeMul(a, z), c * c)
    BY <2>5, <2>7, <2>8, SameTurned, SameThrough
  <2> QED
    BY <2>2, <2>9
<1> HIDE DEF T
<1>3. Nat \subseteq T
  BY <1>1, <1>2, Induction
<1> QED
  BY <1>3 DEF T

(* e: the exponent of fe_pow22523. *)
E8 == (P - 5) \div 8

LEMMA PrimeIs == E8 \in Nat /\ P = 8 * E8 + 5 /\ P - 2 = 8 * E8 + 3
<1>1. P \in Nat /\ (P % 8) = 5
  BY MultNumbers, CurveAssumption
<1>2. (P - 5) % 8 = 0 /\ P >= 5
  BY <1>1
<1> QED
  BY <1>1, <1>2 DEF E8

(* Fermat, as the inverse gives it: with G = g^e, (G^4 g^2)^2 = 1. *)
LEMMA RootOfOne ==
  ASSUME NEW g \in Fe, g # 0
  PROVE  LET G == FePower(g, E8)
             h == ((G * G) * (G * G)) * (g * g)
         IN h \in Int /\ Same(h * h, 1)
<1> DEFINE G == FePower(g, E8)
           h == ((G * G) * (G * G)) * (g * g)
           e == E8
           G2 == FePower(g, e + e)
           G4 == FePower(g, (e + e) + (e + e))
           m == ((e + e) + (e + e)) + ((e + e) + (e + e))
           G8 == FePower(g, m)
           g3 == FePower(g, 3)
<1>1. e \in Nat /\ e + e \in Nat /\ (e + e) + (e + e) \in Nat /\ m \in Nat /\ P - 2 = m + 3
  <2>1. e \in Nat /\ P - 2 = 8 * e + 3
    BY PrimeIs
  <2> HIDE DEF e
  <2> QED
    BY <2>1
<1>2. g \in Int /\ G \in Int /\ G2 \in Int /\ G4 \in Int /\ G8 \in Int /\ g3 \in Int
  <2>1. g \in Int
    BY FeInt
  <2> HIDE DEF e, m
  <2> QED
    BY <1>1, <2>1, FePowerFe DEF e
<1>3. Same(G2, G * G) /\ Same(G4, G2 * G2) /\ Same(G8, G4 * G4)
  <2> HIDE DEF e
  <2>1. Same(G2, G * G)
    BY <1>1, <1>2, FePowerSum DEF e
  <2>2. Same(G4, G2 * G2)
    BY <1>1, <1>2, FePowerSum
  <2>3. Same(G8, G4 * G4)
    BY <1>1, <1>2, FePowerSum
  <2> QED
    BY <2>1, <2>2, <2>3
<1>4. Same(FePower(g, P - 2), G8 * g3)
  <2> HIDE DEF m
  <2>1. 3 \in Nat
    OBVIOUS
  <2> QED
    BY <1>1, <1>2, <2>1, FePowerSum
<1>5. Same(g3, (g * g) * g)
  <2>1. FePower(g, 0 + 1) = FeMul(1, g)
    BY <1>2, FePowerNext, FePowerZero
  <2>2. FePower(g, 1 + 1) = FeMul(FePower(g, 1), g) /\ FePower(g, 2 + 1) = FeMul(FePower(g, 2), g)
    BY <1>2, FePowerNext
  <2>3. 0 + 1 = 1 /\ 1 + 1 = 2 /\ 2 + 1 = 3 /\ 1 * g = g
    BY <1>2
  <2>4. Same(FePower(g, 1), g) /\ FePower(g, 1) \in Int /\ FePower(g, 2) \in Int
    <3>1. 1 \in Int /\ 1 \in Nat /\ 2 \in Nat
      OBVIOUS
    <3>2. Same(FeMul(1, g), 1 * g)
      BY <1>2, <3>1, FeMulOf, SameItself
    <3>3. FePower(g, 1) \in Int /\ FePower(g, 2) \in Int
      BY <1>2, <3>1, FePowerFe
    <3> QED
      BY <2>1, <2>3, <3>2, <3>3
  <2>5. Same(FePower(g, 2), g * g) /\ g * g \in Int
    <3>1. g * g \in Int
      BY <1>2
    <3> QED
      BY <1>2, <2>2, <2>3, <2>4, <3>1, FeMulOf, SameItself
  <2>6. Same(FePower(g, 3), (g * g) * g)
    BY <1>2, <2>2, <2>3, <2>4, <2>5, FeMulOf, SameItself
  <2> QED
    BY <2>6
<1>6. FeMul(g, FePower(g, P - 2)) = 1 /\ FePower(g, P - 2) \in Int
  <2>1. g \in 1..P-1 /\ g \in 0..P-1
    BY <1>2 DEF Fe
  <2>2. FeMul(g, FeInvert[g]) = 1 /\ FeInvert[g] = FePower(g, P - 2)
    BY <2>1, CurveAssumption DEF FeInvert
  <2>3. P - 2 \in Nat
    BY MultNumbers
  <2> QED
    BY <1>2, <2>2, <2>3, FePowerFe
<1> HIDE DEF G, G2, G4, G8, g3, e
<1> DEFINE a == G * G
           b == a * a
           g2 == g * g
<1>7. a \in Int /\ b \in Int /\ g2 \in Int
  <2>1. a \in Int
    BY <1>2
  <2>2. g2 \in Int
    BY <1>2
  <2> HIDE DEF a
  <2> QED
    BY <2>1, <2>2
<1>8. Same(G8, b * b)
  <2> HIDE DEF a
  <2>1. Same(G2, a)
    BY <1>3 DEF a
  <2>2. Same(G2 * G2, a * a)
    BY <1>2, <1>7, <2>1, SameProduct
  <2>3. Same(G4, b)
    BY <1>3, <2>2, SameThrough
  <2> HIDE DEF b
  <2>4. Same(G4 * G4, b * b)
    BY <1>2, <1>7, <2>3, SameProduct
  <2> QED
    BY <1>3, <2>4, SameThrough
<1> HIDE DEF a, b
<1>9. Same(FePower(g, P - 2), (b * b) * (g2 * g))
  <2>1. b * b \in Int /\ g2 * g \in Int
    <3> HIDE DEF g2
    <3> QED
      BY <1>2, <1>7
  <2>2. Same(G8 * g3, (b * b) * (g2 * g))
    BY <1>2, <1>5, <1>8, <2>1, SameProduct
  <2> QED
    BY <1>4, <2>2, SameThrough
<1>10. Same(g * ((b * b) * (g2 * g)), 1)
  <2>1. (b * b) * (g2 * g) \in Int
    <3>1. b * b \in Int
      BY <1>7
    <3>2. g2 * g \in Int
      <4> HIDE DEF g2
      <4> QED
        BY <1>2, <1>7
    <3> HIDE DEF g2
    <3> QED
      BY <3>1, <3>2
  <2>2. Same(FeMul(g, FePower(g, P - 2)), g * ((b * b) * (g2 * g)))
    BY <1>2, <1>6, <1>9, <2>1, FeMulOf, SameItself
  <2> QED
    BY <1>6, <2>2, SameTurned
<1>11. g * ((b * b) * (g2 * g)) = (b * g2) * (b * g2)
  BY <1>2, <1>7
<1>12. b * g2 \in Int
  <2> HIDE DEF g2
  <2> QED
    BY <1>7
<1> QED
  BY <1>10, <1>11, <1>12 DEF b, a, G

LEMMA OneOrMinusOne ==
  ASSUME NEW h \in Int, Same(h * h, 1)
  PROVE  Same(h, 1) \/ Same(h, -1)
<1>1. h - 1 \in Int /\ h + 1 \in Int /\ h * h \in Int /\ 0 \in Int /\ 1 \in Int /\ -1 \in Int
  OBVIOUS
<1>2. (h - 1) * (h + 1) = h * h - 1
  OBVIOUS
<1>3. Same(h * h - 1, 1 - 1)
  BY <1>1, SameDifference, SameItself
<1>4. 0 % P = 0 /\ 1 - 1 = 0
  BY MultNumbers
<1>5. ~ NotZero((h - 1) * (h + 1))
  BY <1>2, <1>3, <1>4 DEF NotZero, Same
<1>6. ~ NotZero(h - 1) \/ ~ NotZero(h + 1)
  BY <1>1, <1>5, ProductNotZero
<1>7. CASE ~ NotZero(h - 1)
  <2>1. Same(h - 1, 0)
    BY <1>4, <1>7 DEF NotZero, Same
  <2>2. Same((h - 1) + 1, 0 + 1)
    BY <1>1, <2>1, SameSum, SameItself
  <2>3. (h - 1) + 1 = h /\ 0 + 1 = 1
    OBVIOUS
  <2> QED
    BY <2>2, <2>3
<1>8. CASE ~ NotZero(h + 1)
  <2>1. Same(h + 1, 0)
    BY <1>4, <1>8 DEF NotZero, Same
  <2>2. Same((h + 1) + (-1), 0 + (-1))
    BY <1>1, <2>1, SameSum, SameItself
  <2>3. (h + 1) + (-1) = h /\ 0 + (-1) = -1
    OBVIOUS
  <2> QED
    BY <2>2, <2>3
<1> QED
  BY <1>6, <1>7, <1>8
(* What decoding computes from a y. *)
DecodeU(y) == FeSub(FeSq(y), 1)
DecodeV(y) == FeAdd(FeMul(D, FeSq(y)), 1)
DecodeV3(y) == FeMul(FeSq(DecodeV(y)), DecodeV(y))
DecodeT(y) == FeMul(DecodeU(y), FeMul(FeSq(DecodeV3(y)), DecodeV(y)))
DecodeRoot(y) == FeMul(FeMul(DecodeU(y), DecodeV3(y)), FePow22523[DecodeT(y)])
DecodeVxx(y) == FeMul(DecodeV(y), FeSq(DecodeRoot(y)))
DecodeX(y) == IF DecodeVxx(y) = DecodeU(y) THEN DecodeRoot(y) ELSE FeMul(DecodeRoot(y), SqrtM1)

(* y^2 - 1 and D y^2 + 1 as numbers. *)
UOf(y) == y * y - 1
VOf(y) == D * (y * y) + 1

LEMMA DecodeParts ==
  ASSUME NEW y \in Fe
  PROVE  /\ y \in Int /\ UOf(y) \in Int /\ VOf(y) \in Int
         /\ DecodeU(y) \in Fe /\ Same(DecodeU(y), UOf(y))
         /\ DecodeV(y) \in Fe /\ Same(DecodeV(y), VOf(y))
<1>1. y \in Int /\ D \in Int
  BY FeInt, MultNumbers
<1>2. y * y \in Int
  BY <1>1
<1>3. FeSq(y) \in Int /\ Same(FeSq(y), y * y)
  BY <1>1, FeTypes, FeInt, FeMulOf, SameItself DEF FeSq
<1>4. D * (y * y) \in Int
  BY <1>1, <1>2
<1>5. FeMul(D, FeSq(y)) \in Int /\ Same(FeMul(D, FeSq(y)), D * (y * y))
  BY <1>1, <1>2, <1>3, FeTypes, FeInt, FeMulOf, SameItself
<1>6. 1 \in Int /\ Same(1, 1)
  BY SameItself
<1>7. Same(DecodeU(y), UOf(y)) /\ DecodeU(y) \in Fe
  BY <1>2, <1>3, <1>6, FeSubOf, FeTypes DEF DecodeU, UOf
<1>8. Same(DecodeV(y), VOf(y)) /\ DecodeV(y) \in Fe
  BY <1>4, <1>5, <1>6, FeAddOf, FeTypes DEF DecodeV, VOf
<1>9. UOf(y) \in Int /\ VOf(y) \in Int
  BY <1>2, <1>4 DEF UOf, VOf
<1> QED
  BY <1>1, <1>7, <1>8, <1>9

LEMMA FeSqOf ==
  ASSUME NEW f \in Int, NEW a \in Int, Same(f, a)
  PROVE  FeSq(f) \in Fe /\ FeSq(f) \in Int /\ Same(FeSq(f), a * a) /\ a * a \in Int
<1>1. a * a \in Int
  OBVIOUS
<1> QED
  BY <1>1, FeTypes, FeInt, FeMulOf DEF FeSq

LEMMA FeMulIs ==
  ASSUME NEW f \in Int, NEW g \in Int, NEW a \in Int, NEW b \in Int, Same(f, a), Same(g, b)
  PROVE  FeMul(f, g) \in Fe /\ FeMul(f, g) \in Int /\ Same(FeMul(f, g), a * b) /\ a * b \in Int
<1>1. a * b \in Int
  OBVIOUS
<1> QED
  BY <1>1, FeTypes, FeInt, FeMulOf

(* v root^2 is u times a power of t, which is u v^7. *)
LEMMA RootIs ==
  ASSUME NEW y \in Fe
  PROVE  LET u == DecodeU(y)
             v == DecodeV(y)
             t == DecodeT(y)
             Q == FePower(t, E8)
             r == DecodeRoot(y)
         IN /\ t \in Fe /\ Q \in Int /\ r \in Fe /\ DecodeVxx(y) \in Fe
            /\ Same(t, u * (((v * v) * v) * ((v * v) * v) * v))
            /\ Same(DecodeVxx(y), v * (r * r)) /\ Same(DecodeVxx(y), u * ((Q * Q) * t))
<1> DEFINE u == DecodeU(y)
           v == DecodeV(y)
           v3 == DecodeV3(y)
           t == DecodeT(y)
           Q == FePower(t, E8)
           r == DecodeRoot(y)
           vv == v * v
           w == vv * v
           ww == w * w
<1>1. u \in Int /\ v \in Int
  BY DecodeParts, FeInt
<1>2. /\ v3 = FeMul(FeSq(v), v) /\ t = FeMul(u, FeMul(FeSq(v3), v))
      /\ r = FeMul(FeMul(u, v3), FePow22523[t]) /\ DecodeVxx(y) = FeMul(v, FeSq(r))
  BY DEF DecodeV3, DecodeT, DecodeRoot, DecodeVxx
<1> HIDE DEF u, v, v3, t, r
<1>3. Same(u, u) /\ Same(v, v)
  BY SameItself
<1>4. FeSq(v) \in Int /\ Same(FeSq(v), vv) /\ vv \in Int
  BY <1>1, <1>3, FeSqOf
<1> HIDE DEF vv
<1>5. v3 \in Int /\ Same(v3, w) /\ w \in Int
  BY <1>1, <1>2, <1>3, <1>4, FeMulIs
<1> HIDE DEF w
<1>6. FeSq(v3) \in Int /\ Same(FeSq(v3), ww) /\ ww \in Int
  BY <1>5, FeSqOf
<1> HIDE DEF ww
<1>7. FeMul(FeSq(v3), v) \in Int /\ Same(FeMul(FeSq(v3), v), ww * v) /\ ww * v \in Int
  BY <1>1, <1>3, <1>6, FeMulIs
<1>8. t \in Fe /\ t \in Int /\ Same(t, u * (ww * v)) /\ u * (ww * v) \in Int
  BY <1>1, <1>2, <1>3, <1>7, FeMulIs
<1>9. FePow22523[t] = Q /\ Q \in Int
  <2>1. E8 \in Nat
    BY PrimeIs
  <2>2. FePow22523[t] = FePower(t, E8)
    BY <1>8 DEF FePow22523, E8, Fe
  <2> QED
    BY <1>8, <2>1, <2>2, FePowerFe
<1> HIDE DEF Q
<1>10. FeMul(u, v3) \in Int /\ Same(FeMul(u, v3), u * w) /\ u * w \in Int
  BY <1>1, <1>3, <1>5, FeMulIs
<1>11. r \in Fe /\ r \in Int /\ Same(r, (u * w) * Q) /\ (u * w) * Q \in Int
  BY <1>2, <1>9, <1>10, FeMulIs, SameItself
<1>12. FeSq(r) \in Int /\ Same(FeSq(r), r * r) /\ r * r \in Int
  BY <1>11, FeSqOf, SameItself
<1>13. DecodeVxx(y) \in Fe /\ Same(DecodeVxx(y), v * (r * r))
  BY <1>1, <1>2, <1>3, <1>12, FeMulIs
<1>14. Same(DecodeVxx(y), v * (((u * w) * Q) * ((u * w) * Q)))
  <2> DEFINE m == (u * w) * Q
  <2>1. m \in Int /\ Same(r, m)
    BY <1>11
  <2> HIDE DEF m
  <2>2. FeSq(r) \in Int /\ Same(FeSq(r), m * m) /\ m * m \in Int
    BY <1>11, <2>1, FeSqOf
  <2>3. Same(DecodeVxx(y), v * (m * m))
    BY <1>1, <1>2, <1>3, <2>2, FeMulIs
  <2> QED
    BY <2>3 DEF m
<1>15. v * (((u * w) * Q) * ((u * w) * Q)) = u * ((Q * Q) * (u * (ww * v)))
  BY <1>1, <1>5, <1>9 DEF ww
<1>16. Same(u * ((Q * Q) * (u * (ww * v))), u * ((Q * Q) * t))
  <2> DEFINE k == u * (ww * v)
             q == Q * Q
  <2>1. k \in Int /\ Same(k, t) /\ q \in Int
    BY <1>8, <1>9, SameTurned
  <2> HIDE DEF k, q
  <2>2. Same(q * k, q * t)
    BY <1>8, <2>1, SameProduct, SameItself
  <2>3. q * k \in Int /\ q * t \in Int
    BY <1>8, <2>1
  <2>4. Same(u * (q * k), u * (q * t))
    BY <1>1, <1>3, <2>2, <2>3, SameProduct
  <2> QED
    BY <2>4 DEF k, q
<1>17. Same(DecodeVxx(y), u * ((Q * Q) * t))
  BY <1>14, <1>15, <1>16, SameThrough
<1>18. Same(t, u * (((v * v) * v) * ((v * v) * v) * v))
  BY <1>8 DEF ww, w, vv
<1> QED
  BY <1>8, <1>9, <1>11, <1>13, <1>17, <1>18 DEF u, v, t, Q, r

LEMMA SameZero ==
  ASSUME NEW a \in Int
  PROVE  ~ NotZero(a) <=> Same(a, 0)
<1>1. 0 % P = 0
  BY MultNumbers
<1> QED
  BY <1>1 DEF NotZero, Same

(* If u = v a^2 then v root^2 is u or -u. *)
LEMMA RootFound ==
  ASSUME NEW y \in Fe, NEW a \in Fe, Same(UOf(y), VOf(y) * (a * a))
  PROVE  Same(DecodeVxx(y), DecodeU(y)) \/ Same(DecodeVxx(y), -DecodeU(y))
<1> DEFINE u == DecodeU(y)
           v == DecodeV(y)
           t == DecodeT(y)
           Q == FePower(t, E8)
           v7 == ((v * v) * v) * ((v * v) * v) * v
           v4 == (v * v) * (v * v)
           g == (v4 * a) % P
           G == FePower(g, E8)
           k == (Q * Q) * t
           h == ((G * G) * (G * G)) * (g * g)
<1>1. u \in Int /\ v \in Int /\ a \in Int
  BY DecodeParts, FeInt
<1>2. Same(u, v * (a * a))
  <2>1. VOf(y) \in Int /\ UOf(y) \in Int /\ Same(u, UOf(y)) /\ Same(VOf(y), v)
    BY DecodeParts, SameTurned
  <2>2. a * a \in Int
    BY <1>1
  <2> HIDE DEF u, v
  <2>3. Same(VOf(y) * (a * a), v * (a * a))
    BY <1>1, <2>1, <2>2, SameProduct, SameItself
  <2> QED
    BY <2>1, <2>3, SameThrough
<1>3. t \in Fe /\ Q \in Int /\ Same(t, u * v7) /\ Same(DecodeVxx(y), u * k)
  BY RootIs
<1>4. t \in Int
  BY <1>3, FeInt
<1> HIDE DEF u, v, t, Q
<1>5. v * v \in Int /\ (v * v) * v \in Int /\ v4 \in Int
  <2> DEFINE s == v * v
  <2>1. s \in Int
    BY <1>1
  <2> HIDE DEF s
  <2>2. s * v \in Int /\ s * s \in Int
    BY <1>1, <2>1
  <2> QED
    BY <2>1, <2>2 DEF s
<1>6. v7 \in Int
  <2> DEFINE s == (v * v) * v
  <2>1. s \in Int
    BY <1>5
  <2> HIDE DEF s
  <2>2. s * s \in Int
    BY <2>1
  <2>3. (s * s) * v \in Int
    BY <1>1, <2>2
  <2> QED
    BY <2>3 DEF s
<1>7. v4 * a \in Int
  <2> HIDE DEF v4
  <2> QED
    BY <1>1, <1>5
<1>8. g \in Fe /\ Same(g, v4 * a) /\ g \in Int
  <2> DEFINE m == v4 * a
  <2>1. m \in Int
    BY <1>7
  <2> HIDE DEF m
  <2>2. m % P \in Fe /\ Same(m % P, m)
    BY <2>1, SameReduced
  <2> QED
    BY <2>2, FeInt DEF m
<1> HIDE DEF g
<1>9. (v * (a * a)) * v7 = (v4 * a) * (v4 * a)
  BY <1>1
<1>10. Same(t, g * g)
  <2>1. a * a \in Int
    BY <1>1
  <2>2. v * (a * a) \in Int
    BY <1>1, <2>1
  <2> HIDE DEF v7, v4
  <2>3. Same(u * v7, (v * (a * a)) * v7)
    BY <1>1, <1>2, <1>6, <2>2, SameProduct, SameItself
  <2>4. Same(g * g, (v4 * a) * (v4 * a))
    BY <1>7, <1>8, SameProduct
  <2> QED
    BY <1>3, <1>9, <2>3, <2>4, SameTurned, SameThrough
<1> HIDE DEF v7
<1>11. k \in Int
  <2>1. Q * Q \in Int
    BY <1>3
  <2> QED
    BY <1>4, <2>1
<1>12. CASE g = 0
  <2>1. ~ NotZero(v4 * a)
    <3>1. Same(v4 * a, 0)
      BY <1>8, <1>12, SameTurned
    <3> QED
      BY <1>7, <3>1, SameZero
  <2>2. ~ NotZero(v) \/ ~ NotZero(a)
    <3> SUFFICES ASSUME NotZero(v), NotZero(a) PROVE FALSE
      OBVIOUS
    <3>1. NotZero(v * v)
      BY <1>1, ProductNotZero
    <3>2. NotZero(v4)
      BY <1>5, <3>1, ProductNotZero
    <3> HIDE DEF v4
    <3> QED
      BY <1>1, <1>5, <2>1, <3>2, ProductNotZero
  <2>3. Same(v * (a * a), 0)
    <3>1. a * a \in Int /\ 0 \in Int
      BY <1>1
    <3>2. CASE ~ NotZero(v)
      <4>1. Same(v, 0)
        BY <1>1, <3>2, SameZero
      <4>2. Same(v * (a * a), 0 * (a * a))
        BY <1>1, <3>1, <4>1, SameProduct, SameItself
      <4>3. 0 * (a * a) = 0
        BY <3>1
      <4> QED
        BY <4>2, <4>3
    <3>3. CASE ~ NotZero(a)
      <4>1. Same(a, 0)
        BY <1>1, <3>3, SameZero
      <4>2. Same(a * a, a * 0)
        BY <1>1, <3>1, <4>1, SameProduct, SameItself
      <4>3. a * 0 = 0 /\ v * 0 = 0
        BY <1>1
      <4>4. Same(a * a, 0)
        BY <4>2, <4>3
      <4>5. Same(v * (a * a), v * 0)
        BY <1>1, <3>1, <4>4, SameProduct, SameItself
      <4> QED
        BY <4>3, <4>5
    <3> QED
      BY <2>2, <3>2, <3>3
  <2>4. Same(u, 0)
    BY <1>2, <2>3, SameThrough
  <2>5. Same(u * k, 0 * k)
    <3>1. 0 \in Int
      OBVIOUS
    <3> HIDE DEF k
    <3> QED
      BY <1>1, <1>11, <2>4, <3>1, SameProduct, SameItself
  <2>6. 0 * k = 0
    <3> HIDE DEF k
    <3> QED
      BY <1>11
  <2>7. Same(DecodeVxx(y), u)
    BY <1>3, <2>4, <2>5, <2>6, SameTurned, SameThrough
  <2> QED
    BY <2>7 DEF u
<1>13. CASE g # 0
  <2>1. h \in Int /\ Same(h * h, 1)
    BY <1>8, <1>13, RootOfOne
  <2>2. Same(h, 1) \/ Same(h, -1)
    <3> HIDE DEF h
    <3> QED
      BY <2>1, OneOrMinusOne
  <2>3. G \in Int /\ Same(Q, G * G)
    <3>1. E8 \in Nat
      BY PrimeIs
    <3>2. G \in Int
      BY <1>8, <3>1, FePowerFe
    <3>3. Same(FePower(t, E8), G * G)
      BY <1>4, <1>8, <1>10, <3>1, FePowerSquare
    <3> QED
      BY <3>2, <3>3 DEF Q
  <2>4. Same(k, h)
    <3> HIDE DEF G
    <3>1. G * G \in Int
      BY <2>3
    <3> DEFINE q == G * G
    <3> HIDE DEF q
    <3>2. q \in Int /\ Same(Q, q)
      BY <2>3, <3>1 DEF q
    <3>3. Same(Q * Q, q * q) /\ Q * Q \in Int /\ q * q \in Int
      <4>1. Q * Q \in Int /\ q * q \in Int
        BY <1>3, <3>2
      <4> QED
        BY <1>3, <3>2, <4>1, SameProduct
    <3>4. g * g \in Int
      BY <1>8
    <3>5. Same((Q * Q) * t, (q * q) * (g * g))
      BY <1>4, <1>10, <3>3, <3>4, SameProduct
    <3> QED
      BY <3>5 DEF q
  <2> HIDE DEF k, h
  <2>5. Same(u * k, u * h)
    BY <1>1, <1>11, <2>1, <2>4, SameProduct, SameItself
  <2>6. CASE Same(h, 1)
    <3>1. Same(u * h, u * 1)
      <4>1. 1 \in Int
        OBVIOUS
      <4> QED
        BY <1>1, <2>1, <2>6, <4>1, SameProduct, SameItself
    <3>2. u * 1 = u
      BY <1>1
    <3>3. Same(DecodeVxx(y), u)
      BY <1>3, <2>5, <3>1, <3>2, SameThrough DEF k
    <3> QED
      BY <3>3 DEF u
  <2>7. CASE Same(h, -1)
    <3>1. Same(u * h, u * (-1))
      <4>1. -1 \in Int
        OBVIOUS
      <4> QED
        BY <1>1, <2>1, <2>7, <4>1, SameProduct, SameItself
    <3>2. u * (-1) = -u
      BY <1>1
    <3>3. Same(DecodeVxx(y), -u)
      BY <1>3, <2>5, <3>1, <3>2, SameThrough DEF k
    <3> QED
      BY <3>3 DEF u
  <2> QED
    BY <2>2, <2>6, <2>7
<1> QED
  BY <1>12, <1>13
LEMMA ValidIs ==
  ASSUME NEW y \in Fe, NEW s
  PROVE  FromBytesNegate([y |-> y, sign |-> s]).valid
           <=> (Same(DecodeVxx(y), DecodeU(y)) \/ Same(DecodeVxx(y), -DecodeU(y)))
<1> DEFINE u == DecodeU(y)
           n == DecodeVxx(y)
<1>1. FromBytesNegate([y |-> y, sign |-> s]).valid <=> n = u \/ n = FeNeg(u)
  BY DEF FromBytesNegate, DecodeVxx, DecodeU, DecodeRoot, DecodeV, DecodeV3, DecodeT
<1>2. u \in Fe /\ n \in Fe /\ u \in Int
  BY DecodeParts, RootIs, FeInt
<1> HIDE DEF u, n
<1>3. FeNeg(u) \in Fe /\ Same(FeNeg(u), -u)
  BY <1>2, FeTypes, FeNegOf, SameItself
<1>4. n = u <=> Same(n, u)
  BY <1>2, FeEqual, SameItself
<1>5. n = FeNeg(u) <=> Same(n, -u)
  <2>1. ASSUME n = FeNeg(u) PROVE Same(n, -u)
    BY <1>3, <2>1
  <2>2. ASSUME Same(n, -u) PROVE n = FeNeg(u)
    <3>1. Same(n, FeNeg(u))
      BY <1>3, <2>2, SameTurned, SameThrough
    <3> QED
      BY <1>2, <1>3, <3>1, FeEqual
  <2> QED
    BY <2>1, <2>2
<1> QED
  BY <1>1, <1>4, <1>5 DEF u, n

LEMMA RootOfMinusOne == SqrtM1 \in Fe /\ SqrtM1 \in Int /\ Same(SqrtM1 * SqrtM1, -1)
<1>1. SqrtM1 \in Fe /\ SqrtM1 \in Int /\ FeSq(SqrtM1) = P - 1
  BY CurveAssumption, MultNumbers, FeInt DEF Fe
<1>2. Same(FeSq(SqrtM1), SqrtM1 * SqrtM1)
  BY <1>1, FeSqOf, SameItself
<1>3. Same(P - 1, -1)
  <2>1. (-1 + P * 1) % P = -1 % P
    BY MultNumbers, ModShift
  <2>2. -1 + P * 1 = P - 1
    BY MultNumbers
  <2> QED
    BY <2>1, <2>2 DEF Same
<1>4. Same(SqrtM1 * SqrtM1, -1)
  BY <1>1, <1>2, <1>3, SameTurned, SameThrough
<1> QED
  BY <1>1, <1>4

(* A y that is accepted is decoded to an x with v x^2 = u. *)
LEMMA DecodedX ==
  ASSUME NEW y \in Fe, Same(DecodeVxx(y), DecodeU(y)) \/ Same(DecodeVxx(y), -DecodeU(y))
  PROVE  DecodeX(y) \in Fe /\ Same(VOf(y) * (DecodeX(y) * DecodeX(y)), UOf(y))
<1> DEFINE u == DecodeU(y)
           v == DecodeV(y)
           n == DecodeVxx(y)
           r == DecodeRoot(y)
           x == DecodeX(y)
           S == SqrtM1
<1>1. /\ u \in Fe /\ v \in Fe /\ VOf(y) \in Int /\ UOf(y) \in Int
      /\ Same(u, UOf(y)) /\ Same(v, VOf(y))
  BY DecodeParts
<1>2. n \in Fe /\ r \in Fe /\ Same(n, v * (r * r))
  BY RootIs
<1>3. u \in Int /\ v \in Int /\ n \in Int /\ r \in Int
  BY <1>1, <1>2, FeInt
<1>4. x = IF n = u THEN r ELSE FeMul(r, S)
  BY DEF DecodeX
<1>5. S \in Int /\ Same(S * S, -1)
  BY RootOfMinusOne
<1>6. Same(n, u) \/ Same(n, -u)
  OBVIOUS
<1> HIDE DEF u, v, n, r, x, S
<1>7. x \in Fe
  BY <1>2, <1>3, <1>4, <1>5, FeTypes
<1>8. x \in Int
  BY <1>7, FeInt
<1>9. Same(v * (x * x), u)
  <2>1. CASE n = u
    BY <1>2, <1>4, <2>1, SameTurned
  <2>2. CASE n # u
    <3>1. Same(n, -u)
      BY <1>1, <1>2, <1>6, <2>2, FeEqual
    <3>2. x = FeMul(r, S)
      BY <1>4, <2>2
    <3>3. Same(x, r * S) /\ r * S \in Int
      BY <1>3, <1>5, <3>2, FeMulIs, SameItself
    <3>4. Same(x * x, (r * S) * (r * S))
      BY <1>8, <3>3, SameProduct
    <3>5. (r * S) * (r * S) = (r * r) * (S * S)
      BY <1>3, <1>5
    <3>6. x * x \in Int /\ r * r \in Int /\ S * S \in Int /\ -1 \in Int /\ -u \in Int
      BY <1>3, <1>5, <1>8
    <3> DEFINE q == r * r
               w == S * S
               xx == x * x
    <3>7. Same(xx, q * w) /\ q \in Int /\ w \in Int /\ Same(w, -1) /\ Same(n, v * q) /\ xx \in Int
      BY <1>2, <1>5, <3>4, <3>5, <3>6
    <3> HIDE DEF q, w, xx
    <3>8. q * w \in Int /\ v * q \in Int
      BY <1>3, <3>7
    <3>9. Same(v * xx, v * (q * w))
      BY <1>3, <3>7, <3>8, SameProduct, SameItself
    <3>10. v * (q * w) = (v * q) * w
      BY <1>3, <3>7
    <3>11. Same(v * q, -u)
      BY <3>1, <3>7, SameTurned, SameThrough
    <3>12. Same((v * q) * w, (-u) * (-1))
      BY <3>6, <3>7, <3>8, <3>11, SameProduct
    <3>13. (-u) * (-1) = u
      BY <1>3
    <3>14. Same(v * xx, u)
      BY <3>9, <3>10, <3>12, <3>13, SameThrough
    <3> QED
      BY <3>14 DEF xx
  <2> QED
    BY <2>1, <2>2
<1>10. Same(VOf(y) * (x * x), v * (x * x))
  <2>1. x * x \in Int
    BY <1>8
  <2>2. Same(VOf(y), v)
    BY <1>1, SameTurned
  <2> QED
    BY <1>1, <1>3, <2>1, <2>2, SameProduct, SameItself
<1>11. Same(VOf(y) * (x * x), UOf(y))
  BY <1>1, <1>9, <1>10, SameThrough
<1> QED
  BY <1>7, <1>11 DEF x

(* The curve equation, solved for x^2. *)
LEMMA CurveSolved ==
  ASSUME NEW q \in Coordinates
  PROVE  q \in Curve <=> Same(VOf(q.y) * (q.x * q.x), UOf(q.y))
<1> DEFINE xx == q.x * q.x
           yy == q.y * q.y
           k  == D * (xx * yy)
<1>1. q.x \in Int /\ q.y \in Int /\ D \in Int
  BY FeInt, MultNumbers DEF Coordinates
<1>2. xx \in Int /\ yy \in Int
  BY <1>1
<1>3. q \in Curve <=> Same(yy - xx, 1 + k)
  BY CurveEquation
<1>4. VOf(q.y) * (q.x * q.x) = (D * yy + 1) * xx /\ UOf(q.y) = yy - 1
  BY DEF VOf, UOf
<1> HIDE DEF xx, yy
<1>5. k \in Int
  <2>1. xx * yy \in Int
    BY <1>2
  <2> QED
    BY <1>1, <2>1
<1>6. (D * yy + 1) * xx = k + xx
  BY <1>1, <1>2
<1> HIDE DEF k
<1>7. /\ yy - xx \in Int /\ 1 + k \in Int /\ xx - 1 \in Int /\ k + xx \in Int /\ yy - 1 \in Int
      /\ 1 - xx \in Int
      /\ (yy - xx) + (xx - 1) = yy - 1 /\ (1 + k) + (xx - 1) = k + xx
      /\ (k + xx) + (1 - xx) = 1 + k /\ (yy - 1) + (1 - xx) = yy - xx
  BY <1>2, <1>5
<1>8. ASSUME Same(yy - xx, 1 + k) PROVE Same(k + xx, yy - 1)
  <2>1. Same((yy - xx) + (xx - 1), (1 + k) + (xx - 1))
    BY <1>7, <1>8, SameSum, SameItself
  <2> QED
    BY <1>7, <2>1, SameTurned
<1>9. ASSUME Same(k + xx, yy - 1) PROVE Same(yy - xx, 1 + k)
  <2>1. Same((k + xx) + (1 - xx), (yy - 1) + (1 - xx))
    BY <1>7, <1>9, SameSum, SameItself
  <2> QED
    BY <1>7, <2>1, SameTurned
<1> QED
  BY <1>3, <1>4, <1>6, <1>8, <1>9

(* D is not a square, -1 is one: v is never 0. *)
LEMMA VNotZero ==
  ASSUME NEW q \in Curve
  PROVE  NotZero(VOf(q.y))
<1> SUFFICES ASSUME ~ NotZero(VOf(q.y)) PROVE FALSE
  OBVIOUS
<1> DEFINE v == VOf(q.y)
           xx == q.x * q.x
           yy == q.y * q.y
<1>1. q \in Coordinates
  BY CurveIs
<1>2. q.x \in Int /\ q.y \in Int /\ D \in Int /\ v \in Int
  BY <1>1, FeInt, MultNumbers, DecodeParts DEF Coordinates
<1>3. xx \in Int /\ yy \in Int /\ 0 \in Int /\ 1 \in Int
  BY <1>2
<1>4. Same(v * xx, yy - 1)
  BY <1>1, CurveSolved DEF UOf
<1>5. v = D * yy + 1
  BY DEF VOf
<1>6. Same(v, 0)
  BY <1>2, SameZero
<1> HIDE DEF v, xx, yy
<1>7. Same(v * xx, 0)
  <2>1. Same(v * xx, 0 * xx)
    BY <1>2, <1>3, <1>6, SameProduct, SameItself
  <2>2. 0 * xx = 0
    BY <1>3
  <2> QED
    BY <2>1, <2>2
<1>8. Same(yy - 1, 0)
  BY <1>4, <1>7, SameTurned, SameThrough
<1>9. Same(yy, 1)
  <2>1. yy - 1 \in Int /\ (yy - 1) + 1 = yy /\ 0 + 1 = 1
    BY <1>3
  <2>2. Same((yy - 1) + 1, 0 + 1)
    BY <1>3, <1>8, <2>1, SameSum, SameItself
  <2> QED
    BY <2>1, <2>2
<1>10. Same(D * yy + 1, D + 1)
  <2>0. Same(D * yy, D * 1)
    BY <1>2, <1>3, <1>9, SameProduct, SameItself
  <2>1. Same(D * yy, D)
    <3>1. D * 1 = D
      BY <1>2
    <3> QED
      BY <2>0, <3>1
  <2>2. D * yy \in Int
    BY <1>2, <1>3
  <2> QED
    BY <1>2, <1>3, <2>1, <2>2, SameSum, SameItself
<1>11. Same(D + 1, 0)
  BY <1>5, <1>6, <1>10, SameTurned, SameThrough
<1>12. Same(D, -1)
  <2>1. D + 1 \in Int /\ -1 \in Int /\ (D + 1) + (-1) = D /\ 0 + (-1) = -1
    BY <1>2
  <2>2. Same((D + 1) + (-1), 0 + (-1))
    BY <1>3, <1>11, <2>1, SameSum, SameItself
  <2> QED
    BY <2>1, <2>2
<1>13. Same(FeSq(SqrtM1), -1) /\ FeSq(SqrtM1) \in Fe
  <2>1. SqrtM1 \in Int /\ Same(SqrtM1 * SqrtM1, -1)
    BY RootOfMinusOne
  <2>2. Same(FeSq(SqrtM1), SqrtM1 * SqrtM1) /\ FeSq(SqrtM1) \in Fe
    BY <2>1, FeSqOf, SameItself
  <2> QED
    BY <2>1, <2>2, SameThrough
<1>14. Same(D, FeSq(SqrtM1))
  BY <1>12, <1>13, SameTurned, SameThrough
<1>15. D = FeSq(SqrtM1)
  BY <1>13, <1>14, MultNumbers, FeEqual DEF Fe
<1> QED
  BY <1>15, CurveAssumption

LEMMA SquaresAlike ==
  ASSUME NEW x \in Fe, NEW a \in Fe, Same(x * x, a * a)
  PROVE  x = a \/ x = FeNeg(a)
<1>1. x \in Int /\ a \in Int
  BY FeInt
<1>2. x - a \in Int /\ x + a \in Int /\ x * x \in Int /\ a * a \in Int /\ -a \in Int /\ 0 \in Int
  BY <1>1
<1>3. (x - a) * (x + a) = x * x - a * a /\ a * a - a * a = 0
  BY <1>1
<1>4. Same(x * x - a * a, a * a - a * a)
  BY <1>2, SameDifference, SameItself
<1>5. (x - a) * (x + a) \in Int
  BY <1>2
<1>6. ~ NotZero((x - a) * (x + a))
  BY <1>3, <1>4, <1>5, SameZero
<1>7. ~ NotZero(x - a) \/ ~ NotZero(x + a)
  BY <1>2, <1>6, ProductNotZero
<1>8. CASE ~ NotZero(x - a)
  <2>1. Same(x - a, 0)
    BY <1>2, <1>8, SameZero
  <2>2. Same((x - a) + a, 0 + a)
    BY <1>1, <1>2, <2>1, SameSum, SameItself
  <2>3. (x - a) + a = x /\ 0 + a = a
    BY <1>1
  <2> QED
    BY <2>2, <2>3, FeEqual
<1>9. CASE ~ NotZero(x + a)
  <2>1. Same(x + a, 0)
    BY <1>2, <1>9, SameZero
  <2>2. Same((x + a) + (-a), 0 + (-a))
    BY <1>2, <2>1, SameSum, SameItself
  <2>3. (x + a) + (-a) = x /\ 0 + (-a) = -a
    BY <1>1
  <2>4. FeNeg(a) \in Fe /\ Same(FeNeg(a), -a)
    BY <1>1, FeTypes, FeNegOf, SameItself
  <2>5. Same(x, FeNeg(a))
    BY <2>2, <2>3, <2>4, SameTurned, SameThrough
  <2> QED
    BY <2>4, <2>5, FeEqual
<1> QED
  BY <1>7, <1>8, <1>9

(* An element and its negative differ in the sign bit, but for 0. *)
LEMMA SignOfNegative ==
  ASSUME NEW a \in Fe
  PROVE  /\ FeNeg(FeNeg(a)) = a
         /\ a = 0 => FeNeg(a) = 0
         /\ a # 0 => FeIsNegative(FeNeg(a)) # FeIsNegative(a)
<1>1. a \in Int /\ P \in Nat \ {0} /\ P = 8 * E8 + 5 /\ E8 \in Nat
  BY FeInt, MultNumbers, PrimeIs
<1>2. ASSUME a = 0 PROVE FeNeg(a) = 0
  <2>1. -a = 0
    <3>1. 0 - a = -a
      BY <1>1
    <3>2. 0 - a = 0
      BY <1>1, <1>2
    <3> QED
      BY <3>1, <3>2
  <2>2. 0 % P = 0
    BY <1>1
  <2> QED
    BY <2>1, <2>2 DEF FeNeg
<1>3. ASSUME NEW b \in Fe, b # 0 PROVE FeNeg(b) = P - b /\ P - b \in Fe /\ P - b # 0
  <2>1. b \in 1..P-1 /\ P - b \in 0..P-1 /\ P - b # 0
    BY <1>1, <1>3 DEF Fe
  <2>2. (P * (-1) + (P - b)) % P = P - b
    BY <1>1, <2>1, ModUnique
  <2>3. P * (-1) + (P - b) = -b
    BY <1>1, <2>1
  <2> QED
    BY <2>1, <2>2, <2>3 DEF FeNeg, Fe
<1>4. CASE a # 0
  <2>1. FeNeg(a) = P - a /\ FeNeg(P - a) = P - (P - a)
    BY <1>3, <1>4
  <2>2. P - (P - a) = a
    BY <1>1
  <2>3. (P - a) % 2 # a % 2
    <3>1. (P % 2) = 1
      BY <1>1
    <3>2. P \in Int
      BY <1>1
    <3> QED
      BY <1>1, <3>1, <3>2
  <2> QED
    BY <1>4, <2>1, <2>2, <2>3 DEF FeIsNegative
<1>5. CASE a = 0
  BY <1>2, <1>5
<1> QED
  BY <1>2, <1>4, <1>5

(* ge_frombytes_negate_vartime on the bytes of a point. *)
LEMMA DecodeNegates ==
  ASSUME NEW q \in Curve
  PROVE  LET f == FromBytesNegate([y |-> q.y, sign |-> FeIsNegative(q.x)])
         IN /\ f.valid
            /\ f.point = [X |-> FeNeg(q.x), Y |-> q.y, Z |-> 1, T |-> FeMul(FeNeg(q.x), q.y)]
<1> DEFINE y == q.y
           a == q.x
           s == FeIsNegative(a)
           x == DecodeX(y)
           f == FromBytesNegate([y |-> y, sign |-> s])
           negx == IF FeIsNegative(x) = s THEN FeNeg(x) ELSE x
<1>1. q \in Coordinates /\ y \in Fe /\ a \in Fe
  BY CurveIs DEF Coordinates
<1>2. Same(VOf(y) * (a * a), UOf(y))
  BY <1>1, CurveSolved
<1>3. Same(UOf(y), VOf(y) * (a * a))
  BY <1>2, SameTurned
<1>4. Same(DecodeVxx(y), DecodeU(y)) \/ Same(DecodeVxx(y), -DecodeU(y))
  <2> HIDE DEF y, a
  <2> QED
    BY <1>1, <1>3, RootFound
<1>5. f.valid
  <2> HIDE DEF y, a, s
  <2> QED
    BY <1>1, <1>4, ValidIs
<1>6. x \in Fe /\ Same(VOf(y) * (x * x), UOf(y))
  <2> HIDE DEF y, a
  <2> QED
    BY <1>1, <1>4, DecodedX
<1>7. Same(x * x, a * a)
  <2>1. NotZero(VOf(y)) /\ VOf(y) \in Int
    BY <1>1, VNotZero, DecodeParts
  <2>2. x \in Int /\ a \in Int
    BY <1>1, <1>6, FeInt
  <2> HIDE DEF x, a, y
  <2>3. x * x \in Int /\ a * a \in Int
    BY <2>2
  <2>4. Same(VOf(y) * (x * x), VOf(y) * (a * a))
    BY <1>3, <1>6, SameThrough
  <2> QED
    BY <2>1, <2>3, <2>4, Cancelled
<1>8. x = a \/ x = FeNeg(a)
  <2> HIDE DEF x, a, y
  <2> QED
    BY <1>1, <1>6, <1>7, SquaresAlike
<1>9. negx = FeNeg(a)
  <2> HIDE DEF x, a
  <2> QED
    BY <1>1, <1>8, SignOfNegative
<1>10. f.point = [X |-> negx, Y |-> y, Z |-> 1, T |-> FeMul(negx, y)]
  BY DEF FromBytesNegate, DecodeX, DecodeVxx, DecodeU, DecodeRoot, DecodeV, DecodeV3, DecodeT
<1> QED
  BY <1>5, <1>9, <1>10

(* It refuses the y that no point of the curve has. *)
LEMMA OnlyPoints == OnlyPointsDecode
<1> SUFFICES ASSUME NEW y \in Fe, NEW s \in 0..1
             PROVE  FromBytesNegate([y |-> y, sign |-> s]).valid <=> \E q \in Curve : q.y = y
  BY DEF OnlyPointsDecode, Fe
<1>1. ASSUME FromBytesNegate([y |-> y, sign |-> s]).valid PROVE \E q \in Curve : q.y = y
  <2> DEFINE q == Affine(DecodeX(y), y)
  <2>1. Same(DecodeVxx(y), DecodeU(y)) \/ Same(DecodeVxx(y), -DecodeU(y))
    BY <1>1, ValidIs
  <2>2. DecodeX(y) \in Fe /\ Same(VOf(y) * (DecodeX(y) * DecodeX(y)), UOf(y))
    BY <2>1, DecodedX
  <2>3. q \in Coordinates /\ q.x = DecodeX(y) /\ q.y = y
    BY <2>2 DEF Affine, Coordinates
  <2> HIDE DEF q
  <2>4. q \in Curve
    BY <2>2, <2>3, CurveSolved
  <2> QED
    BY <2>3, <2>4
<1>2. ASSUME NEW q \in Curve, q.y = y PROVE FromBytesNegate([y |-> y, sign |-> s]).valid
  <2>1. q \in Coordinates /\ q.x \in Fe
    BY CurveIs DEF Coordinates
  <2>2. Same(UOf(y), VOf(y) * (q.x * q.x))
    BY <1>2, <2>1, CurveSolved, SameTurned
  <2> QED
    BY <2>1, <2>2, RootFound, ValidIs
<1> QED
  BY <1>1, <1>2

(* ge_p3_tobytes. *)
LEMMA ToBytesIs ==
  ASSUME NEW p \in Point3, NEW q \in Coordinates, Represents(p, q)
  PROVE  ToBytes(p) = [y |-> q.y, sign |-> FeIsNegative(q.x)]
<1> DEFINE v == FeInvert[p.Z]
<1>1. /\ p.Z \in Fe /\ p.Z \in Int /\ p.X \in Int /\ p.Y \in Int
      /\ q.x \in Int /\ q.y \in Int /\ q.x \in Fe /\ q.y \in Fe
  BY FeInt DEF Coordinates, Point3
<1>2. NotZero(p.Z) /\ Same(p.X, q.x * p.Z) /\ Same(p.Y, q.y * p.Z)
  BY RepresentsMeans
<1>3. p.Z # 0
  BY <1>1, <1>2, NotZeroFe
<1>4. ASSUME NEW n \in Int, NEW a \in Fe, Same(n, a * p.Z) PROVE FeMul(n, v) = a
  <2>1. FeMul(n, v) \in Fe /\ Same(FeMul(n, v) * p.Z, n)
    BY <1>1, <1>3, QuotientMeans, SameItself
  <2> DEFINE u == FeMul(n, v)
             Z == p.Z
  <2>2. u \in Int /\ a \in Int /\ Z \in Int
    BY <1>1, <2>1, FeInt
  <2>3. Same(u * Z, a * Z)
    BY <1>4, <2>1, SameThrough
  <2> HIDE DEF u
  <2>4. u * Z = Z * u /\ a * Z = Z * a
    BY <2>2
  <2>5. Same(u, a)
    BY <1>2, <2>2, <2>3, <2>4, Cancelled
  <2> QED
    BY <2>1, <2>5, FeEqual DEF u
<1>5. FeMul(p.Y, v) = q.y /\ FeMul(p.X, v) = q.x
  BY <1>1, <1>2, <1>4
<1> QED
  BY <1>5 DEF ToBytes
LEMMA GroupLawHolds ==
  ASSUME MultInv, DigitsKeepValue, PointInv
  PROVE  GroupLaw
<1> SUFFICES ASSUME step = "done" PROVE GroupLaw
  BY DEF GroupLaw
<1> DEFINE v == ValueOf(scalar)
           n == TimesBase(v)
<1>1. v \in Int
  <2>1. SumOf(digit, 0..Digits-1) \in Int /\ carry \in Int /\ Power16[index] \in Int
    BY DigitsAreInt, SumOfInt, Power16Is DEF MultInv, MultTypeOK
  <2>2. SumOf(digit, 0..Digits-1) + carry * Power16[index] = v
    BY DEF DigitsKeepValue
  <2> HIDE DEF v
  <2> QED
    BY <2>1, <2>2
<1>2. n \in Curve /\ n \in Coordinates
  BY <1>1, PlusPoint
<1>3. point \in Point3 /\ Represents(point, n)
  BY P3Is DEF PointInv, MultInv, MultTypeOK, Point3
<1> HIDE DEF v, n
<1>4. ASSUME NEW q \in Curve
      PROVE  /\ Represents(ToP3(GeAdd(point, ToCached(Scaled(q)))), Plus(n, q))
             /\ Represents(ToP3(GeSub(point, ToCached(Scaled(q)))), Plus(n, Minus(q)))
             /\ Represents(ToP3(GeMSub(point, Precomp(q))), Plus(n, Minus(q)))
  <2> DEFINE c == ToCached(Scaled(q))
  <2>1. c \in CachedPoint /\ IsCached(c, q)
    BY ScaledRepresents, ToCachedIs
  <2> HIDE DEF c
  <2>2. /\ GeAdd(point, c) \in Point3 /\ Completes(GeAdd(point, c), Plus(n, q))
        /\ GeSub(point, c) \in Point3 /\ Completes(GeSub(point, c), Plus(n, Minus(q)))
    BY <1>2, <1>3, <2>1, GeAddPlus
  <2>3. GeMSub(point, Precomp(q)) \in Point3 /\ Completes(GeMSub(point, Precomp(q)), Plus(n, Minus(q)))
    BY <1>2, <1>3, GeMAddPlus
  <2>4. Plus(n, q) \in Coordinates /\ Plus(n, Minus(q)) \in Coordinates
    BY <1>2, MinusIs, PlusClosed, CurveIs
  <2> QED
    BY <2>2, <2>3, <2>4, ToP3Represents DEF c
<1>5. /\ FromBytesNegate(ToBytes(point)).valid
      /\ FromBytesNegate(ToBytes(point)).point
           = [X |-> FeNeg(n.x), Y |-> n.y, Z |-> 1, T |-> FeMul(FeNeg(n.x), n.y)]
  <2>1. ToBytes(point) = [y |-> n.y, sign |-> FeIsNegative(n.x)]
    BY <1>2, <1>3, ToBytesIs
  <2> QED
    BY <1>2, <2>1, DecodeNegates
<1>6. Represents(FromBytesNegate(ToBytes(point)).point, Minus(n))
  <2> DEFINE x == FeNeg(n.x)
             y == n.y
  <2>1. Minus(n).x = x /\ Minus(n).y = y
    BY <1>2, MinusIs
  <2>2. x \in Fe /\ y \in Fe /\ x \in Int /\ y \in Int
    <3>1. n.x \in Int /\ y \in Fe
      BY <1>2, FeInt DEF Coordinates
    <3> QED
      BY <3>1, FeTypes, FeInt
  <2> HIDE DEF x, y
  <2>3. ASSUME NEW f \in Fe PROVE FeMul(f, 1) = f /\ FeMul(1, f) = f
    <3>1. f \in Int /\ f * 1 = f /\ 1 * f = f
      BY FeInt
    <3>2. f % P \in Fe /\ Same(f % P, f)
      BY <3>1, SameReduced
    <3>3. f % P = f
      BY <3>2, FeEqual
    <3> QED
      BY <3>1, <3>3 DEF FeMul
  <2>4. FeMul(x, y) \in Fe
    BY <2>2, FeTypes
  <2>5. FromBytesNegate(ToBytes(point)).point = [X |-> x, Y |-> y, Z |-> 1, T |-> FeMul(x, y)]
    BY <1>5 DEF x, y
  <2> DEFINE p == FromBytesNegate(ToBytes(point)).point
             m == Minus(n)
  <2>6. p.X = x /\ p.Y = y /\ p.Z = 1 /\ p.T = FeMul(x, y) /\ m.x = x /\ m.y = y
    BY <2>1, <2>5
  <2> HIDE DEF p, m
  <2>7. FeMul(m.x, p.Z) = p.X /\ FeMul(m.y, p.Z) = p.Y /\ FeMul(p.Z, p.T) = p.T
    BY <2>2, <2>3, <2>4, <2>6
  <2>8. StandsFor(p, m)
    BY <2>6, <2>7 DEF StandsFor
  <2>9. Represents(p, m)
    BY <2>6, <2>7, <2>8 DEF Represents
  <2> QED
    BY <2>9 DEF p, m
<1> QED
  BY <1>4, <1>5, <1>6, OnlyPoints DEF GroupLaw, n, v

(* The addition law is complete and the encoding of a point is read back:  *)
(* ge_add, ge_sub and ge_msub on every point of the curve, equal, opposite *)
(* or neutral ones included, and ge_frombytes_negate_vartime on the bytes  *)
(* of any point; bytes are refused exactly when no point has that y        *)
(* (ge.c:9-22, 137-181, 207-220, 321-330, 441-455).                        *)
THEOREM GroupLawAlways == MultSpec => []GroupLaw
<1> DEFINE I == MultInv /\ DigitsKeepValue /\ PointInv
<1>1. MultInit => I
  BY MultStart, ValueStart, PointStart
<1>2. I /\ [MultNext]_multVars => I'
  BY MultInvStep, ValueStep, PointStep
<1>3. I => GroupLaw
  BY GroupLawHolds
<1> QED
  BY <1>1, <1>2, <1>3, PTL DEF MultSpec

-----------------------------------------------------------------------------
(***************************************************************************)
(* DoubleMult.                                                             *)
(***************************************************************************)

LEMMA BitNumbers == Bits \in Nat /\ Bits = 8 * Bytes /\ Bits >= 8 /\ Bits - 1 \in Nat
  BY MultNumbers DEF Bits

LEMMA TwoIs ==
  /\ Two[0] = 1 /\ Two[1] = 2 /\ Two[2] = 4 /\ Two[3] = 8 /\ Two[4] = 16
  /\ Two[5] = 32 /\ Two[6] = 64 /\ Two[7] = 128
  BY DEF Two

LEMMA TwoNext == \A n \in 0..6 : Two[n] \in Nat \ {0} /\ Two[n + 1] = 2 * Two[n]
  BY TwoIs

LEMMA TwoInt == \A n \in 0..7 : Two[n] \in Nat \ {0}
  BY TwoIs

-----------------------------------------------------------------------------
(* The number that digits stand for, from each of them up.                 *)

BitFunctions == [BitPlaces -> Int]

LEMMA FromExists ==
  ASSUME NEW r \in BitFunctions
  PROVE  \E f \in [0..Bits -> Int] :
           f[Bits] = 0 /\ \A j \in 0..Bits-1 : f[j] = f[j + 1] * 2 + r[j]
<1> DEFINE G == [k \in 1..Bits |-> [v \in Int |-> v * 2 + r[Bits - k]]]
<1>0. Bits \in Nat
  BY BitNumbers
<1>1. \A j \in 0..Bits-1 : r[j] \in Int
  BY DEF BitFunctions, BitPlaces
<1>2. G \in Steps(Bits, Int)
  <2>1. ASSUME NEW k \in 1..Bits, NEW v \in Int PROVE v * 2 + r[Bits - k] \in Int
    <3>1. Bits - k \in 0..Bits-1
      BY <1>0
    <3> QED
      BY <1>1, <3>1
  <2> QED
    BY <2>1 DEF Steps
<1>3. \A k \in 1..Bits : \A v \in Int : G[k][v] = v * 2 + r[Bits - k]
  OBVIOUS
<1> HIDE DEF G
<1>4. PICK g \in [0..Bits -> Int] : IsIterated(g, Bits, 0, G)
  <2>1. 0 \in Int
    OBVIOUS
  <2> QED
    BY <1>0, <1>2, <2>1, RecursionExists, Zenon
<1> DEFINE f == [j \in 0..Bits |-> g[Bits - j]]
<1>5. f \in [0..Bits -> Int]
  <2>1. \A j \in 0..Bits : Bits - j \in 0..Bits
    BY <1>0
  <2> QED
    BY <2>1
<1>6. f[Bits] = 0
  <2>1. Bits \in 0..Bits /\ Bits - Bits = 0
    BY <1>0
  <2> QED
    BY <1>4, <2>1 DEF IsIterated
<1>7. ASSUME NEW j \in 0..Bits-1 PROVE f[j] = f[j + 1] * 2 + r[j]
  <2>1. /\ Bits - j \in 1..Bits /\ (Bits - j) - 1 = Bits - (j + 1) /\ Bits - (Bits - j) = j
        /\ j \in 0..Bits /\ j + 1 \in 0..Bits /\ Bits - (j + 1) \in 0..Bits
    BY <1>0
  <2>2. g[Bits - j] = G[Bits - j][g[(Bits - j) - 1]]
    BY <1>4, <2>1 DEF IsIterated
  <2>3. g[Bits - (j + 1)] \in Int
    BY <2>1
  <2>4. G[Bits - j][g[Bits - (j + 1)]] = g[Bits - (j + 1)] * 2 + r[Bits - (Bits - j)]
    BY <1>3, <2>1, <2>3
  <2>5. f[j] = g[Bits - j] /\ f[j + 1] = g[Bits - (j + 1)]
    BY <2>1
  <2> HIDE DEF f
  <2> QED
    BY <2>1, <2>2, <2>4, <2>5
<1> HIDE DEF f
<1> QED
  BY <1>5, <1>6, <1>7

LEMMA FromIs ==
  ASSUME NEW r \in BitFunctions
  PROVE  /\ From(r, Bits) = 0
         /\ \A k \in 0..Bits : From(r, k) \in Int
         /\ \A k \in 0..Bits-1 : From(r, k) = From(r, k + 1) * 2 + r[k]
<1>0. Bits \in Nat
  BY BitNumbers
<1>1. PICK f \in [0..Bits -> Int] :
        f[Bits] = 0 /\ \A j \in 0..Bits-1 : f[j] = f[j + 1] * 2 + r[j]
  BY FromExists
<1>2. ASSUME NEW k \in 0..Bits PROVE From(r, k) = f[k]
  <2> DEFINE body(g) == [j \in k..Bits |-> IF j = Bits THEN 0 ELSE g[j + 1] * 2 + r[j]]
             h == CHOOSE g : g = body(g)
  <2>1. \E g : g = body(g)
    <3> DEFINE e == [j \in k..Bits |-> f[j]]
    <3>1. ASSUME NEW j \in k..Bits PROVE e[j] = IF j = Bits THEN 0 ELSE e[j + 1] * 2 + r[j]
      <4>1. CASE j = Bits
        BY <1>1, <4>1
      <4>2. CASE j # Bits
        <5>1. j \in 0..Bits-1 /\ j + 1 \in k..Bits
          BY <1>0, <4>2
        <5>2. f[j] = f[j + 1] * 2 + r[j]
          BY <1>1, <5>1
        <5> QED
          BY <4>2, <5>1, <5>2
      <4> QED
        BY <4>1, <4>2
    <3>2. e = body(e)
      BY <3>1
    <3> QED
      BY <3>2
  <2>2. h = body(h)
    BY <2>1
  <2>3. From(r, k) = h[k]
    BY DEF From
  <2> HIDE DEF h
  <2>4. \A j \in k..Bits : h[j] = IF j = Bits THEN 0 ELSE h[j + 1] * 2 + r[j]
    BY <2>2, Zenon
  <2> HIDE DEF body
  <2> DEFINE T == {j \in 0..Bits : j >= k => h[j] = f[j]}
  <2>5. Bits \in T
    BY <1>0, <1>1, <2>4
  <2>6. ASSUME NEW j \in 0..Bits-1, j + 1 \in T PROVE j \in T
    <3>1. CASE j >= k
      <4>1. j \in k..Bits /\ j # Bits /\ j + 1 >= k
        BY <1>0, <3>1
      <4>2. h[j] = h[j + 1] * 2 + r[j]
        BY <2>4, <4>1
      <4>3. h[j + 1] = f[j + 1]
        BY <2>6, <4>1
      <4>4. f[j] = f[j + 1] * 2 + r[j]
        BY <1>1
      <4> QED
        BY <1>0, <4>2, <4>3, <4>4
    <3>2. CASE ~ (j >= k)
      BY <1>0, <3>2
    <3> QED
      BY <3>1, <3>2
  <2> HIDE DEF T
  <2>7. 0..Bits \subseteq T
    BY <1>0, <2>5, <2>6, InductionDown
  <2>8. k \in T /\ k >= k
    BY <2>7
  <2> QED
    BY <2>3, <2>8 DEF T
<1>3. Bits \in 0..Bits
  BY <1>0
<1>4. \A k \in 0..Bits-1 : k \in 0..Bits /\ k + 1 \in 0..Bits
  BY <1>0
<1> QED
  BY <1>1, <1>2, <1>3, <1>4

-----------------------------------------------------------------------------
(* The types of the bits and of the sum.                                   *)

Slid == [BitPlaces -> -15..15]

LEMMA BitsAre ==
  ASSUME NEW s \in [0..Bytes-1 -> 0..255]
  PROVE  /\ BitsOf(s) \in Slid /\ BitsOf(s) \in BitFunctions
         /\ \A k \in BitPlaces : BitsOf(s)[k] \in 0..1
         /\ s[Bytes-1] <= 127 => BitsOf(s)[Bits-1] = 0
<1>1. ASSUME NEW k \in BitPlaces PROVE BitsOf(s)[k] \in 0..1
  <2>1. k \div 8 \in 0..Bytes-1 /\ k % 8 \in 0..7
    BY BitNumbers, MultNumbers DEF BitPlaces
  <2> DEFINE x == s[k \div 8]
             y == Two[k % 8]
  <2>2. x \in 0..255
    BY <2>1, Zenon
  <2>3. y \in Nat \ {0}
    BY <2>1, TwoInt, Zenon
  <2> HIDE DEF x, y
  <2>5. x \div y \in Int
    BY <2>2, <2>3
  <2>4. BitsOf(s)[k] = (s[k \div 8] \div Two[k % 8]) % 2
    BY DEF BitsOf, Bit
  <2>6. BitsOf(s)[k] = (x \div y) % 2
    BY <2>4 DEF x, y
  <2> QED
    BY <2>5, <2>6
<1>2. ASSUME s[Bytes-1] <= 127 PROVE BitsOf(s)[Bits-1] = 0
  <2>1. /\ Bits - 1 \in BitPlaces /\ (Bits - 1) \div 8 = Bytes - 1 /\ (Bits - 1) % 8 = 7
        /\ Bytes - 1 \in 0..Bytes-1
    BY BitNumbers, MultNumbers DEF BitPlaces
  <2> DEFINE x == s[Bytes-1]
  <2>2. x \in 0..255
    BY <2>1, Zenon
  <2>5. x <= 127
    BY <1>2
  <2> HIDE DEF x
  <2>6. x \div 128 = 0
    BY <2>2, <2>5
  <2>3. s[Bytes-1] \div Two[7] = 0
    BY <2>6, TwoIs DEF x
  <2>4. BitsOf(s)[Bits-1] = (s[Bytes-1] \div Two[7]) % 2
    BY <2>1 DEF BitsOf, Bit
  <2> QED
    BY <2>3, <2>4
<1>3. BitsOf(s) = [k \in BitPlaces |-> BitsOf(s)[k]]
  BY DEF BitsOf
<1>4. \A k \in BitPlaces : BitsOf(s)[k] \in -15..15 /\ BitsOf(s)[k] \in Int
  BY <1>1
<1> QED
  BY <1>1, <1>2, <1>3, <1>4, Zenon DEF Slid, BitFunctions

LEMMA SlidAreInt == ASSUME NEW r \in Slid PROVE r \in BitFunctions
<1>1. \A k \in -15..15 : k \in Int
  OBVIOUS
<1> QED
  BY <1>1, Zenon DEF Slid, BitFunctions

-----------------------------------------------------------------------------
(* slide.                                                                  *)

IsDone(x) == x = 0 \/ (x % 2) = 1

AllDone(r) == \A k \in BitPlaces : IsDone(r[k])

(* Above place i there are bits; b places of them were looked at.  The     *)
(* digit stays below the bits ahead until it has four, and can become      *)
(* negative only then.                                                     *)
BitsAbove(r, i)  == \A k \in BitPlaces : k > i => r[k] \in 0..1
DoneBelow(r, i)  == \A k \in BitPlaces : k < i => IsDone(r[k])
DigitGrows(r, i, b) ==
  /\ r[i] = 0 => b = 1
  /\ r[i] # 0 => (r[i] % 2) = 1
  /\ r[i] # 0 /\ b <= 4 =>
       /\ 0 < r[i] /\ r[i] < Two[b]
       /\ \A k \in BitPlaces : i < k /\ k < i + b => r[k] = 0

(* A carry has reached the highest place only if nothing is left to carry. *)
TopHasRoom(r, i, b) ==
  r[Bits-1] # 0 =>
    /\ \A k \in BitPlaces : i < k /\ k < Bits - 1 => r[k] = 0
    /\ r[i] = 0 \/ b >= 5 \/ i = Bits - 1

InWork(r, i, b) ==
  BitsAbove(r, i) /\ DoneBelow(r, i) /\ DigitGrows(r, i, b) /\ TopHasRoom(r, i, b)

DoubleTypes ==
  /\ asked \in Sums /\ slid \in [1..2 -> Slid] /\ which \in 1..2
  /\ place \in -1..Bits-1 /\ offset \in 1..7
  /\ sum \in Point2 /\ phase \in {"slide", "top", "add", "done"}

SlideInv ==
  /\ DoubleTypes
  /\ phase = "slide" => /\ place >= 0 /\ InWork(slid[which], place, offset)
                        /\ which = 2 => AllDone(slid[1])
                        /\ which = 1 => slid[2] = BitsOf(asked.b)
  /\ phase # "slide" => AllDone(slid[1]) /\ AllDone(slid[2])

LEMMA AskedIs ==
  ASSUME asked \in Sums
  PROVE  /\ asked.a \in [0..Bytes-1 -> 0..255] /\ asked.b \in [0..Bytes-1 -> 0..255]
         /\ asked.a[Bytes-1] <= 127 /\ asked.b[Bytes-1] <= 127 /\ asked.A \in Curve
  BY SumsAssumption

(* Looking at the first bit. *)
LEMMA FirstPlace ==
  ASSUME NEW s \in [0..Bytes-1 -> 0..255], s[Bytes-1] <= 127
  PROVE  InWork(BitsOf(s), 0, 1)
<1> DEFINE r == BitsOf(s)
<1>1. r \in Slid /\ (\A k \in BitPlaces : r[k] \in 0..1) /\ r[Bits-1] = 0
  BY BitsAre
<1>2. 0 \in BitPlaces
  BY BitNumbers DEF BitPlaces
<1> HIDE DEF r
<1>3. BitsAbove(r, 0) /\ DoneBelow(r, 0)
  BY <1>1 DEF BitsAbove, DoneBelow, BitPlaces
<1>4. DigitGrows(r, 0, 1)
  <2>1. r[0] \in 0..1 /\ Two[1] = 2
    BY <1>1, <1>2, TwoIs
  <2>2. \A k \in BitPlaces : ~ (0 < k /\ k < 0 + 1)
    BY DEF BitPlaces
  <2> QED
    BY <2>1, <2>2 DEF DigitGrows
<1>5. TopHasRoom(r, 0, 1)
  BY <1>1 DEF TopHasRoom
<1> QED
  BY <1>3, <1>4, <1>5 DEF InWork, r

(* The next place of a factor. *)
LEMMA PlaceMoves ==
  ASSUME NEW r \in Slid, NEW i \in BitPlaces, NEW b \in 1..7, InWork(r, i, b), i + 1 < Bits
  PROVE  InWork(r, i + 1, 1)
<1>1. i + 1 \in BitPlaces /\ Bits \in Nat /\ i \in Nat
  BY BitNumbers DEF BitPlaces
<1>2. \A k \in BitPlaces : k \in Nat
  BY DEF BitPlaces
<1>3. BitsAbove(r, i + 1)
  <2>1. \A k \in BitPlaces : k > i + 1 => k > i
    BY <1>1, <1>2
  <2> QED
    BY <2>1 DEF InWork, BitsAbove
<1>4. DoneBelow(r, i + 1)
  <2>1. \A k \in BitPlaces : k < i + 1 => k < i \/ k = i
    BY <1>1, <1>2
  <2>2. IsDone(r[i])
    BY DEF InWork, DigitGrows, IsDone
  <2> QED
    BY <2>1, <2>2 DEF InWork, DoneBelow
<1>5. DigitGrows(r, i + 1, 1)
  <2>1. r[i + 1] \in 0..1
    <3>1. i + 1 > i
      BY <1>1
    <3> QED
      BY <1>1, <3>1 DEF InWork, BitsAbove
  <2>2. \A k \in BitPlaces : ~ (i + 1 < k /\ k < (i + 1) + 1)
    BY <1>1, <1>2
  <2> QED
    BY <2>1, <2>2, TwoIs DEF DigitGrows
<1>6. TopHasRoom(r, i + 1, 1)
  <2> SUFFICES ASSUME r[Bits-1] # 0
               PROVE  /\ \A k \in BitPlaces : i + 1 < k /\ k < Bits - 1 => r[k] = 0
                      /\ r[i + 1] = 0 \/ i + 1 = Bits - 1
    BY DEF TopHasRoom
  <2>1. \A k \in BitPlaces : i < k /\ k < Bits - 1 => r[k] = 0
    BY DEF InWork, TopHasRoom
  <2>2. \A k \in BitPlaces : i + 1 < k => i < k
    BY <1>1, <1>2
  <2>3. i + 1 # Bits - 1 => i < i + 1 /\ i + 1 < Bits - 1
    BY <1>1
  <2> QED
    BY <1>1, <2>1, <2>2, <2>3
<1> QED
  BY <1>3, <1>4, <1>5, <1>6 DEF InWork

(* What Inner says of the digit and of the bit ahead. *)
LEMMA InnerIs ==
  ASSUME SlideInv, Inner
  PROVE  /\ slid[which] \in Slid /\ place \in BitPlaces /\ offset \in 1..6
         /\ place + offset \in BitPlaces /\ InWork(slid[which], place, offset)
         /\ slid[which][place] # 0 /\ slid[which][place] \in -15..15
         /\ slid[which][place + offset] \in 0..1
         /\ Two[offset] \in Nat \ {0}
         /\ Ahead = slid[which][place + offset] * Two[offset]
         /\ Digit2 = slid[which][place]
<1>1. slid[which] \in Slid /\ place \in -1..Bits-1 /\ offset \in 1..7 /\ phase = "slide"
  BY DEF SlideInv, DoubleTypes, Inner
<1>2. place >= 0 /\ InWork(slid[which], place, offset)
  BY <1>1 DEF SlideInv
<1>3. offset <= 6 /\ place + offset < Bits /\ slid[which][place] # 0
  BY DEF Inner, Digit2
<1>4. place \in BitPlaces /\ offset \in 1..6 /\ place + offset \in BitPlaces /\ place + offset > place
  BY <1>1, <1>2, <1>3, BitNumbers DEF BitPlaces
<1>5. slid[which][place + offset] \in 0..1
  BY <1>2, <1>4 DEF InWork, BitsAbove
<1>6. slid[which][place] \in -15..15
  BY <1>1, <1>4 DEF Slid
<1>7. Two[offset] \in Nat \ {0}
  BY <1>4, TwoInt
<1> QED
  BY <1>1, <1>2, <1>3, <1>4, <1>5, <1>6, <1>7 DEF Ahead, Digit2

(* A bit is absorbed only while there is room for it, and one that is not  *)
(* is the fifth.                                                           *)
LEMMA AheadIs ==
  ASSUME SlideInv, Inner, Ahead # 0
  PROVE  /\ slid[which][place + offset] = 1 /\ Ahead = Two[offset]
         /\ Digit2 + Ahead <= 15 => offset <= 3 /\ 0 < Digit2 /\ Digit2 < Two[offset]
         /\ Digit2 + Ahead > 15 /\ Digit2 - Ahead >= -15 =>
              offset = 4 /\ Ahead = 16 /\ 0 < Digit2 /\ Digit2 < 16
<1> DEFINE x == slid[which][place]
           t == Two[offset]
<1>1. slid[which][place + offset] = 1 /\ Ahead = t /\ t \in Nat
  BY InnerIs
<1>2. Digit2 = x /\ x \in -15..15 /\ x # 0 /\ offset \in 1..6
  BY InnerIs
<1>3. offset <= 4 => 0 < x /\ x < t
  BY InnerIs, <1>2 DEF InWork, DigitGrows
<1>4. /\ offset = 1 => t = 2
      /\ offset = 2 => t = 4
      /\ offset = 3 => t = 8
      /\ offset = 4 => t = 16
      /\ offset = 5 => t = 32
      /\ offset = 6 => t = 64
  BY TwoIs
<1> HIDE DEF x, t
<1>5. x + t <= 15 => offset <= 3 /\ 0 < x /\ x < t
  BY <1>1, <1>2, <1>3, <1>4
<1>6. x + t > 15 /\ x - t >= -15 => offset = 4 /\ t = 16 /\ 0 < x /\ x < 16
  BY <1>1, <1>2, <1>3, <1>4
<1> QED
  BY <1>1, <1>2, <1>5, <1>6 DEF t

(* The digit at place i has taken up the bit b places ahead.               *)
LEMMA BitAbsorbed ==
  ASSUME NEW r \in Slid, NEW i \in BitPlaces, NEW b \in 1..3, InWork(r, i, b),
         i + b \in BitPlaces, r[i] # 0
  PROVE  LET e == [r EXCEPT ![i] = r[i] + Two[b], ![i + b] = 0]
         IN e \in Slid /\ InWork(e, i, b + 1)
<1> DEFINE e == [r EXCEPT ![i] = r[i] + Two[b], ![i + b] = 0]
<1>1. i \in Nat /\ Bits \in Nat /\ i + b # i /\ i + b > i /\ i < Bits /\ i + b < Bits
  BY BitNumbers DEF BitPlaces
<1>2. (r[i] % 2) = 1 /\ 0 < r[i] /\ r[i] < Two[b] /\ r[i] \in Int
  <2>1. b <= 4
    OBVIOUS
  <2>2. (r[i] % 2) = 1 /\ 0 < r[i] /\ r[i] < Two[b]
    BY <2>1 DEF InWork, DigitGrows
  <2>3. r[i] \in -15..15
    BY DEF Slid
  <2> QED
    BY <2>2, <2>3
<1>3. e[i] = r[i] + Two[b] /\ e[i + b] = 0 /\ \A k \in BitPlaces : k # i /\ k # i + b => e[k] = r[k]
  BY <1>1 DEF Slid
<1>4. \A k \in BitPlaces : k \in Nat
  BY DEF BitPlaces
<1>5. 0 < e[i] /\ e[i] < Two[b + 1] /\ (e[i] % 2) = 1 /\ e[i] \in -15..15
  <2>1. Two[b + 1] = 2 * Two[b] /\ Two[b] \in {2, 4, 8}
    BY TwoIs
  <2> DEFINE x == r[i]
             t == Two[b]
             u == Two[b + 1]
  <2>2. e[i] = x + t
    BY <1>3
  <2>3. x \in Int /\ 0 < x /\ x < t /\ (x % 2) = 1 /\ t \in {2, 4, 8} /\ u = 2 * t
    BY <1>2, <2>1
  <2> HIDE DEF x, t, u, e
  <2>4. 0 < x + t /\ x + t < u /\ ((x + t) % 2) = 1 /\ x + t \in -15..15
    BY <2>3
  <2> QED
    BY <2>2, <2>4 DEF u
<1>6. e \in Slid
  <2>1. r[i] + Two[b] \in -15..15 /\ 0 \in -15..15
    BY <1>3, <1>5
  <2> QED
    BY <2>1 DEF Slid
<1> HIDE DEF e
<1>7. BitsAbove(e, i)
  <2>1. ASSUME NEW k \in BitPlaces, k > i PROVE e[k] \in 0..1
    <3>1. k # i /\ r[k] \in 0..1
      BY <1>1, <1>4, <2>1 DEF InWork, BitsAbove
    <3> QED
      BY <1>3, <3>1
  <2> QED
    BY <2>1 DEF BitsAbove
<1>8. DoneBelow(e, i)
  <2>1. ASSUME NEW k \in BitPlaces, k < i PROVE IsDone(e[k])
    <3>1. k # i /\ k # i + b
      BY <1>1, <1>4, <2>1
    <3> QED
      BY <1>3, <2>1, <3>1 DEF InWork, DoneBelow
  <2> QED
    BY <2>1 DEF DoneBelow
<1>9. DigitGrows(e, i, b + 1)
  <2>1. ASSUME NEW k \in BitPlaces, i < k, k < i + (b + 1) PROVE e[k] = 0
    <3>1. k # i /\ (k = i + b \/ k < i + b)
      BY <1>1, <1>4, <2>1
    <3>2. k < i + b => r[k] = 0
      <4>1. b <= 4
        OBVIOUS
      <4> QED
        BY <2>1, <4>1, <1>2 DEF InWork, DigitGrows
    <3> QED
      BY <1>3, <3>1, <3>2
  <2>2. e[i] # 0
    BY <1>5
  <2> QED
    BY <1>5, <2>1, <2>2 DEF DigitGrows
<1>10. TopHasRoom(e, i, b + 1)
  <2>1. r[Bits-1] = 0
    <3>1. ~ (b >= 5) /\ i # Bits - 1
      BY <1>1
    <3> QED
      BY <3>1 DEF InWork, TopHasRoom
  <2>2. Bits - 1 \in BitPlaces /\ Bits - 1 # i
    BY <1>1 DEF BitPlaces
  <2>3. e[Bits-1] = 0
    BY <1>3, <2>1, <2>2
  <2> QED
    BY <2>3 DEF TopHasRoom
<1> QED
  BY <1>6, <1>7, <1>8, <1>9, <1>10 DEF InWork, e

(* The carry finds a zero: what it does up to there. *)
LEMMA CarryStops ==
  ASSUME NEW r \in Slid, NEW k \in BitPlaces, \A j \in BitPlaces : j >= k => r[j] \in 0..1,
         r[Bits-1] = 0
  PROVE  \E z \in BitPlaces :
           /\ z >= k /\ r[z] = 0 /\ Carried(r, k)[z] = 1
           /\ \A j \in BitPlaces : j < k \/ j > z => Carried(r, k)[j] = r[j]
           /\ \A j \in BitPlaces : k <= j /\ j < z => r[j] = 1 /\ Carried(r, k)[j] = 0
<1> DEFINE Z == {j \in BitPlaces : j >= k /\ r[j] = 0}
           c == Carried(r, k)
           passed(j) == \A l \in k..j-1 : r[l] # 0
<1>0. \A j \in BitPlaces : j \in Nat /\ j < Bits
  BY BitNumbers DEF BitPlaces
<1>1. Bits - 1 \in Z
  BY BitNumbers DEF BitPlaces
<1>2. Z \subseteq Nat /\ Z # {}
  BY <1>0, <1>1
<1>3. PICK z \in Z : \A y \in Z : z <= y
  BY <1>2, LeastNumber
<1>4. z \in BitPlaces /\ z >= k /\ r[z] = 0
  OBVIOUS
<1>5. \A j \in BitPlaces : k <= j /\ j < z => r[j] = 1
  <2>1. ASSUME NEW j \in BitPlaces, k <= j, j < z PROVE r[j] = 1
    <3>1. j \notin Z
      BY <1>0, <1>3, <1>4, <2>1
    <3>2. r[j] # 0
      BY <1>0, <2>1, <3>1
    <3>3. r[j] \in 0..1
      BY <1>0, <2>1
    <3> QED
      BY <3>2, <3>3
  <2> QED
    BY <2>1
<1> HIDE DEF Z
<1>6. \A j \in BitPlaces : c[j] = IF j >= k /\ passed(j) THEN IF r[j] = 0 THEN 1 ELSE 0 ELSE r[j]
  BY DEF Carried
<1> HIDE DEF c
<1>7. ASSUME NEW j \in BitPlaces, k <= j, j <= z PROVE passed(j)
  <2>1. ASSUME NEW l \in k..j-1 PROVE r[l] # 0
    <3>0. k \in Nat /\ j \in Nat /\ j < Bits /\ z \in Nat /\ j <= z
      BY <1>0, <1>4, <1>7
    <3>1. l \in BitPlaces /\ k <= l /\ l < z
      BY <3>0, BitNumbers DEF BitPlaces
    <3> QED
      BY <1>5, <3>1
  <2> QED
    BY <2>1
<1>8. ASSUME NEW j \in BitPlaces, j > z PROVE ~ passed(j)
  <2>1. z \in k..j-1
    BY <1>0, <1>4, <1>8
  <2> QED
    BY <1>4, <2>1
<1>9. c[z] = 1
  <2>1. passed(z) /\ z >= k
    BY <1>0, <1>4, <1>7
  <2> QED
    BY <1>4, <1>6, <2>1
<1>10. ASSUME NEW j \in BitPlaces, j < k \/ j > z PROVE c[j] = r[j]
  <2>1. ~ (j >= k /\ passed(j))
    BY <1>0, <1>8, <1>10
  <2> HIDE DEF passed
  <2> QED
    BY <1>6, <2>1
<1>11. ASSUME NEW j \in BitPlaces, k <= j, j < z PROVE r[j] = 1 /\ c[j] = 0
  <2>1. j >= k /\ passed(j) /\ r[j] = 1
    BY <1>0, <1>4, <1>5, <1>7, <1>11
  <2> HIDE DEF passed
  <2> QED
    BY <1>6, <2>1
<1> QED
  BY <1>4, <1>9, <1>10, <1>11 DEF c

(* The digit at place i has become negative, and one is carried from four  *)
(* places above it.                                                        *)
LEMMA BitBorrowed ==
  ASSUME NEW r \in Slid, NEW i \in BitPlaces, InWork(r, i, 4),
         i + 4 \in BitPlaces, r[i + 4] = 1, 0 < r[i], r[i] < 16
  PROVE  LET e == [Carried(r, i + 4) EXCEPT ![i] = r[i] - 16]
         IN e \in Slid /\ InWork(e, i, 5) /\ r[Bits-1] = 0
<1> DEFINE c == Carried(r, i + 4)
           e == [c EXCEPT ![i] = r[i] - 16]
<1>0. \A j \in BitPlaces : j \in Nat /\ j < Bits
  BY BitNumbers DEF BitPlaces
<1>1. i \in Nat /\ i < i + 4 /\ i + 4 < Bits /\ Bits \in Nat /\ i + 4 \in Nat
  BY <1>0, BitNumbers
<1>2. r[i] \in 1..15 /\ (r[i] % 2) = 1 /\ r[i] # 0
  <2>1. r[i] \in -15..15
    BY DEF Slid
  <2>2. r[i] \in 1..15
    BY <2>1
  <2> QED
    BY <2>2 DEF InWork, DigitGrows
<1>3. r[Bits-1] = 0
  <2>1. i # Bits - 1 /\ ~ (4 >= 5)
    BY <1>1
  <2> QED
    BY <1>2, <2>1 DEF InWork, TopHasRoom
<1>4. \A j \in BitPlaces : j >= i + 4 => r[j] \in 0..1
  <2>1. \A j \in BitPlaces : j >= i + 4 => j > i
    BY <1>0, <1>1
  <2> QED
    BY <2>1 DEF InWork, BitsAbove
<1>5. PICK z \in BitPlaces :
        /\ z >= i + 4 /\ r[z] = 0 /\ c[z] = 1
        /\ \A j \in BitPlaces : j < i + 4 \/ j > z => c[j] = r[j]
        /\ \A j \in BitPlaces : i + 4 <= j /\ j < z => r[j] = 1 /\ c[j] = 0
  BY <1>3, <1>4, CarryStops
<1>6. c \in [BitPlaces -> -15..15]
  <2>1. ASSUME NEW j \in BitPlaces PROVE c[j] \in -15..15
    <3>1. r[j] \in -15..15
      BY DEF Slid
    <3>2. j = z \/ j > z \/ j < i + 4 \/ (i + 4 <= j /\ j < z)
      BY <1>0, <1>1
    <3>3. c[j] = r[j] \/ c[j] = 0 \/ c[j] = 1
      BY <1>5, <3>2
    <3> QED
      BY <3>1, <3>3
  <2>2. c = [j \in BitPlaces |-> c[j]]
    BY DEF Carried
  <2> HIDE DEF c
  <2> QED
    BY <2>1, <2>2, Zenon
<1> HIDE DEF c
<1>7. r[i] - 16 \in -15..15 /\ r[i] - 16 # 0 /\ ((r[i] - 16) % 2) = 1
  <2> DEFINE x == r[i]
  <2>1. x \in 1..15 /\ (x % 2) = 1
    BY <1>2
  <2> HIDE DEF x
  <2>2. x - 16 \in -15..15 /\ x - 16 # 0 /\ ((x - 16) % 2) = 1
    BY <2>1
  <2> QED
    BY <2>2 DEF x
<1>8. e \in Slid
  BY <1>6, <1>7, Zenon DEF Slid
<1>9. e[i] = r[i] - 16 /\ \A j \in BitPlaces : j # i => e[j] = c[j]
  BY <1>6
<1> HIDE DEF e
<1>10. BitsAbove(e, i)
  <2>1. ASSUME NEW j \in BitPlaces, j > i PROVE e[j] \in 0..1
    <3>1. r[j] \in 0..1 /\ e[j] = c[j]
      BY <1>0, <1>1, <1>9, <2>1 DEF InWork, BitsAbove
    <3>2. j = z \/ j > z \/ j < i + 4 \/ (i + 4 <= j /\ j < z)
      BY <1>0, <1>1
    <3>3. c[j] = r[j] \/ c[j] = 0 \/ c[j] = 1
      BY <1>5, <3>2
    <3> QED
      BY <3>1, <3>3
  <2> QED
    BY <2>1 DEF BitsAbove
<1>11. DoneBelow(e, i)
  <2>1. ASSUME NEW j \in BitPlaces, j < i PROVE IsDone(e[j])
    <3>1. j # i /\ j < i + 4
      BY <1>0, <1>1, <2>1
    <3>2. e[j] = r[j]
      BY <1>5, <1>9, <3>1
    <3> QED
      BY <2>1, <3>2 DEF InWork, DoneBelow
  <2> QED
    BY <2>1 DEF DoneBelow
<1>12. DigitGrows(e, i, 5)
  <2>1. e[i] # 0 /\ (e[i] % 2) = 1 /\ ~ (5 <= 4)
    BY <1>7, <1>9
  <2> QED
    BY <2>1 DEF DigitGrows
<1>13. TopHasRoom(e, i, 5)
  <2> SUFFICES ASSUME e[Bits-1] # 0, NEW j \in BitPlaces, i < j, j < Bits - 1 PROVE e[j] = 0
    BY DEF TopHasRoom
  <2>1. Bits - 1 \in BitPlaces /\ Bits - 1 # i /\ j # i
    BY <1>1 DEF BitPlaces
  <2>2. e[Bits-1] = c[Bits-1] /\ e[j] = c[j]
    BY <1>9, <2>1
  <2>3. z = Bits - 1
    <3>1. ~ (Bits - 1 < i + 4 \/ Bits - 1 > z)
      BY <1>3, <1>5, <2>1, <2>2
    <3>2. z \in Nat /\ z < Bits
      BY <1>0
    <3> QED
      BY <1>1, <3>1, <3>2
  <2>4. CASE j < i + 4
    <3>1. c[j] = r[j]
      BY <1>5, <2>4
    <3>2. 4 <= 4
      OBVIOUS
    <3>3. r[j] = 0
      BY <1>2, <2>4, <3>2 DEF InWork, DigitGrows
    <3> QED
      BY <2>2, <3>1, <3>3
  <2>5. CASE i + 4 <= j
    <3>1. j < z
      BY <2>3
    <3> QED
      BY <1>5, <2>2, <2>5, <3>1
  <2> QED
    BY <1>0, <1>1, <2>4, <2>5
<1> QED
  BY <1>3, <1>8, <1>10, <1>11, <1>12, <1>13 DEF InWork, e, c

(* The digits of the factor that is worked on are replaced. *)
LEMMA PutKeeps ==
  ASSUME SlideInv, Inner, NEW e \in Slid, InWork(e, place, offset + 1), Put(e)
  PROVE  SlideInv'
<1>1. /\ slid' = [slid EXCEPT ![which] = e] /\ offset' = offset + 1
      /\ asked' = asked /\ which' = which /\ place' = place /\ sum' = sum /\ phase' = phase
  BY DEF Put
<1>2. DoubleTypes /\ phase = "slide" /\ place >= 0 /\ offset \in 1..6
  BY InnerIs DEF SlideInv, Inner
<1>3. which \in 1..2 /\ slid \in [1..2 -> Slid]
  BY <1>2 DEF DoubleTypes
<1>4. slid' \in [1..2 -> Slid] /\ slid'[which] = e
  BY <1>1, <1>3
<1>5. \A w \in 1..2 : w # which => slid'[w] = slid[w]
  BY <1>1, <1>3
<1>6. DoubleTypes'
  <2>1. offset' \in 1..7
    BY <1>1, <1>2
  <2> QED
    BY <1>1, <1>2, <1>4, <2>1 DEF DoubleTypes
<1>7. which = 2 => AllDone(slid'[1])
  <2>1. which = 2 => slid'[1] = slid[1]
    BY <1>5
  <2> QED
    BY <1>2, <2>1 DEF SlideInv
<1>8. which = 1 => slid'[2] = BitsOf(asked.b)
  <2>1. which = 1 => slid'[2] = slid[2]
    BY <1>5
  <2> QED
    BY <1>2, <2>1 DEF SlideInv
<1>9. InWork(slid'[which'], place', offset')
  BY <1>1, <1>4
<1>10. asked'.b = asked.b /\ place' >= 0 /\ phase' = "slide"
  BY <1>1, <1>2
<1> QED
  BY <1>1, <1>6, <1>7, <1>8, <1>9, <1>10 DEF SlideInv

LEMMA SkipStep == SlideInv /\ SkipBit => SlideInv'
<1> SUFFICES ASSUME SlideInv, SkipBit PROVE SlideInv'
  OBVIOUS
<1> DEFINE r == slid[which]
           i == place
           b == offset
<1>1. Inner /\ Ahead = 0 /\ Put(r)
  BY DEF SkipBit
<1>2. /\ r \in Slid /\ i \in BitPlaces /\ b \in 1..6 /\ i + b \in BitPlaces /\ InWork(r, i, b)
      /\ r[i] # 0 /\ r[i + b] \in 0..1 /\ Two[b] \in Nat \ {0} /\ Ahead = r[i + b] * Two[b]
  BY <1>1, InnerIs
<1>3. r[i + b] = 0
  <2> DEFINE x == r[i + b]
             t == Two[b]
  <2>1. x \in 0..1 /\ t \in Nat \ {0} /\ x * t = 0
    BY <1>1, <1>2
  <2> HIDE DEF x, t
  <2>2. x = 0
    BY <2>1
  <2> QED
    BY <2>2 DEF x
<1> HIDE DEF r, i, b
<1>4. \A k \in BitPlaces : k \in Nat /\ k < Bits
  BY BitNumbers DEF BitPlaces
<1>5. DigitGrows(r, i, b + 1)
  <2> SUFFICES ASSUME b + 1 <= 4
               PROVE  /\ 0 < r[i] /\ r[i] < Two[b + 1]
                      /\ \A k \in BitPlaces : i < k /\ k < i + (b + 1) => r[k] = 0
    BY <1>2 DEF InWork, DigitGrows
  <2>1. b <= 4
    BY <1>2
  <2>2. /\ 0 < r[i] /\ r[i] < Two[b]
        /\ \A k \in BitPlaces : i < k /\ k < i + b => r[k] = 0
    BY <1>2, <2>1 DEF InWork, DigitGrows
  <2>3. r[i] < Two[b + 1]
    <3>1. b \in 0..6 /\ Two[b + 1] = 2 * Two[b] /\ Two[b] \in Nat \ {0}
      BY <1>2, TwoNext
    <3>2. r[i] \in -15..15
      BY <1>2 DEF Slid
    <3> QED
      BY <2>2, <3>1, <3>2
  <2>4. ASSUME NEW k \in BitPlaces, i < k, k < i + (b + 1) PROVE r[k] = 0
    <3>1. k = i + b \/ k < i + b
      BY <1>2, <1>4, <2>4
    <3> QED
      BY <1>3, <2>2, <2>4, <3>1
  <2> QED
    BY <2>2, <2>3, <2>4
<1>6. TopHasRoom(r, i, b + 1)
  <2>1. i # Bits - 1
    BY <1>2, <1>4, BitNumbers
  <2>2. b >= 5 => b + 1 >= 5
    BY <1>2
  <2> QED
    BY <1>2, <2>1, <2>2 DEF InWork, TopHasRoom
<1>7. InWork(r, i, b + 1)
  BY <1>2, <1>5, <1>6 DEF InWork
<1> QED
  BY <1>1, <1>2, <1>7, PutKeeps DEF r, i, b

LEMMA AbsorbStep == SlideInv /\ AbsorbBit => SlideInv'
<1> SUFFICES ASSUME SlideInv, AbsorbBit PROVE SlideInv'
  OBVIOUS
<1> DEFINE r == slid[which]
           i == place
           b == offset
           e == [r EXCEPT ![i] = r[i] + Two[b], ![i + b] = 0]
<1>1. Inner /\ Ahead # 0 /\ Digit2 + Ahead <= 15
      /\ Put([r EXCEPT ![i] = @ + Ahead, ![i + b] = 0])
  BY DEF AbsorbBit
<1>2. r \in Slid /\ i \in BitPlaces /\ b \in 1..6 /\ i + b \in BitPlaces /\ InWork(r, i, b) /\ r[i] # 0
  BY <1>1, InnerIs
<1>3. Ahead = Two[b] /\ b <= 3
  BY <1>1, AheadIs
<1>4. b \in 1..3
  BY <1>2, <1>3
<1>5. Put(e)
  BY <1>1, <1>2, <1>3 DEF Slid
<1>6. e \in Slid /\ InWork(e, i, b + 1)
  BY <1>2, <1>4, BitAbsorbed
<1> HIDE DEF e
<1> QED
  BY <1>1, <1>5, <1>6, PutKeeps

LEMMA BorrowStep == SlideInv /\ BorrowBit => SlideInv'
<1> SUFFICES ASSUME SlideInv, BorrowBit PROVE SlideInv'
  OBVIOUS
<1> DEFINE r == slid[which]
           i == place
           e == [Carried(r, i + 4) EXCEPT ![i] = r[i] - 16]
<1>1. /\ Inner /\ Ahead # 0 /\ Digit2 + Ahead > 15 /\ Digit2 - Ahead >= -15
      /\ Put([Carried(r, i + offset) EXCEPT ![i] = @ - Ahead])
  BY DEF BorrowBit
<1>2. offset = 4 /\ Ahead = 16 /\ 0 < Digit2 /\ Digit2 < 16 /\ slid[which][place + offset] = 1
  BY <1>1, AheadIs
<1>3. /\ r \in Slid /\ i \in BitPlaces /\ i + 4 \in BitPlaces /\ InWork(r, i, 4)
      /\ Digit2 = r[i] /\ r[i + 4] = 1
  BY <1>1, <1>2, InnerIs
<1>4. Carried(r, i + 4)[i] = r[i]
  <2>1. ~ (i >= i + 4)
    BY <1>3 DEF BitPlaces
  <2> QED
    BY <1>3, <2>1 DEF Carried
<1>5. Put(e)
  <2>1. Carried(r, i + 4) = [j \in BitPlaces |-> Carried(r, i + 4)[j]]
    BY DEF Carried
  <2>2. [Carried(r, i + 4) EXCEPT ![i] = @ - 16] = e
    BY <1>3, <1>4, <2>1
  <2> QED
    BY <1>1, <1>2, <2>2
<1>6. e \in Slid /\ InWork(e, i, 5)
  BY <1>2, <1>3, BitBorrowed
<1> HIDE DEF e
<1>7. offset + 1 = 5
  BY <1>2
<1> QED
  BY <1>1, <1>5, <1>6, <1>7, PutKeeps

LEMMA NextPlaceStep == SlideInv /\ NextPlace => SlideInv'
<1> SUFFICES ASSUME SlideInv, NextPlace PROVE SlideInv'
  OBVIOUS
<1> DEFINE r == slid[which]
<1>1. /\ phase = "slide" /\ offset' = 1 /\ asked' = asked /\ slid' = slid /\ sum' = sum
      /\ DoubleTypes /\ place >= 0 /\ InWork(r, place, offset)
  BY DEF NextPlace, SlideInv
<1>2. /\ r \in Slid /\ place \in BitPlaces /\ offset \in 1..7 /\ which \in 1..2
      /\ place \in Nat /\ place <= Bits - 1 /\ Bits \in Nat /\ Bits >= 8
  BY <1>1, BitNumbers DEF DoubleTypes, BitPlaces
<1>3. (which = 2 => AllDone(slid[1])) /\ (which = 1 => slid[2] = BitsOf(asked.b))
  BY <1>1 DEF SlideInv
<1>4. CASE place + 1 < Bits
  <2>1. place' = place + 1 /\ which' = which /\ phase' = phase
    BY <1>4 DEF NextPlace
  <2>2. InWork(r, place + 1, 1)
    BY <1>1, <1>2, <1>4, PlaceMoves
  <2>3. place' \in -1..Bits-1 /\ place' >= 0 /\ offset' \in 1..7
    BY <1>1, <1>2, <1>4, <2>1
  <2>4. DoubleTypes'
    BY <1>1, <2>1, <2>3 DEF DoubleTypes
  <2>5. InWork(slid'[which'], place', offset')
    BY <1>1, <2>1, <2>2
  <2> QED
    BY <1>1, <1>3, <2>1, <2>3, <2>4, <2>5 DEF SlideInv
<1>5. ASSUME ~ (place + 1 < Bits) PROVE AllDone(r)
  <2>1. ASSUME NEW k \in BitPlaces PROVE IsDone(r[k])
    <3>1. k < place \/ k = place
      BY <1>2, <1>5 DEF BitPlaces
    <3>2. IsDone(r[place])
      BY <1>1 DEF InWork, DigitGrows, IsDone
    <3> QED
      BY <1>1, <3>1, <3>2 DEF InWork, DoneBelow
  <2> QED
    BY <2>1 DEF AllDone
<1>6. CASE ~ (place + 1 < Bits) /\ which = 1
  <2>1. which' = 2 /\ place' = 0 /\ phase' = phase
    BY <1>6 DEF NextPlace
  <2>2. AllDone(slid[1]) /\ slid[2] = BitsOf(asked.b)
    BY <1>3, <1>5, <1>6
  <2>3. InWork(slid[2], 0, 1)
    <3>1. asked \in Sums
      BY <1>1 DEF DoubleTypes
    <3> QED
      BY <2>2, <3>1, AskedIs, FirstPlace
  <2>4. place' \in -1..Bits-1 /\ place' >= 0 /\ offset' \in 1..7 /\ which' \in 1..2
    BY <1>1, <1>2, <2>1
  <2>5. DoubleTypes'
    BY <1>1, <2>1, <2>4 DEF DoubleTypes
  <2> QED
    BY <1>1, <2>1, <2>2, <2>3, <2>4, <2>5 DEF SlideInv
<1>7. CASE ~ (place + 1 < Bits) /\ which # 1
  <2>1. which' = which /\ place' = Bits - 1 /\ phase' = "top"
    BY <1>7 DEF NextPlace
  <2>2. which = 2
    BY <1>2, <1>7
  <2>3. AllDone(slid[1]) /\ AllDone(slid[2])
    BY <1>3, <1>5, <1>7, <2>2
  <2>4. place' \in -1..Bits-1 /\ offset' \in 1..7
    BY <1>1, <1>2, <2>1
  <2>5. DoubleTypes'
    BY <1>1, <2>1, <2>4 DEF DoubleTypes
  <2> QED
    BY <1>1, <2>1, <2>3, <2>5 DEF SlideInv
<1> QED
  BY <1>4, <1>6, <1>7

LEMMA FindTopStep == SlideInv /\ FindTop => SlideInv'
<1> SUFFICES ASSUME SlideInv, FindTop PROVE SlideInv'
  OBVIOUS
<1>1. /\ phase = "top" /\ asked' = asked /\ slid' = slid /\ which' = which /\ offset' = offset
      /\ sum' = sum /\ DoubleTypes /\ AllDone(slid[1]) /\ AllDone(slid[2])
  BY DEF FindTop, SlideInv
<1>2. place \in -1..Bits-1 /\ Bits \in Nat
  BY <1>1, BitNumbers DEF DoubleTypes
<1>3. (place' = place \/ (place >= 0 /\ place' = place - 1)) /\ phase' \in {"top", "add"}
  BY <1>1 DEF FindTop
<1>4. place' \in -1..Bits-1
  BY <1>2, <1>3
<1>5. DoubleTypes'
  BY <1>1, <1>3, <1>4 DEF DoubleTypes
<1>6. phase' # "slide"
  BY <1>3
<1> QED
  BY <1>1, <1>5, <1>6 DEF SlideInv

LEMMA AddedStep == SlideInv /\ Added => SlideInv'
<1> SUFFICES ASSUME SlideInv, Added PROVE SlideInv'
  OBVIOUS
<1>1. /\ phase' = "done" /\ asked' = asked /\ slid' = slid /\ which' = which
      /\ offset' = offset /\ place' = place /\ sum' = sum /\ phase = "add"
      /\ DoubleTypes /\ AllDone(slid[1]) /\ AllDone(slid[2])
  BY DEF Added, SlideInv
<1>2. DoubleTypes'
  BY <1>1 DEF DoubleTypes
<1> QED
  BY <1>1, <1>2 DEF SlideInv

(* The step that adds keeps the rest if the sum keeps its type. *)
LEMMA AddPlaceStep == SlideInv /\ AddPlace /\ sum' \in Point2 => SlideInv'
<1> SUFFICES ASSUME SlideInv, AddPlace, sum' \in Point2 PROVE SlideInv'
  OBVIOUS
<1>1. /\ asked' = asked /\ slid' = slid /\ which' = which
      /\ offset' = offset /\ place' = place - 1 /\ phase' = phase /\ phase = "add" /\ place >= 0
      /\ DoubleTypes /\ AllDone(slid[1]) /\ AllDone(slid[2])
  BY DEF AddPlace, SlideInv
<1>2. place \in -1..Bits-1 /\ Bits \in Nat
  BY <1>1, BitNumbers DEF DoubleTypes
<1>3. place' \in -1..Bits-1
  BY <1>1, <1>2
<1>4. DoubleTypes'
  BY <1>1, <1>3 DEF DoubleTypes
<1> QED
  BY <1>1, <1>4 DEF SlideInv

LEMMA SlideStart == DoubleInit => SlideInv
<1> SUFFICES ASSUME DoubleInit PROVE SlideInv
  OBVIOUS
<1>1. /\ asked \in Sums /\ slid = <<BitsOf(asked.a), BitsOf(asked.b)>> /\ which = 1
      /\ place = 0 /\ offset = 1 /\ sum = P2(P3Zero) /\ phase = "slide"
  BY DEF DoubleInit
<1>2. BitsOf(asked.a) \in Slid /\ BitsOf(asked.b) \in Slid /\ InWork(BitsOf(asked.a), 0, 1)
  BY <1>1, AskedIs, BitsAre, FirstPlace
<1>3. slid[1] = BitsOf(asked.a) /\ slid[2] = BitsOf(asked.b)
  BY <1>1
<1>4. slid \in [1..2 -> Slid]
  <2> HIDE DEF Slid, BitsOf
  <2> QED
    BY <1>1, <1>2
<1>5. sum \in Point2
  BY <1>1, FeInt DEF P2, P3Zero, Point2
<1>6. DoubleTypes
  <2>1. 0 \in -1..Bits-1
    BY BitNumbers
  <2> QED
    BY <1>1, <1>4, <1>5, <2>1 DEF DoubleTypes
<1> QED
  BY <1>1, <1>2, <1>3, <1>6 DEF SlideInv

-----------------------------------------------------------------------------
(* The digits keep the value of their factor.                              *)

(* What place i + b gains, digit i loses. *)
HasMoved(r, e, i, b, c) ==
  /\ From(e, i + b) = From(r, i + b) + c
  /\ \A k \in BitPlaces : i < k /\ k < i + b => e[k] = r[k]
  /\ e[i] = r[i] - c * Two[b]
  /\ \A k \in BitPlaces : k < i => e[k] = r[k]

LEMMA ValueMoves ==
  ASSUME NEW r \in BitFunctions, NEW e \in BitFunctions, NEW i \in BitPlaces, NEW b \in 1..6,
         i + b \in BitPlaces, NEW c \in Int, HasMoved(r, e, i, b, c)
  PROVE  From(e, 0) = From(r, 0)
<1> USE DEF HasMoved
<1>0. i \in Nat /\ Bits \in Nat /\ i + b < Bits /\ i < Bits /\ 0..Bits-1 = BitPlaces
  BY BitNumbers DEF BitPlaces
<1>1. \A k \in 0..Bits-1 : /\ From(r, k) = From(r, k + 1) * 2 + r[k]
                           /\ From(e, k) = From(e, k + 1) * 2 + e[k]
  BY FromIs
<1>2. \A k \in 0..Bits : From(r, k) \in Int /\ From(e, k) \in Int
  BY FromIs
<1>3. \A k \in 0..Bits-1 : r[k] \in Int /\ e[k] \in Int
  BY DEF BitFunctions, BitPlaces
<1> DEFINE M == {m \in 0..b-1 : From(e, i + b - m) = From(r, i + b - m) + c * Two[m]}
<1>4. 0 \in M
  <2>1. c * Two[0] = c /\ i + b - 0 = i + b
    BY TwoIs
  <2> QED
    BY <2>1
<1>5. ASSUME NEW m \in 0..(b-1)-1, m \in M PROVE m + 1 \in M
  <2> DEFINE k == i + b - (m + 1)
             x == From(r, k + 1)
             y == From(e, k + 1)
             t == Two[m]
  <2>1. k \in 0..Bits-1 /\ k + 1 = i + b - m /\ k + 1 \in 0..Bits /\ i < k /\ k < i + b
    BY <1>0
  <2>2. m \in 0..6
    OBVIOUS
  <2>3. t \in Int /\ Two[m + 1] = 2 * t
    BY <2>2, TwoNext
  <2>4. y = x + c * t /\ x \in Int /\ y \in Int
    BY <1>2, <1>5, <2>1
  <2>5. From(r, k) = x * 2 + r[k] /\ From(e, k) = y * 2 + r[k] /\ r[k] \in Int
    BY <1>0, <1>1, <1>3, <2>1
  <2> HIDE DEF k, x, y, t
  <2>6. c * Two[m + 1] = 2 * (c * t)
    BY <2>3
  <2>7. From(e, k) = From(r, k) + c * Two[m + 1]
    <3>1. c * t \in Int
      BY <2>3
    <3> DEFINE v == c * t
    <3>2. v \in Int /\ y = x + v /\ c * Two[m + 1] = 2 * v
      BY <2>4, <2>6, <3>1
    <3> HIDE DEF v
    <3>3. (x + v) * 2 + r[k] = (x * 2 + r[k]) + 2 * v
      BY <2>4, <2>5, <3>2
    <3> QED
      BY <2>5, <3>2, <3>3
  <2> QED
    BY <2>7 DEF k
<1> HIDE DEF M
<1>6. 0..b-1 \subseteq M
  <2>1. b - 1 \in Nat
    OBVIOUS
  <2> QED
    BY <1>4, <1>5, <2>1, InductionUpTo
<1>7. From(e, i + 1) = From(r, i + 1) + c * Two[b - 1]
  <2>1. b - 1 \in M /\ i + b - (b - 1) = i + 1
    BY <1>0, <1>6
  <2> QED
    BY <2>1 DEF M
<1>8. From(e, i) = From(r, i)
  <2> DEFINE x == From(r, i + 1)
             t == Two[b - 1]
             v == c * t
  <2>1. b - 1 \in 0..6 /\ (b - 1) + 1 = b
    OBVIOUS
  <2>2. t \in Int /\ Two[b] = 2 * t
    BY <2>1, TwoNext
  <2>3. x \in Int /\ From(e, i + 1) = x + v
    <3>1. i + 1 \in 0..Bits
      BY <1>0
    <3> QED
      BY <1>2, <1>7, <3>1
  <2>4. c * Two[b] = 2 * v /\ v \in Int
    BY <2>2
  <2>5. i \in 0..Bits-1 /\ r[i] \in Int
    BY <1>0, <1>3
  <2> HIDE DEF x, v, t
  <2>6. (x + v) * 2 + (r[i] - 2 * v) = x * 2 + r[i]
    BY <2>3, <2>4, <2>5
  <2> QED
    BY <1>1, <2>3, <2>4, <2>5, <2>6 DEF x
<1> DEFINE T == {k \in 0..i : From(e, k) = From(r, k)}
<1>9. i \in T
  BY <1>0, <1>8
<1>10. ASSUME NEW k \in 0..i-1, k + 1 \in T PROVE k \in T
  <2>1. k \in 0..Bits-1 /\ k < i /\ k \in 0..i
    BY <1>0
  <2>2. e[k] = r[k] /\ From(e, k + 1) = From(r, k + 1)
    BY <1>0, <1>10, <2>1
  <2> QED
    BY <1>1, <2>1, <2>2
<1> HIDE DEF T
<1>11. 0..i \subseteq T
  BY <1>0, <1>9, <1>10, InductionDown
<1>12. 0 \in T
  BY <1>0, <1>11
<1> QED
  BY <1>12 DEF T

(* Digits that are alike from place k up have the same value there.        *)
LEMMA ValueAlike ==
  ASSUME NEW r \in BitFunctions, NEW e \in BitFunctions, NEW k \in 0..Bits,
         \A j \in BitPlaces : j >= k => e[j] = r[j]
  PROVE  From(e, k) = From(r, k)
<1>0. Bits \in Nat /\ 0..Bits-1 = BitPlaces
  BY BitNumbers DEF BitPlaces
<1>1. \A j \in 0..Bits-1 : /\ From(r, j) = From(r, j + 1) * 2 + r[j]
                           /\ From(e, j) = From(e, j + 1) * 2 + e[j]
  BY FromIs
<1> DEFINE T == {j \in 0..Bits : j >= k => From(e, j) = From(r, j)}
<1>2. Bits \in T
  BY <1>0, FromIs
<1>3. ASSUME NEW j \in 0..Bits-1, j + 1 \in T PROVE j \in T
  <2> SUFFICES ASSUME j >= k PROVE From(e, j) = From(r, j)
    BY <1>0
  <2>1. j + 1 >= k /\ j \in BitPlaces
    BY <1>0
  <2>2. From(e, j + 1) = From(r, j + 1) /\ e[j] = r[j]
    BY <1>3, <2>1
  <2> QED
    BY <1>1, <2>2
<1> HIDE DEF T
<1>4. 0..Bits \subseteq T
  BY <1>0, <1>2, <1>3, InductionDown
<1>5. k \in T /\ k >= k
  BY <1>4
<1> QED
  BY <1>5 DEF T

LEMMA AbsorbedKeepsValue ==
  ASSUME NEW r \in Slid, NEW i \in BitPlaces, NEW b \in 1..6, i + b \in BitPlaces, r[i + b] = 1,
         NEW e \in Slid, e = [r EXCEPT ![i] = r[i] + Two[b], ![i + b] = 0]
  PROVE  From(e, 0) = From(r, 0)
<1>0. i \in Nat /\ Bits \in Nat /\ i + b # i /\ i + b < Bits /\ \A k \in BitPlaces : k \in Nat
  BY BitNumbers DEF BitPlaces
<1>1. r \in BitFunctions /\ e \in BitFunctions
  BY SlidAreInt
<1>2. e[i] = r[i] + Two[b] /\ e[i + b] = 0 /\ \A k \in BitPlaces : k # i /\ k # i + b => e[k] = r[k]
  BY <1>0 DEF Slid
<1>3. From(e, (i + b) + 1) = From(r, (i + b) + 1)
  <2>1. (i + b) + 1 \in 0..Bits
    BY <1>0
  <2>2. ASSUME NEW j \in BitPlaces, j >= (i + b) + 1 PROVE e[j] = r[j]
    <3>1. j # i /\ j # i + b
      BY <1>0, <2>2
    <3> QED
      BY <1>2, <3>1
  <2> QED
    BY <1>1, <2>1, <2>2, ValueAlike
<1>4. From(e, i + b) = From(r, i + b) + (-1)
  <2>1. i + b \in 0..Bits-1 /\ (i + b) + 1 \in 0..Bits
    BY <1>0
  <2>2. From(r, i + b) = From(r, (i + b) + 1) * 2 + r[i + b]
    BY <1>1, <2>1, FromIs, Zenon
  <2>3. From(e, i + b) = From(e, (i + b) + 1) * 2 + e[i + b]
    BY <1>1, <2>1, FromIs, Zenon
  <2>4. From(r, (i + b) + 1) \in Int
    BY <1>1, <2>1, FromIs, Zenon
  <2> QED
    BY <1>2, <1>3, <2>2, <2>3, <2>4
<1>5. \A k \in BitPlaces : i < k /\ k < i + b => e[k] = r[k]
  <2>1. \A k \in BitPlaces : i < k /\ k < i + b => k # i /\ k # i + b
    BY <1>0
  <2> QED
    BY <1>2, <2>1
<1>6. \A k \in BitPlaces : k < i => e[k] = r[k]
  <2>1. \A k \in BitPlaces : k < i => k # i /\ k # i + b
    BY <1>0
  <2> QED
    BY <1>2, <2>1
<1>7. e[i] = r[i] - (-1) * Two[b]
  <2>1. Two[b] \in Int /\ r[i] \in Int
    BY <1>1, TwoInt DEF BitFunctions
  <2>2. r[i] + Two[b] = r[i] - (-1) * Two[b]
    BY <2>1
  <2> QED
    BY <1>2, <2>2
<1> DEFINE c == -1
<1>8. c \in Int /\ From(e, i + b) = From(r, i + b) + c /\ e[i] = r[i] - c * Two[b]
  BY <1>4, <1>7
<1> HIDE DEF c
<1>9. HasMoved(r, e, i, b, c)
  BY <1>5, <1>6, <1>8 DEF HasMoved
<1> QED
  BY <1>1, <1>8, <1>9, ValueMoves, Zenon

LEMMA CarriedAddsOne ==
  ASSUME NEW r \in Slid, NEW k \in BitPlaces, \A j \in BitPlaces : j >= k => r[j] \in 0..1,
         r[Bits-1] = 0, NEW e \in Slid, \A j \in BitPlaces : j >= k => e[j] = Carried(r, k)[j]
  PROVE  From(e, k) = From(r, k) + 1
<1>0. k \in Nat /\ Bits \in Nat /\ 0..Bits-1 = BitPlaces /\ \A j \in BitPlaces : j \in Nat /\ j < Bits
  BY BitNumbers DEF BitPlaces
<1>1. r \in BitFunctions /\ e \in BitFunctions
  BY SlidAreInt
<1>2. PICK z \in BitPlaces :
           /\ z >= k /\ r[z] = 0 /\ Carried(r, k)[z] = 1
           /\ \A j \in BitPlaces : j < k \/ j > z => Carried(r, k)[j] = r[j]
           /\ \A j \in BitPlaces : k <= j /\ j < z => r[j] = 1 /\ Carried(r, k)[j] = 0
  BY CarryStops
<1>3. /\ e[z] = 1 /\ r[z] = 0
      /\ \A j \in BitPlaces : j > z => e[j] = r[j]
      /\ \A j \in BitPlaces : k <= j /\ j < z => r[j] = 1 /\ e[j] = 0
  <2>1. ASSUME NEW j \in BitPlaces, j > z PROVE e[j] = r[j]
    <3>1. j >= k
      BY <1>0, <1>2, <2>1
    <3> QED
      BY <1>2, <2>1, <3>1
  <2>2. ASSUME NEW j \in BitPlaces, k <= j, j < z PROVE r[j] = 1 /\ e[j] = 0
    <3>1. j >= k
      BY <1>0, <2>2
    <3> QED
      BY <1>2, <2>2, <3>1
  <2> QED
    BY <1>2, <2>1, <2>2
<1>4. \A j \in 0..Bits-1 : /\ From(r, j) = From(r, j + 1) * 2 + r[j]
                           /\ From(e, j) = From(e, j + 1) * 2 + e[j]
  BY <1>1, FromIs
<1>5. \A j \in 0..Bits : From(r, j) \in Int
  BY <1>1, FromIs
<1>6. From(e, z + 1) = From(r, z + 1)
  <2>1. z + 1 \in 0..Bits
    BY <1>0
  <2>2. ASSUME NEW j \in BitPlaces, j >= z + 1 PROVE e[j] = r[j]
    <3>1. j > z
      BY <1>0, <2>2
    <3> QED
      BY <1>3, <3>1
  <2> QED
    BY <1>1, <2>1, <2>2, ValueAlike
<1>7. From(e, z) = From(r, z) + 1
  <2>1. z \in 0..Bits-1 /\ z + 1 \in 0..Bits
    BY <1>0
  <2>2. From(r, z) = From(r, z + 1) * 2 + 0 /\ From(e, z) = From(r, z + 1) * 2 + 1
        /\ From(r, z + 1) \in Int
    BY <1>3, <1>4, <1>5, <1>6, <2>1
  <2> QED
    BY <2>2
<1> DEFINE T == {j \in 0..z : j >= k => From(e, j) = From(r, j) + 1}
<1>8. z \in T
  BY <1>0, <1>7
<1>9. ASSUME NEW j \in 0..z-1, j + 1 \in T PROVE j \in T
  <2> SUFFICES ASSUME j >= k PROVE From(e, j) = From(r, j) + 1
    BY <1>0
  <2>1. j \in 0..Bits-1 /\ j + 1 \in 0..Bits /\ j + 1 >= k /\ k <= j /\ j < z
    BY <1>0
  <2>2. /\ From(e, j + 1) = From(r, j + 1) + 1 /\ From(r, j + 1) \in Int
        /\ r[j] = 1 /\ e[j] = 0
    BY <1>0, <1>3, <1>5, <1>9, <2>1
  <2>3. From(r, j) = From(r, j + 1) * 2 + 1 /\ From(e, j) = (From(r, j + 1) + 1) * 2 + 0
    BY <1>4, <2>1, <2>2
  <2> QED
    BY <2>2, <2>3
<1> HIDE DEF T
<1>10. 0..z \subseteq T
  BY <1>0, <1>8, <1>9, InductionDown
<1>11. k \in T /\ k >= k
  BY <1>0, <1>2, <1>10
<1> QED
  BY <1>11 DEF T

LEMMA BorrowedKeepsValue ==
  ASSUME NEW r \in Slid, NEW i \in BitPlaces, i + 4 \in BitPlaces, InWork(r, i, 4),
         r[i + 4] = 1, 0 < r[i], r[i] < 16,
         NEW e, e = [Carried(r, i + 4) EXCEPT ![i] = r[i] - 16]
  PROVE  From(e, 0) = From(r, 0)
<1>0. i \in Nat /\ Bits \in Nat /\ i + 4 < Bits /\ \A j \in BitPlaces : j \in Nat
  BY BitNumbers DEF BitPlaces
<1>1. e \in Slid /\ r[Bits-1] = 0
  BY BitBorrowed
<1>2. r \in BitFunctions /\ e \in BitFunctions
  BY <1>1, SlidAreInt
<1>3. \A j \in BitPlaces : j >= i + 4 => r[j] \in 0..1
  <2>1. \A j \in BitPlaces : j >= i + 4 => j > i
    BY <1>0
  <2> QED
    BY <2>1 DEF InWork, BitsAbove
<1>4. e[i] = r[i] - 16 /\ \A j \in BitPlaces : j # i => e[j] = Carried(r, i + 4)[j]
  <2>1. Carried(r, i + 4) = [j \in BitPlaces |-> Carried(r, i + 4)[j]]
    BY DEF Carried
  <2> QED
    BY <2>1
<1>5. \A j \in BitPlaces : j < i + 4 => Carried(r, i + 4)[j] = r[j]
  <2>1. \A j \in BitPlaces : j < i + 4 => ~ (j >= i + 4)
    BY <1>0
  <2> QED
    BY <2>1 DEF Carried
<1>6. From(e, i + 4) = From(r, i + 4) + 1
  <2>1. \A j \in BitPlaces : j >= i + 4 => e[j] = Carried(r, i + 4)[j]
    <3>1. \A j \in BitPlaces : j >= i + 4 => j # i
      BY <1>0
    <3> QED
      BY <1>4, <3>1
  <2> QED
    BY <1>1, <1>3, <2>1, CarriedAddsOne
<1>7. \A k \in BitPlaces : i < k /\ k < i + 4 => e[k] = r[k]
  <2>1. \A k \in BitPlaces : i < k => k # i
    BY <1>0
  <2> QED
    BY <1>4, <1>5, <2>1
<1>8. \A k \in BitPlaces : k < i => e[k] = r[k]
  <2>1. \A k \in BitPlaces : k < i => k # i /\ k < i + 4
    BY <1>0
  <2> QED
    BY <1>4, <1>5, <2>1
<1>9. e[i] = r[i] - 1 * Two[4]
  <2>1. 1 * Two[4] = 16
    BY TwoIs
  <2> QED
    BY <1>4, <2>1
<1> DEFINE c == 1
           b == 4
<1>10. /\ c \in Int /\ b \in 1..6 /\ i + b \in BitPlaces
       /\ From(e, i + b) = From(r, i + b) + c /\ e[i] = r[i] - c * Two[b]
  BY <1>6, <1>9
<1>11. \A k \in BitPlaces : i < k /\ k < i + b => e[k] = r[k]
  BY <1>7
<1> HIDE DEF b, c
<1>12. HasMoved(r, e, i, b, c)
  BY <1>8, <1>10, <1>11 DEF HasMoved
<1> QED
  BY <1>2, <1>10, <1>12, ValueMoves, Zenon

(* The bits of a byte, and the number they stand for. *)
LEMMA ByteOfBits ==
  ASSUME NEW x \in 0..255
  PROVE  x = (x % 2) + 2 * ((x \div 2) % 2) + 4 * ((x \div 4) % 2) + 8 * ((x \div 8) % 2)
             + 16 * ((x \div 16) % 2) + 32 * ((x \div 32) % 2) + 64 * ((x \div 64) % 2)
             + 128 * ((x \div 128) % 2)
  OBVIOUS

(* Eight doublings. *)
LEMMA EightPlaces ==
  ASSUME NEW b \in [0..7 -> Int], NEW f, f[8] \in Int, \A j \in 0..7 : f[j] = f[j + 1] * 2 + b[j]
  PROVE  f[0] = 256 * f[8] + (b[0] + 2 * b[1] + 4 * b[2] + 8 * b[3]
                              + 16 * b[4] + 32 * b[5] + 64 * b[6] + 128 * b[7])
<1>1. f[7] \in Int /\ f[7] = 2 * f[8] + b[7]
  OBVIOUS
<1>2. f[6] \in Int /\ f[6] = 4 * f[8] + b[6] + 2 * b[7]
  BY <1>1
<1>3. f[5] \in Int /\ f[5] = 8 * f[8] + b[5] + 2 * b[6] + 4 * b[7]
  BY <1>2
<1>4. f[4] \in Int /\ f[4] = 16 * f[8] + b[4] + 2 * b[5] + 4 * b[6] + 8 * b[7]
  BY <1>3
<1>5. f[3] \in Int /\ f[3] = 32 * f[8] + b[3] + 2 * b[4] + 4 * b[5] + 8 * b[6] + 16 * b[7]
  BY <1>4
<1>6. f[2] \in Int /\ f[2] = 64 * f[8] + b[2] + 2 * b[3] + 4 * b[4] + 8 * b[5] + 16 * b[6] + 32 * b[7]
  BY <1>5
<1>7. /\ f[1] \in Int
      /\ f[1] = 128 * f[8] + b[1] + 2 * b[2] + 4 * b[3] + 8 * b[4] + 16 * b[5] + 32 * b[6] + 64 * b[7]
  BY <1>6
<1> QED
  BY <1>7

LEMMA BitsOfByte ==
  ASSUME NEW s \in [0..Bytes-1 -> 0..255], NEW n \in 0..Bytes-1
  PROVE  From(BitsOf(s), 8 * n) = s[n] + 256 * From(BitsOf(s), 8 * n + 8)
<1> DEFINE r == BitsOf(s)
           x == s[n]
           b == [j \in 0..7 |-> (x \div Two[j]) % 2]
           f == [j \in 0..8 |-> From(r, 8 * n + j)]
<1>1. x \in 0..255
  BY Zenon
<1>2. r \in BitFunctions
  BY BitsAre
<1>3. ASSUME NEW j \in 0..7
      PROVE  f[j] = f[j + 1] * 2 + b[j] /\ b[j] \in Int
  <2>1. /\ 8 * n + j \in 0..Bits-1 /\ 8 * n + j \in BitPlaces
        /\ (8 * n + j) \div 8 = n /\ ((8 * n + j) % 8) = j
        /\ (8 * n + j) + 1 = 8 * n + (j + 1) /\ j \in 0..8 /\ j + 1 \in 0..8
    BY BitNumbers, MultNumbers DEF BitPlaces
  <2>2. r[8 * n + j] = b[j]
    BY <2>1 DEF BitsOf, Bit
  <2>3. r[8 * n + j] \in Int
    BY <1>2, <2>1 DEF BitFunctions
  <2>4. f[j] = From(r, 8 * n + j) /\ f[j + 1] = From(r, 8 * n + (j + 1))
    BY <2>1
  <2> HIDE DEF r, b, f
  <2>5. From(r, 8 * n + j) = From(r, (8 * n + j) + 1) * 2 + r[8 * n + j]
    BY <1>2, <2>1, FromIs
  <2> QED
    BY <2>1, <2>2, <2>3, <2>4, <2>5
<1>4. /\ b[0] = x % 2 /\ b[1] = (x \div 2) % 2 /\ b[2] = (x \div 4) % 2
      /\ b[3] = (x \div 8) % 2 /\ b[4] = (x \div 16) % 2 /\ b[5] = (x \div 32) % 2
      /\ b[6] = (x \div 64) % 2 /\ b[7] = (x \div 128) % 2
  <2> HIDE DEF x
  <2>1. x \div 1 = x
    BY <1>1
  <2> QED
    BY <2>1, TwoIs
<1>5. b \in [0..7 -> Int]
  <2>1. b = [j \in 0..7 |-> b[j]]
    OBVIOUS
  <2> HIDE DEF b
  <2> QED
    BY <1>3, <2>1
<1>6. f[0] = From(r, 8 * n) /\ f[8] = From(r, 8 * n + 8) /\ f[8] \in Int
  <2>1. 8 * n + 8 \in 0..Bits /\ 8 * n + 0 = 8 * n /\ 0 \in 0..8 /\ 8 \in 0..8
    BY BitNumbers, MultNumbers
  <2>2. From(r, 8 * n + 8) \in Int
    BY <1>2, <2>1, FromIs
  <2> HIDE DEF r
  <2> QED
    BY <2>1, <2>2
<1> HIDE DEF r, x, b, f
<1>7. x = b[0] + 2 * b[1] + 4 * b[2] + 8 * b[3] + 16 * b[4] + 32 * b[5] + 64 * b[6] + 128 * b[7]
  BY <1>1, <1>4, ByteOfBits
<1>8. f[0] = 256 * f[8] + x
  <2>1. \A j \in 0..7 : f[j] = f[j + 1] * 2 + b[j]
    BY <1>3
  <2> QED
    BY <1>5, <1>6, <1>7, <2>1, EightPlaces
<1>9. f[0] = x + 256 * f[8]
  <2>1. x \in Int
    BY <1>1
  <2> QED
    BY <1>6, <1>8, <2>1
<1> QED
  BY <1>6, <1>9 DEF r, x

(* The bits that slide begins with stand for the number of the bytes. *)
LEMMA BitsKeepValue ==
  ASSUME NEW s \in [0..Bytes-1 -> 0..255]
  PROVE  From(BitsOf(s), 0) = ValueOf(s)
<1> DEFINE r == BitsOf(s)
<1>1. r \in BitFunctions
  BY BitsAre
<1>2. PICK v : /\ v[0] = 0 /\ ValueOf(s) = v[Bytes]
               /\ \A k \in 1..Bytes : v[k] = v[k - 1] + s[k - 1] * Power16[2 * (k - 1)]
  BY ValueOfIs
<1> DEFINE T == {k \in 0..Bytes : v[k] \in Int /\ From(r, 0) = v[k] + From(r, 8 * k) * Power16[2 * k]}
<1>3. \A k \in 0..Bytes : From(r, 8 * k) \in Int
  <2>1. \A k \in 0..Bytes : 8 * k \in 0..Bits
    BY BitNumbers, MultNumbers
  <2> HIDE DEF r
  <2> QED
    BY <1>1, <2>1, FromIs
<1>4. \A n \in 0..Bytes-1 : From(r, 8 * n) = s[n] + 256 * From(r, 8 * n + 8)
  BY BitsOfByte
<1> HIDE DEF r
<1>5. 0 \in T
  <2>1. 0 \in 0..Bytes /\ 8 * 0 = 0 /\ 2 * 0 = 0 /\ 0 \in 0..Digits+1
    BY MultNumbers
  <2>2. From(r, 0) \in Int /\ Power16[0] = 1
    BY <1>3, <2>1, Power16Is
  <2>3. From(r, 0) = v[0] + From(r, 8 * 0) * Power16[2 * 0]
    BY <1>2, <2>1, <2>2
  <2> QED
    BY <1>2, <2>1, <2>3
<1>6. ASSUME NEW n \in 0..Bytes-1, n \in T PROVE n + 1 \in T
  <2> DEFINE W == Power16[2 * n]
             x == s[n]
             f == From(r, 8 * n)
             g == From(r, 8 * n + 8)
  <2>1. /\ 2 * n \in 0..Digits+1 /\ 2 * n + 1 \in 1..Digits+1 /\ 2 * n + 2 \in 1..Digits+1
        /\ (2 * n + 1) - 1 = 2 * n /\ (2 * n + 2) - 1 = 2 * n + 1
        /\ 2 * (n + 1) = 2 * n + 2 /\ 8 * (n + 1) = 8 * n + 8
        /\ n + 1 \in 1..Bytes /\ (n + 1) - 1 = n /\ n + 1 \in 0..Bytes /\ n \in 0..Bytes
    BY MultNumbers
  <2>2. W \in Int /\ Power16[2 * n + 2] = 256 * W
    <3>1. Power16[2 * n + 1] = 16 * Power16[2 * n] /\ Power16[2 * n + 2] = 16 * Power16[2 * n + 1]
      BY <2>1, Power16Is
    <3>2. Power16[2 * n] \in Int
      BY <2>1, Power16Is
    <3> QED
      BY <3>1, <3>2
  <2>3. x \in Int
    <3>1. x \in 0..255
      BY Zenon
    <3> HIDE DEF x
    <3> QED
      BY <3>1
  <2>4. f \in Int /\ g \in Int /\ f = x + 256 * g
    <3>1. f \in Int /\ From(r, 8 * (n + 1)) \in Int
      BY <1>3, <2>1
    <3> QED
      BY <1>4, <2>1, <3>1
  <2>5. v[n] \in Int /\ From(r, 0) = v[n] + f * W
    BY <1>6
  <2>6. v[n + 1] = v[n] + x * W
    BY <1>2, <2>1
  <2>7. Power16[2 * (n + 1)] = 256 * W /\ From(r, 8 * (n + 1)) = g
    BY <2>1, <2>2
  <2> HIDE DEF W, x, f, g
  <2>8. x * W \in Int /\ v[n + 1] \in Int
    BY <2>2, <2>3, <2>5, <2>6
  <2>9. f * W = x * W + g * (256 * W)
    BY <2>2, <2>3, <2>4
  <2>10. g * (256 * W) \in Int
    BY <2>2, <2>4
  <2>11. From(r, 0) = v[n + 1] + g * (256 * W)
    BY <2>5, <2>6, <2>8, <2>9, <2>10
  <2>12. From(r, 0) = v[n + 1] + From(r, 8 * (n + 1)) * Power16[2 * (n + 1)]
    BY <2>7, <2>11
  <2> QED
    BY <2>1, <2>8, <2>12
<1> HIDE DEF T
<1>7. 0..Bytes \subseteq T
  BY <1>5, <1>6, InductionUpTo, MultNumbers
<1>8. From(r, 0) = v[Bytes] + From(r, 8 * Bytes) * Power16[2 * Bytes] /\ v[Bytes] \in Int
  <2>1. Bytes \in 0..Bytes
    BY MultNumbers
  <2> QED
    BY <1>7, <2>1 DEF T
<1>9. From(r, 8 * Bytes) = 0 /\ Power16[2 * Bytes] \in Int
  <2>1. 8 * Bytes = Bits /\ 2 * Bytes \in 0..Digits+1
    BY BitNumbers, MultNumbers
  <2> QED
    BY <1>1, <2>1, FromIs, Power16Is
<1> QED
  BY <1>2, <1>8, <1>9 DEF r

KeptValue ==
  /\ From(slid[1], 0) = ValueOf(asked.a) /\ From(slid[2], 0) = ValueOf(asked.b)

LEMMA PutKeepsValue ==
  ASSUME SlideInv, KeptValue, NEW e, Put(e), From(e, 0) = From(slid[which], 0)
  PROVE  KeptValue'
<1>1. slid' = [slid EXCEPT ![which] = e] /\ asked' = asked
  BY DEF Put
<1>2. which \in 1..2 /\ slid \in [1..2 -> Slid]
  BY DEF SlideInv, DoubleTypes
<1>3. slid'[which] = e /\ \A w \in 1..2 : w # which => slid'[w] = slid[w]
  BY <1>1, <1>2
<1>4. ASSUME NEW w \in 1..2 PROVE From(slid'[w], 0) = From(slid[w], 0)
  <2>1. CASE w = which
    BY <1>3, <2>1
  <2>2. CASE w # which
    BY <1>3, <2>2
  <2> QED
    BY <2>1, <2>2
<1>5. From(slid'[1], 0) = From(slid[1], 0) /\ From(slid'[2], 0) = From(slid[2], 0)
  <2>1. 1 \in 1..2 /\ 2 \in 1..2
    OBVIOUS
  <2> QED
    BY <1>4, <2>1
<1>6. asked'.a = asked.a /\ asked'.b = asked.b
  BY <1>1
<1> HIDE DEF KeptValue
<1>7. From(slid'[1], 0) = ValueOf(asked'.a)
  BY <1>5, <1>6 DEF KeptValue
<1>8. From(slid'[2], 0) = ValueOf(asked'.b)
  BY <1>5, <1>6 DEF KeptValue
<1> QED
  BY <1>7, <1>8 DEF KeptValue

LEMMA KeptValueStart == DoubleInit => KeptValue
<1> SUFFICES ASSUME DoubleInit PROVE KeptValue
  OBVIOUS
<1>1. asked \in Sums /\ slid[1] = BitsOf(asked.a) /\ slid[2] = BitsOf(asked.b)
  BY DEF DoubleInit
<1>2. asked.a \in [0..Bytes-1 -> 0..255] /\ asked.b \in [0..Bytes-1 -> 0..255]
  BY <1>1, SumsAssumption
<1> QED
  BY <1>1, <1>2, BitsKeepValue DEF KeptValue

LEMMA KeptValueStep == SlideInv /\ KeptValue /\ [DoubleNext]_doubleVars => KeptValue'
<1> SUFFICES ASSUME SlideInv, KeptValue, [DoubleNext]_doubleVars PROVE KeptValue'
  OBVIOUS
<1>1. CASE slid' = slid /\ asked' = asked
  BY <1>1 DEF KeptValue
<1>2. CASE SkipBit
  <2>1. Put(slid[which])
    BY <1>2 DEF SkipBit
  <2> QED
    BY <2>1, PutKeepsValue
<1>3. CASE AbsorbBit
  <2> DEFINE r == slid[which]
             i == place
             b == offset
             e == [r EXCEPT ![i] = r[i] + Two[b], ![i + b] = 0]
  <2>1. Inner /\ Ahead # 0 /\ Digit2 + Ahead <= 15
        /\ Put([r EXCEPT ![i] = @ + Ahead, ![i + b] = 0])
    BY <1>3 DEF AbsorbBit
  <2>2. /\ r \in Slid /\ i \in BitPlaces /\ b \in 1..6 /\ i + b \in BitPlaces
        /\ InWork(r, i, b) /\ r[i] # 0
    BY <2>1, InnerIs
  <2>3. Ahead = Two[b] /\ b <= 3 /\ r[i + b] = 1
    BY <2>1, AheadIs
  <2>4. b \in 1..3
    BY <2>2, <2>3
  <2>5. Put(e)
    BY <2>1, <2>2, <2>3 DEF Slid
  <2>6. e \in Slid
    BY <2>2, <2>4, BitAbsorbed
  <2>7. From(e, 0) = From(r, 0)
    BY <2>2, <2>3, <2>6, AbsorbedKeepsValue
  <2> HIDE DEF e
  <2> QED
    BY <2>5, <2>7, PutKeepsValue
<1>4. CASE BorrowBit
  <2> DEFINE r == slid[which]
             i == place
             e == [Carried(r, i + 4) EXCEPT ![i] = r[i] - 16]
  <2>1. /\ Inner /\ Ahead # 0 /\ Digit2 + Ahead > 15 /\ Digit2 - Ahead >= -15
        /\ Put([Carried(r, i + offset) EXCEPT ![i] = @ - Ahead])
    BY <1>4 DEF BorrowBit
  <2>2. offset = 4 /\ Ahead = 16 /\ 0 < Digit2 /\ Digit2 < 16 /\ slid[which][place + offset] = 1
    BY <2>1, AheadIs
  <2>3. /\ r \in Slid /\ i \in BitPlaces /\ i + 4 \in BitPlaces /\ InWork(r, i, 4)
        /\ Digit2 = r[i] /\ r[i + 4] = 1
    BY <2>1, <2>2, InnerIs
  <2>4. Carried(r, i + 4)[i] = r[i]
    <3>1. ~ (i >= i + 4)
      BY <2>3 DEF BitPlaces
    <3> QED
      BY <2>3, <3>1 DEF Carried
  <2>5. Put(e)
    <3>1. Carried(r, i + 4) = [j \in BitPlaces |-> Carried(r, i + 4)[j]]
      BY DEF Carried
    <3>2. [Carried(r, i + 4) EXCEPT ![i] = @ - 16] = e
      BY <2>3, <2>4, <3>1
    <3> QED
      BY <2>1, <2>2, <3>2
  <2>6. From(e, 0) = From(r, 0)
    BY <2>2, <2>3, BorrowedKeepsValue
  <2> HIDE DEF e
  <2> QED
    BY <2>5, <2>6, PutKeepsValue
<1>5. CASE NextPlace
  BY <1>1, <1>5 DEF NextPlace
<1>6. CASE FindTop
  BY <1>1, <1>6 DEF FindTop
<1>7. CASE AddPlace
  BY <1>1, <1>7 DEF AddPlace
<1>8. CASE Added
  BY <1>1, <1>8 DEF Added
<1>9. CASE UNCHANGED doubleVars
  BY <1>1, <1>9 DEF doubleVars
<1> QED
  BY <1>2, <1>3, <1>4, <1>5, <1>6, <1>7, <1>8, <1>9 DEF DoubleNext

-----------------------------------------------------------------------------
(* The sum.                                                                *)

LEMMA TimesOne ==
  ASSUME NEW q, NEW N, HasOrder(q, N)
  PROVE  TimesOf(q, N, 1) = q
<1>1. TimesOf(q, N, 0 + 1) = Plus(TimesOf(q, N, 0), q)
  <2>1. 0 \in Int
    OBVIOUS
  <2> QED
    BY <2>1, TimesNext
<1>2. TimesOf(q, N, 0) = Neutral /\ q \in Curve /\ Neutral \in Curve
  BY TimesZero, NeutralOnCurve DEF HasOrder
<1>3. Plus(Neutral, q) = q
  BY <1>2, PlusCommutes, PlusNeutral
<1>4. 0 + 1 = 1
  OBVIOUS
<1> QED
  BY <1>1, <1>2, <1>3, <1>4

(* Four points in another order. *)
LEMMA PlusMixed ==
  ASSUME NEW a \in Curve, NEW b \in Curve, NEW c \in Curve, NEW d \in Curve
  PROVE  Plus(Plus(a, b), Plus(c, d)) = Plus(Plus(a, c), Plus(b, d))
<1>1. Plus(b, d) \in Curve /\ Plus(c, d) \in Curve
  BY PlusClosed
<1>2. Plus(Plus(a, b), Plus(c, d)) = Plus(a, Plus(b, Plus(c, d)))
  BY <1>1, PlusAssociative
<1>3. Plus(b, Plus(c, d)) = Plus(Plus(b, c), d)
  BY PlusAssociative
<1>4. Plus(b, c) = Plus(c, b)
  BY PlusCommutes
<1>5. Plus(Plus(c, b), d) = Plus(c, Plus(b, d))
  BY PlusAssociative
<1>6. Plus(a, Plus(c, Plus(b, d))) = Plus(Plus(a, c), Plus(b, d))
  BY <1>1, PlusAssociative
<1> QED
  BY <1>2, <1>3, <1>4, <1>5, <1>6

LEMMA PlusSwapped ==
  ASSUME NEW a \in Curve, NEW b \in Curve, NEW c \in Curve
  PROVE  Plus(Plus(a, b), c) = Plus(Plus(a, c), b)
<1>1. Plus(Plus(a, b), c) = Plus(a, Plus(b, c)) /\ Plus(Plus(a, c), b) = Plus(a, Plus(c, b))
  BY PlusAssociative
<1>2. Plus(b, c) = Plus(c, b)
  BY PlusCommutes
<1> QED
  BY <1>1, <1>2

(* A, 3A, 5A, ... *)
LEMMA OddMultiplesAre ==
  ASSUME NEW q, NEW N, HasOrder(q, N), NEW p \in Point3, Represents(p, q)
  PROVE  \A k \in 0..7 : /\ OddMultiples(p)[k] \in CachedPoint
                         /\ IsCached(OddMultiples(p)[k], TimesOf(q, N, 2 * k + 1))
<1> DEFINE p2 == ToP3(GeDbl(P2(p)))
           q2 == Plus(q, q)
           next(v) == ToP3(GeAdd(p2, ToCached(v)))
           S == {v \in Point3 : \E s \in Curve : Represents(v, s)}
           G == [k \in 1..7 |-> [v \in S |-> next(v)]]
           body(f) == [k \in 0..7 |-> IF k = 0 THEN p ELSE next(f[k - 1])]
           h == CHOOSE f : f = body(f)
<1>1. q \in Curve /\ q2 \in Curve /\ q2 = TimesOf(q, N, 2)
  <2>1. q \in Curve
    BY DEF HasOrder
  <2>2. TimesOf(q, N, 1 + 1) = Plus(TimesOf(q, N, 1), TimesOf(q, N, 1))
    <3>1. 1 \in Int
      OBVIOUS
    <3> QED
      BY <3>1, TimesSum
  <2>3. 1 + 1 = 2
    OBVIOUS
  <2> QED
    BY <2>1, <2>2, <2>3, TimesOne, PlusClosed
<1>2. p2 \in Point3 /\ Represents(p2, q2)
  <2>1. P2(p) \in Point2
    BY P2Type DEF Point2, Point3
  <2>2. StandsFor(P2(p), q)
    BY DEF Represents, StandsFor, P2
  <2>3. GeDbl(P2(p)) \in Point3 /\ Completes(GeDbl(P2(p)), q2)
    BY <1>1, <2>1, <2>2, GeDblPlus
  <2>4. q2 \in Coordinates
    BY <1>1, CurveIs
  <2> HIDE DEF q2
  <2>5. p2 \in Point3
    BY <2>3, ToP3Type DEF Point3
  <2> QED
    BY <2>3, <2>4, <2>5, ToP3Represents
<1>3. ASSUME NEW v \in Point3, NEW s \in Curve, Represents(v, s)
      PROVE  next(v) \in Point3 /\ Represents(next(v), Plus(q2, s)) /\ Plus(q2, s) \in Curve
  <2>1. ToCached(v) \in CachedPoint /\ IsCached(ToCached(v), s)
    BY <1>3, ToCachedIs
  <2> HIDE DEF p2, q2
  <2>2. GeAdd(p2, ToCached(v)) \in Point3 /\ Completes(GeAdd(p2, ToCached(v)), Plus(q2, s))
    BY <1>1, <1>2, <2>1, GeAddPlus
  <2>3. Plus(q2, s) \in Curve /\ Plus(q2, s) \in Coordinates
    BY <1>1, PlusClosed, CurveIs
  <2>4. next(v) \in Point3
    BY <2>2, ToP3Type DEF Point3
  <2> QED
    BY <2>2, <2>3, <2>4, ToP3Represents
<1> HIDE DEF p2, q2
<1>4. OddMultiples(p) = [k \in 0..7 |-> ToCached(h[k])]
  BY DEF OddMultiples, p2
<1> HIDE DEF next
<1>5. \E f : f = body(f)
  <2>1. G \in Steps(7, S)
    <3>1. \A v \in S : next(v) \in S
      BY <1>3
    <3> HIDE DEF S
    <3> QED
      BY <3>1 DEF Steps
  <2>2. \A k \in 1..7 : \A v \in S : G[k][v] = next(v)
    OBVIOUS
  <2>3. p \in S /\ 7 \in Nat
    BY <1>1
  <2> HIDE DEF S, G
  <2>4. PICK f \in [0..7 -> S] : IsIterated(f, 7, p, G)
    BY <2>1, <2>3, RecursionExists, Zenon
  <2>5. ASSUME NEW k \in 1..7 PROVE f[k] = next(f[k - 1])
    <3>1. f[k] = G[k][f[k - 1]] /\ k - 1 \in 0..7
      BY <2>4 DEF IsIterated
    <3>2. f[k - 1] \in S
      BY <3>1
    <3> QED
      BY <2>2, <3>1, <3>2
  <2>6. f = body(f)
    BY <2>4, <2>5 DEF IsIterated
  <2> QED
    BY <2>6
<1>6. h = body(h)
  BY <1>5
<1> HIDE DEF h
<1>7. \A k \in 0..7 : h[k] = IF k = 0 THEN p ELSE next(h[k - 1])
  BY <1>6, Zenon
<1>8. h[0] = p /\ \A k \in 1..7 : h[k] = next(h[k - 1])
  BY <1>7
<1> HIDE DEF body, S
<1> DEFINE T == {k \in 0..7 : h[k] \in Point3 /\ Represents(h[k], TimesOf(q, N, 2 * k + 1))}
<1>9. 0 \in T
  <2>1. 2 * 0 + 1 = 1
    OBVIOUS
  <2> QED
    BY <1>8, <2>1, TimesOne
<1>10. ASSUME NEW k \in 0..7-1, k \in T PROVE k + 1 \in T
  <2>1. k + 1 \in 1..7 /\ (k + 1) - 1 = k /\ 2 * (k + 1) + 1 = 2 + (2 * k + 1) /\ 2 * k + 1 \in Int
    OBVIOUS
  <2>2. h[k] \in Point3 /\ Represents(h[k], TimesOf(q, N, 2 * k + 1))
    BY <1>10
  <2>3. TimesOf(q, N, 2 * k + 1) \in Curve
    BY <2>1, TimesOnCurve
  <2>4. next(h[k]) \in Point3 /\ Represents(next(h[k]), Plus(q2, TimesOf(q, N, 2 * k + 1)))
    BY <1>3, <2>2, <2>3
  <2>5. Plus(q2, TimesOf(q, N, 2 * k + 1)) = TimesOf(q, N, 2 * (k + 1) + 1)
    <3>1. 2 \in Int
      OBVIOUS
    <3>2. TimesOf(q, N, 2 + (2 * k + 1)) = Plus(TimesOf(q, N, 2), TimesOf(q, N, 2 * k + 1))
      BY <2>1, <3>1, TimesSum
    <3> QED
      BY <1>1, <2>1, <3>2
  <2>6. h[k + 1] = next(h[k])
    BY <1>8, <2>1
  <2> QED
    BY <2>1, <2>4, <2>5, <2>6
<1> HIDE DEF T
<1>11. 0..7 \subseteq T
  <2>1. 7 \in Nat
    OBVIOUS
  <2> QED
    BY <1>9, <1>10, <2>1, InductionUpTo
<1>12. ASSUME NEW k \in 0..7
       PROVE  /\ OddMultiples(p)[k] \in CachedPoint
              /\ IsCached(OddMultiples(p)[k], TimesOf(q, N, 2 * k + 1))
  <2>1. h[k] \in Point3 /\ Represents(h[k], TimesOf(q, N, 2 * k + 1))
    BY <1>11 DEF T
  <2>2. 2 * k + 1 \in Int
    OBVIOUS
  <2>3. TimesOf(q, N, 2 * k + 1) \in Curve
    BY <2>2, TimesOnCurve
  <2>4. ToCached(h[k]) \in CachedPoint /\ IsCached(ToCached(h[k]), TimesOf(q, N, 2 * k + 1))
    BY <2>1, <2>3, ToCachedIs
  <2>5. OddMultiples(p)[k] = ToCached(h[k])
    BY <1>4
  <2> QED
    BY <2>4, <2>5
<1> QED
  BY <1>12

-----------------------------------------------------------------------------
(* A digit's multiple of A or of B is added.                               *)

LEMMA MultiplesAdd ==
  ASSUME NEW q \in Curve, NEW N \in Nat, NEW k \in 0..N, NEW m \in 0..N, k + m <= N
  PROVE  MultiplesOf(q, N)[k + m] = Plus(MultiplesOf(q, N)[k], MultiplesOf(q, N)[m])
<1> DEFINE M == MultiplesOf(q, N)
           T == {j \in 0..N : k + j <= N => M[k + j] = Plus(M[k], M[j])}
<1>0. q \in [x : Fe, y : Fe]
  BY CurveIs DEF Coordinates
<1>1. M[0] = Neutral /\ \A j \in 1..N : M[j] = Plus(M[j - 1], q)
  BY <1>0, MultiplesAre, Zenon DEF Neutral
<1>2. \A j \in 0..N : M[j] \in Curve
  BY MultiplesOnCurve
<1> HIDE DEF M
<1>3. 0 \in T
  <2>1. Plus(M[k], Neutral) = M[k] /\ k + 0 = k
    BY <1>2, PlusNeutral
  <2> QED
    BY <1>1, <2>1
<1>4. ASSUME NEW j \in 0..N-1, j \in T PROVE j + 1 \in T
  <2>1. SUFFICES ASSUME k + (j + 1) <= N PROVE M[k + (j + 1)] = Plus(M[k], M[j + 1])
    OBVIOUS
  <2>2. /\ k + j \in 0..N /\ j \in 0..N /\ j + 1 \in 1..N /\ (j + 1) - 1 = j
        /\ k + (j + 1) \in 1..N /\ (k + (j + 1)) - 1 = k + j /\ k + j <= N
    BY <2>1
  <2>3. M[k + j] = Plus(M[k], M[j])
    BY <1>4, <2>2
  <2>4. M[k + (j + 1)] = Plus(M[k + j], q) /\ M[j + 1] = Plus(M[j], q)
    BY <1>1, <2>2
  <2>5. Plus(Plus(M[k], M[j]), q) = Plus(M[k], Plus(M[j], q))
    BY <1>2, <2>2, PlusAssociative
  <2> QED
    BY <2>3, <2>4, <2>5
<1> HIDE DEF T
<1>5. 0..N \subseteq T
  BY <1>3, <1>4, InductionUpTo
<1> QED
  BY <1>5 DEF T, M

(* Doubling reaches the same multiples as adding one by one. *)
LEMMA MultiplesAlike ==
  ASSUME NEW q \in Curve, NEW k \in 0..8*Order
  PROVE  Multiples[q][k] = MultiplesOf(q, 8 * Order)[k]
<1> DEFINE N == 8 * Order
           M == MultiplesOf(q, N)
           next(v, j) == IF (j % 2) = 0 THEN Plus(v, v) ELSE Plus(Plus(v, v), q)
           body(f) == [j \in 0..N |-> IF j = 0 THEN Neutral ELSE next(f[j \div 2], j)]
           h == CHOOSE f : f = body(f)
<1>1. N \in Nat
  BY MultNumbers
<1>2. q \in [x : Fe, y : Fe]
  BY CurveIs DEF Coordinates
<1>3. Multiples[q] = h
  BY DEF Multiples, Neutral
<1> HIDE DEF N
<1>4. /\ M[0] = Neutral /\ \A j \in 1..N : M[j] = Plus(M[j - 1], q)
      /\ M = [j \in 0..N |-> M[j]]
  BY <1>1, <1>2, MultiplesAre, Zenon DEF Neutral
<1>5. ASSUME NEW j \in 1..N PROVE M[j] = next(M[j \div 2], j)
  <2> DEFINE i == j \div 2
  <2>1. /\ i \in 0..N /\ i + i <= N /\ i + i \in 0..N
        /\ (j % 2) = 0 => j = i + i
        /\ (j % 2) # 0 => j - 1 = i + i
    BY <1>1
  <2> HIDE DEF i, M
  <2>2. M[i + i] = Plus(M[i], M[i])
    BY <1>1, <2>1, MultiplesAdd DEF M
  <2>3. CASE (j % 2) = 0
    BY <2>1, <2>2, <2>3 DEF i
  <2>4. CASE (j % 2) # 0
    <3>1. M[j] = Plus(M[j - 1], q)
      BY <1>4
    <3> QED
      BY <2>1, <2>2, <2>4, <3>1 DEF i
  <2> QED
    BY <2>3, <2>4
<1> HIDE DEF M
<1>6. M = body(M)
  <2>0. \A j \in 0..N : j # 0 => j \in 1..N
    BY <1>1
  <2> HIDE DEF next
  <2>1. \A j \in 0..N : M[j] = IF j = 0 THEN Neutral ELSE next(M[j \div 2], j)
    BY <1>4, <1>5, <2>0
  <2> QED
    BY <1>4, <2>1
<1>7. h = body(h)
  BY <1>6
<1> HIDE DEF h
<1>8. \A j \in 0..N : h[j] = IF j = 0 THEN Neutral ELSE next(h[j \div 2], j)
  BY <1>7, Zenon
<1>9. {j \in 0..N : h[j] # M[j]} = {}
  <2> DEFINE T == {j \in 0..N : h[j] # M[j]}
  <2>1. SUFFICES ASSUME T # {} PROVE FALSE
    OBVIOUS
  <2>2. T \subseteq Nat
    BY <1>1
  <2>3. PICK x \in T : \A y \in T : x <= y
    <3> HIDE DEF T
    <3> QED
      BY <2>1, <2>2, LeastNumber
  <2>4. x \in 0..N /\ h[x] # M[x]
    BY <2>3
  <2>5. x # 0
    BY <1>1, <1>4, <1>8, <2>4
  <2>6. x \in 1..N /\ x \div 2 \in 0..N /\ x \div 2 < x
    BY <1>1, <2>4, <2>5
  <2>7. h[x \div 2] = M[x \div 2]
    <3>1. x \div 2 \notin T
      <4> HIDE DEF T
      <4>1. \A y \in T : x <= y
        BY <2>3
      <4> QED
        BY <1>1, <2>6, <4>1
    <3> QED
      BY <2>6, <3>1
  <2>8. h[x] = next(h[x \div 2], x)
    BY <1>8, <2>4, <2>5
  <2>9. M[x] = next(M[x \div 2], x)
    BY <1>5, <2>6
  <2> QED
    BY <2>4, <2>7, <2>8, <2>9
<1> QED
  BY <1>3, <1>9 DEF N, M

TimesA(n) == TimesOf(asked.A, 8 * Order, n)

LEMMA AHasOrder ==
  ASSUME asked \in Sums
  PROVE  /\ HasOrder(asked.A, 8 * Order) /\ asked.A \in Curve
         /\ \A m \in Int : \A n : Combination(m, n) = Plus(TimesA(m), TimesBase(n))
<1>1. asked.A \in Curve
  BY AskedIs
<1>2. 8 * Order \in Nat \ {0}
  BY MultNumbers
<1>3. \A k \in 0..8*Order : Multiples[asked.A][k] = MultiplesOf(asked.A, 8 * Order)[k]
  BY <1>1, MultiplesAlike
<1>4. MultiplesOf(asked.A, 8 * Order)[8 * Order] = Neutral
  <2>1. Multiples[asked.A][8 * Order] = Neutral
    BY <1>1, GroupOrderAssumption DEF Neutral
  <2>2. 8 * Order \in 0..8*Order
    BY <1>2
  <2> QED
    BY <1>3, <2>1, <2>2
<1>5. HasOrder(asked.A, 8 * Order)
  BY <1>1, <1>2, <1>4 DEF HasOrder
<1>6. ASSUME NEW m \in Int, NEW n PROVE Combination(m, n) = Plus(TimesA(m), TimesBase(n))
  <2>1. (m % (8 * Order)) \in 0..8*Order
    BY <1>2
  <2> QED
    BY <1>3, <2>1 DEF Combination, TimesA, TimesOf
<1> QED
  BY <1>1, <1>5, <1>6

(* An odd digit finds its multiple in a table of eight. *)
LEMMA DigitFindsEntry ==
  ASSUME NEW n \in -15..15, IsDone(n)
  PROVE  /\ n > 0 => (n \div 2) \in 0..7 /\ 2 * (n \div 2) + 1 = n
         /\ n < 0 => ((-n) \div 2) \in 0..7 /\ 2 * ((-n) \div 2) + 1 = -n
<1>1. ASSUME n > 0 PROVE (n \div 2) \in 0..7 /\ 2 * (n \div 2) + 1 = n
  <2>1. (n % 2) = 1 /\ n \in 1..15
    BY <1>1 DEF IsDone
  <2> QED
    BY <2>1
<1>2. ASSUME n < 0 PROVE ((-n) \div 2) \in 0..7 /\ 2 * ((-n) \div 2) + 1 = -n
  <2>1. (n % 2) = 1 /\ -n \in 1..15
    BY <1>2 DEF IsDone
  <2>2. ((-n) % 2) = 1
    BY <2>1
  <2> QED
    BY <2>1, <2>2
<1> QED
  BY <1>1, <1>2

LEMMA PlusNothing ==
  ASSUME NEW s \in Curve
  PROVE  Plus(s, Neutral) = s
  BY PlusNeutral

LEMMA AddAIs ==
  ASSUME asked \in Sums, NEW t \in Point3, NEW s \in Curve, Completes(t, s),
         NEW n \in -15..15, IsDone(n)
  PROVE  AddA(t, n) \in Point3 /\ Completes(AddA(t, n), Plus(s, TimesA(n)))
<1> DEFINE A  == asked.A
           N  == 8 * Order
           Ai == OddMultiples(Scaled(A))
           p  == ToP3(t)
<1>1. HasOrder(A, N) /\ A \in Curve
  BY AHasOrder
<1>2. Scaled(A) \in Point3 /\ Represents(Scaled(A), A)
  BY <1>1, ScaledRepresents
<1>3. \A k \in 0..7 : Ai[k] \in CachedPoint /\ IsCached(Ai[k], TimesOf(A, N, 2 * k + 1))
  BY <1>1, <1>2, OddMultiplesAre
<1>4. p \in Point3 /\ Represents(p, s)
  <2>1. s \in Coordinates
    BY CurveIs
  <2>2. p \in Point3
    BY ToP3Type DEF Point3
  <2> QED
    BY <2>1, <2>2, ToP3Represents
<1>5. AddA(t, n) = IF n > 0 THEN GeAdd(p, Ai[n \div 2])
                   ELSE IF n < 0 THEN GeSub(p, Ai[(-n) \div 2]) ELSE t
  BY DEF AddA
<1> HIDE DEF Ai, p, A, N
<1>6. CASE n > 0
  <2> DEFINE k == n \div 2
  <2>1. k \in 0..7 /\ 2 * k + 1 = n /\ n \in Int
    BY <1>6, DigitFindsEntry
  <2>2. Ai[k] \in CachedPoint /\ IsCached(Ai[k], TimesOf(A, N, n))
    BY <1>3, <2>1
  <2>3. TimesOf(A, N, n) \in Curve
    BY <1>1, <2>1, TimesOnCurve
  <2>4. AddA(t, n) = GeAdd(p, Ai[k])
    BY <1>5, <1>6
  <2> HIDE DEF k
  <2>5. AddA(t, n) \in Point3 /\ Completes(AddA(t, n), Plus(s, TimesOf(A, N, n)))
    BY <1>4, <2>2, <2>3, <2>4, GeAddPlus
  <2> QED
    BY <2>5 DEF TimesA, A, N
<1>7. CASE n < 0
  <2> DEFINE k == (-n) \div 2
             m == -n
  <2>1. k \in 0..7 /\ 2 * k + 1 = m /\ n \in Int /\ m \in Int /\ n = -m
    BY <1>7, DigitFindsEntry
  <2>2. AddA(t, n) = GeSub(p, Ai[k])
    BY <1>5, <1>7
  <2> HIDE DEF k, m
  <2>3. Ai[k] \in CachedPoint /\ IsCached(Ai[k], TimesOf(A, N, m))
    BY <1>3, <2>1
  <2>4. TimesOf(A, N, m) \in Curve
    BY <1>1, <2>1, TimesOnCurve
  <2>5. AddA(t, n) \in Point3 /\ Completes(AddA(t, n), Plus(s, Minus(TimesOf(A, N, m))))
    BY <1>4, <2>2, <2>3, <2>4, GeAddPlus
  <2>6. Minus(TimesOf(A, N, m)) = TimesOf(A, N, n)
    BY <1>1, <2>1, TimesMinus
  <2> QED
    BY <2>5, <2>6 DEF TimesA, A, N
<1>8. CASE n = 0
  <2>1. AddA(t, n) = t
    BY <1>5, <1>8
  <2>2. TimesOf(A, N, 0) = Neutral
    BY <1>1, TimesZero
  <2>3. Plus(s, TimesOf(A, N, n)) = s
    BY <1>8, <2>2, PlusNothing
  <2> QED
    BY <2>1, <2>3 DEF TimesA, A, N
<1> QED
  BY <1>6, <1>7, <1>8

LEMMA AddBIs ==
  ASSUME NEW t \in Point3, NEW s \in Curve, Completes(t, s), NEW n \in -15..15, IsDone(n)
  PROVE  AddB(t, n) \in Point3 /\ Completes(AddB(t, n), Plus(s, TimesBase(n)))
<1> DEFINE p == ToP3(t)
<1>1. p \in Point3 /\ Represents(p, s)
  <2>1. s \in Coordinates
    BY CurveIs
  <2>2. p \in Point3
    BY ToP3Type DEF Point3
  <2> QED
    BY <2>1, <2>2, ToP3Represents
<1>2. AddB(t, n) = IF n > 0 THEN GeMAdd(p, Bi[n \div 2])
                   ELSE IF n < 0 THEN GeMSub(p, Bi[(-n) \div 2]) ELSE t
  BY DEF AddB
<1>3. \A k \in 0..7 : Bi[k] = Precomp(TimesBase(2 * k + 1))
  BY DEF Bi
<1> HIDE DEF p
<1>4. CASE n > 0
  <2> DEFINE k == n \div 2
  <2>1. k \in 0..7 /\ 2 * k + 1 = n /\ n \in Int
    BY <1>4, DigitFindsEntry
  <2>2. AddB(t, n) = GeMAdd(p, Bi[k])
    BY <1>2, <1>4
  <2> HIDE DEF k
  <2>3. AddB(t, n) = GeMAdd(p, Precomp(TimesBase(n)))
    BY <1>3, <2>1, <2>2
  <2>4. TimesBase(n) \in Curve
    BY <2>1, TimesBaseOnCurve
  <2> QED
    BY <1>1, <2>3, <2>4, GeMAddPlus
<1>5. CASE n < 0
  <2> DEFINE k == (-n) \div 2
             m == -n
  <2>1. k \in 0..7 /\ 2 * k + 1 = m /\ n \in Int /\ m \in Int /\ n = -m
    BY <1>5, DigitFindsEntry
  <2>2. AddB(t, n) = GeMSub(p, Bi[k])
    BY <1>2, <1>5
  <2> HIDE DEF k, m
  <2>3. AddB(t, n) = GeMSub(p, Precomp(TimesBase(m)))
    BY <1>3, <2>1, <2>2
  <2>4. TimesBase(m) \in Curve
    BY <2>1, TimesBaseOnCurve
  <2>5. AddB(t, n) \in Point3 /\ Completes(AddB(t, n), Plus(s, Minus(TimesBase(m))))
    BY <1>1, <2>3, <2>4, GeMAddPlus
  <2>6. Minus(TimesBase(m)) = TimesBase(n)
    BY <2>1, TimesBaseMinus
  <2> QED
    BY <2>5, <2>6
<1>6. CASE n = 0
  <2>1. AddB(t, n) = t
    BY <1>2, <1>6
  <2>2. Plus(s, TimesBase(n)) = s
    BY <1>6, TimesBaseZero, PlusNothing
  <2> QED
    BY <2>1, <2>2
<1> QED
  BY <1>4, <1>5, <1>6

SumInv ==
  /\ phase \in {"slide", "top"} => sum = P2(P3Zero)
  /\ phase = "slide" => place >= 0
  /\ phase = "top" => From(slid[1], place + 1) = 0 /\ From(slid[2], place + 1) = 0
  /\ phase \in {"add", "done"} =>
       StandsFor(sum, Combination(From(slid[1], place + 1), From(slid[2], place + 1)))

LEMMA SlidFrom ==
  ASSUME DoubleTypes, NEW w \in 1..2
  PROVE  /\ slid[w] \in BitFunctions /\ From(slid[w], Bits) = 0
         /\ \A k \in 0..Bits : From(slid[w], k) \in Int
         /\ \A k \in 0..Bits-1 : From(slid[w], k) = From(slid[w], k + 1) * 2 + slid[w][k]
<1>1. slid[w] \in Slid
  BY DEF DoubleTypes
<1>2. slid[w] \in BitFunctions
  BY <1>1, SlidAreInt
<1> QED
  BY <1>2, FromIs

LEMMA ZeroCombines ==
  ASSUME asked \in Sums
  PROVE  StandsFor(P2(P3Zero), Combination(0, 0))
<1>1. TimesA(0) = Neutral
  BY AHasOrder, TimesZero DEF TimesA
<1>2. Combination(0, 0) = Neutral
  BY <1>1, AHasOrder, TimesBaseZero, NeutralOnCurve, PlusNothing
<1>3. Represents(P3Zero, Neutral)
  BY ZeroRepresents, TimesBaseZero
<1>4. P2(P3Zero).X = P3Zero.X /\ P2(P3Zero).Y = P3Zero.Y /\ P2(P3Zero).Z = P3Zero.Z
  BY DEF P2
<1> QED
  BY <1>2, <1>3, <1>4 DEF Represents, StandsFor

LEMMA SumStart == DoubleInit => SumInv
  BY DEF DoubleInit, SumInv

(* Doubled, and a digit of each factor more. *)
Grows(u, v, m, n) ==
  LET c == Combination(u, v) IN
    /\ c \in Curve /\ Plus(c, c) \in Curve /\ Plus(Plus(c, c), TimesA(m)) \in Curve
    /\ Plus(Plus(Plus(c, c), TimesA(m)), TimesBase(n)) = Combination(u * 2 + m, v * 2 + n)

LEMMA Combined ==
  ASSUME asked \in Sums, NEW u \in Int, NEW v \in Int, NEW m \in Int, NEW n \in Int
  PROVE  Grows(u, v, m, n)
<1> DEFINE c  == Combination(u, v)
           a  == TimesA(u)
           b  == TimesBase(v)
           a2 == Plus(a, a)
           b2 == Plus(b, b)
           am == TimesA(m)
           bn == TimesBase(n)
<1>1. HasOrder(asked.A, 8 * Order)
  BY AHasOrder
<1>2. a \in Curve /\ am \in Curve
  BY <1>1, TimesOnCurve DEF TimesA
<1>3. b \in Curve /\ bn \in Curve
  BY TimesBaseOnCurve
<1>4. c = Plus(a, b)
  BY AHasOrder
<1>5. /\ u + u \in Int /\ v + v \in Int /\ (u + u) + m = u * 2 + m /\ (v + v) + n = v * 2 + n
      /\ u * 2 + m \in Int
  OBVIOUS
<1>6. TimesA(u * 2 + m) = Plus(a2, am)
  <2>1. TimesA(u + u) = a2
    BY <1>1, TimesSum DEF TimesA
  <2>2. TimesA((u + u) + m) = Plus(TimesA(u + u), am)
    BY <1>1, <1>5, TimesSum DEF TimesA
  <2> QED
    BY <1>5, <2>1, <2>2
<1>7. TimesBase(v * 2 + n) = Plus(b2, bn)
  <2>1. TimesBase(v + v) = b2
    BY TimesBaseSum
  <2>2. TimesBase((v + v) + n) = Plus(TimesBase(v + v), bn)
    BY <1>5, TimesBaseSum
  <2> QED
    BY <1>5, <2>1, <2>2
<1>8. Combination(u * 2 + m, v * 2 + n) = Plus(Plus(a2, am), Plus(b2, bn))
  BY <1>6, <1>7, AHasOrder
<1> HIDE DEF c, a, b, am, bn
<1>9. a2 \in Curve /\ b2 \in Curve
  BY <1>2, <1>3, PlusClosed
<1>10. Plus(c, c) = Plus(a2, b2)
  BY <1>2, <1>3, <1>4, PlusMixed
<1>11. c \in Curve
  BY <1>2, <1>3, <1>4, PlusClosed
<1> HIDE DEF a2, b2
<1>12. Plus(Plus(a2, b2), am) = Plus(Plus(a2, am), b2) /\ Plus(a2, am) \in Curve
  BY <1>2, <1>9, PlusSwapped, PlusClosed
<1>13. Plus(Plus(Plus(a2, am), b2), bn) = Plus(Plus(a2, am), Plus(b2, bn))
  BY <1>3, <1>9, <1>12, PlusAssociative
<1>14. Plus(Plus(Plus(c, c), am), bn) = Combination(u * 2 + m, v * 2 + n)
  BY <1>8, <1>10, <1>12, <1>13
<1>15. Plus(c, c) \in Curve
  BY <1>11, PlusClosed
<1>16. Plus(Plus(c, c), am) \in Curve
  BY <1>2, <1>15, PlusClosed
<1> QED
  BY <1>11, <1>14, <1>15, <1>16 DEF Grows, c, am, bn

LEMMA AddPlaceIs ==
  ASSUME SlideInv, SumInv, AddPlace
  PROVE  /\ sum' \in Point2
         /\ StandsFor(sum', Combination(From(slid[1], place), From(slid[2], place)))
<1> DEFINE u == From(slid[1], place + 1)
           v == From(slid[2], place + 1)
           m == slid[1][place]
           n == slid[2][place]
           c == Combination(u, v)
           s == GeDbl(sum)
           d == Plus(c, c)
           e == Plus(d, TimesA(m))
           f == Combination(u * 2 + m, v * 2 + n)
<1>1. /\ phase = "add" /\ place >= 0 /\ DoubleTypes /\ AllDone(slid[1]) /\ AllDone(slid[2])
      /\ sum' = ToP2(AddB(AddA(s, m), n))
  BY DEF AddPlace, SlideInv
<1>2. asked \in Sums /\ sum \in Point2 /\ slid[1] \in Slid /\ slid[2] \in Slid /\ place \in -1..Bits-1
  BY <1>1 DEF DoubleTypes
<1>3. place \in 0..Bits-1 /\ place + 1 \in 0..Bits /\ place \in BitPlaces
  BY <1>1, <1>2, BitNumbers DEF BitPlaces
<1>4. m \in -15..15 /\ n \in -15..15
  BY <1>2, <1>3 DEF Slid
<1>5. IsDone(m) /\ IsDone(n)
  BY <1>1, <1>3 DEF AllDone
<1>6. u \in Int /\ v \in Int /\ From(slid[1], place) = u * 2 + m /\ From(slid[2], place) = v * 2 + n
  <2>1. 1 \in 1..2 /\ 2 \in 1..2
    OBVIOUS
  <2> QED
    BY <1>1, <1>3, <2>1, SlidFrom
<1>7. StandsFor(sum, c)
  BY <1>1 DEF SumInv
<1> HIDE DEF u, v, m, n
<1>8. m \in Int /\ n \in Int
  BY <1>4
<1>9. c \in Curve /\ d \in Curve /\ e \in Curve /\ Plus(e, TimesBase(n)) = f
  <2>1. Grows(u, v, m, n)
    BY <1>2, <1>6, <1>8, Combined
  <2> QED
    BY <2>1 DEF Grows
<1> HIDE DEF c
<1>10. s \in Point3 /\ Completes(s, d)
  BY <1>2, <1>7, <1>9, GeDblPlus
<1> HIDE DEF s, d
<1>11. AddA(s, m) \in Point3 /\ Completes(AddA(s, m), e)
  BY <1>2, <1>4, <1>5, <1>9, <1>10, AddAIs
<1> HIDE DEF e
<1>12. AddB(AddA(s, m), n) \in Point3 /\ Completes(AddB(AddA(s, m), n), f)
  BY <1>4, <1>5, <1>9, <1>11, AddBIs
<1>13. f \in Coordinates
  <2>1. TimesBase(n) \in Curve
    BY <1>8, TimesBaseOnCurve
  <2> QED
    BY <1>9, <2>1, PlusClosed, CurveIs
<1> HIDE DEF f
<1>14. StandsFor(sum', f)
  BY <1>1, <1>12, <1>13, ToP3Represents
<1>15. sum' \in Point2
  BY <1>1, <1>12, ToP3Type DEF Point2, Point3
<1> QED
  BY <1>6, <1>14, <1>15 DEF f

LEMMA SlideInvStep == SlideInv /\ SumInv /\ [DoubleNext]_doubleVars => SlideInv'
<1> SUFFICES ASSUME SlideInv, SumInv, [DoubleNext]_doubleVars PROVE SlideInv'
  OBVIOUS
<1>1. CASE AddPlace
  BY <1>1, AddPlaceIs, AddPlaceStep
<1>2. CASE UNCHANGED doubleVars
  BY <1>2 DEF doubleVars, SlideInv, DoubleTypes
<1> QED
  BY <1>1, <1>2, SkipStep, AbsorbStep, BorrowStep, NextPlaceStep, FindTopStep, AddedStep
     DEF DoubleNext

LEMMA SumStep == SlideInv /\ SumInv /\ [DoubleNext]_doubleVars => SumInv'
<1> SUFFICES ASSUME SlideInv, SumInv, [DoubleNext]_doubleVars PROVE SumInv'
  OBVIOUS
<1>1. DoubleTypes /\ asked \in Sums /\ place \in -1..Bits-1 /\ Bits \in Nat
  BY BitNumbers DEF SlideInv, DoubleTypes
<1>2. ASSUME NEW e, phase = "slide", Put(e) PROVE SumInv'
  <2>1. phase' = "slide" /\ place' = place /\ sum' = sum
    BY <1>2 DEF Put
  <2> QED
    BY <1>2, <2>1 DEF SumInv
<1>3. CASE SkipBit
  BY <1>2, <1>3 DEF SkipBit, Inner
<1>4. CASE AbsorbBit
  BY <1>2, <1>4 DEF AbsorbBit, Inner
<1>5. CASE BorrowBit
  BY <1>2, <1>5 DEF BorrowBit, Inner
<1>6. CASE NextPlace
  <2>1. phase = "slide" /\ sum' = sum /\ slid' = slid /\ place >= 0
    BY <1>6 DEF NextPlace, SumInv
  <2>2. CASE phase' = "slide" /\ place' >= 0
    BY <2>1, <2>2 DEF SumInv
  <2>3. CASE phase' = "top" /\ place' = Bits - 1
    <3>1. place' + 1 = Bits
      BY <1>1, <2>3
    <3>2. From(slid[1], Bits) = 0 /\ From(slid[2], Bits) = 0
      <4>1. 1 \in 1..2 /\ 2 \in 1..2
        OBVIOUS
      <4> QED
        BY <1>1, <4>1, SlidFrom
    <3>3. From(slid'[1], place' + 1) = 0 /\ From(slid'[2], place' + 1) = 0
      BY <2>1, <3>1, <3>2
    <3> QED
      BY <2>1, <2>3, <3>3 DEF SumInv
  <2>4. (phase' = "slide" /\ place' >= 0) \/ (phase' = "top" /\ place' = Bits - 1)
    BY <1>1, <1>6, <2>1 DEF NextPlace
  <2> QED
    BY <2>2, <2>3, <2>4
<1>7. CASE FindTop
  <2>1. /\ phase = "top" /\ sum' = sum /\ slid' = slid /\ asked' = asked /\ sum = P2(P3Zero)
        /\ From(slid[1], place + 1) = 0 /\ From(slid[2], place + 1) = 0
    BY <1>7 DEF FindTop, SumInv
  <2>2. CASE place >= 0 /\ slid[1][place] = 0 /\ slid[2][place] = 0
    <3>1. place' = place - 1 /\ phase' = phase
      BY <1>7, <2>2 DEF FindTop
    <3>2. place' + 1 = place /\ place \in 0..Bits-1
      BY <1>1, <2>2, <3>1
    <3>3. From(slid[1], place) = 0 * 2 + 0 /\ From(slid[2], place) = 0 * 2 + 0
      <4>1. 1 \in 1..2 /\ 2 \in 1..2
        OBVIOUS
      <4> QED
        BY <1>1, <2>1, <2>2, <3>2, <4>1, SlidFrom
    <3>4. From(slid'[1], place' + 1) = 0 /\ From(slid'[2], place' + 1) = 0
      BY <2>1, <3>2, <3>3
    <3> QED
      BY <2>1, <3>1, <3>4 DEF SumInv
  <2>3. CASE ~ (place >= 0 /\ slid[1][place] = 0 /\ slid[2][place] = 0)
    <3>1. place' = place /\ phase' = "add"
      BY <1>7, <2>3 DEF FindTop
    <3>2. StandsFor(sum', Combination(0, 0)')
      <4>1. StandsFor(sum, Combination(0, 0))
        BY <1>1, <2>1, ZeroCombines
      <4>2. Combination(0, 0)' = Combination(0, 0)
        BY <2>1 DEF Combination
      <4> QED
        BY <2>1, <4>1, <4>2
    <3>3. From(slid'[1], place' + 1) = 0 /\ From(slid'[2], place' + 1) = 0
      BY <2>1, <3>1
    <3>4. StandsFor(sum', Combination(From(slid[1], place + 1), From(slid[2], place + 1))')
      BY <3>2, <3>3 DEF Combination
    <3> QED
      BY <3>1, <3>4 DEF SumInv
  <2> QED
    BY <2>2, <2>3
<1>8. CASE AddPlace
  <2>1. /\ slid' = slid /\ asked' = asked /\ place' = place - 1 /\ phase' = "add" /\ place >= 0
    BY <1>8 DEF AddPlace
  <2>2. StandsFor(sum', Combination(From(slid[1], place), From(slid[2], place)))
    BY <1>8, AddPlaceIs
  <2>3. place' + 1 = place
    BY <1>1, <2>1
  <2>4. From(slid'[1], place' + 1) = From(slid[1], place) /\ From(slid'[2], place' + 1) = From(slid[2], place)
    BY <2>1, <2>3
  <2>5. StandsFor(sum', Combination(From(slid[1], place + 1), From(slid[2], place + 1))')
    BY <2>1, <2>2, <2>4 DEF Combination
  <2> QED
    BY <2>1, <2>5 DEF SumInv
<1>9. CASE Added \/ UNCHANGED doubleVars
  <2>1. /\ slid' = slid /\ asked' = asked /\ place' = place /\ sum' = sum
        /\ phase' = phase \/ (phase = "add" /\ phase' = "done")
    BY <1>9 DEF Added, doubleVars
  <2>2. CASE phase' = phase
    BY <2>1, <2>2 DEF SumInv, Combination
  <2>3. CASE phase = "add" /\ phase' = "done"
    BY <2>1, <2>3 DEF SumInv, Combination
  <2> QED
    BY <2>1, <2>2, <2>3
<1> QED
  BY <1>3, <1>4, <1>5, <1>6, <1>7, <1>8, <1>9 DEF DoubleNext

(* The addition ends after the lowest place. *)
AtEnd == phase = "done" => place = -1

LEMMA AtEndStep == SlideInv /\ AtEnd /\ [DoubleNext]_doubleVars => AtEnd'
<1> SUFFICES ASSUME SlideInv, AtEnd, [DoubleNext]_doubleVars, phase' = "done"
             PROVE  place' = -1
  BY DEF AtEnd
<1>1. phase \in {"slide", "top", "add", "done"} /\ place \in -1..Bits-1 /\ Bits \in Nat
  BY BitNumbers DEF SlideInv, DoubleTypes
<1>2. CASE Added
  BY <1>1, <1>2 DEF Added
<1>3. CASE UNCHANGED doubleVars
  BY <1>3 DEF doubleVars, AtEnd
<1>4. CASE ~ Added /\ ~ UNCHANGED doubleVars
  <2>1. phase' # "done"
    BY <1>1, <1>4 DEF DoubleNext, SkipBit, AbsorbBit, BorrowBit, NextPlace, FindTop, AddPlace, Inner, Put
  <2> QED
    BY <2>1
<1> QED
  BY <1>2, <1>3, <1>4

LEMMA DoubleInvariant == DoubleSpec => [](SlideInv /\ SumInv /\ KeptValue /\ AtEnd)
<1> DEFINE I == SlideInv /\ SumInv /\ KeptValue /\ AtEnd
<1>1. DoubleInit => I
  BY SlideStart, SumStart, KeptValueStart DEF DoubleInit, AtEnd
<1>2. I /\ [DoubleNext]_doubleVars => I'
  BY SlideInvStep, SumStep, KeptValueStep, AtEndStep
<1> QED
  BY <1>1, <1>2, PTL DEF DoubleSpec

(* DoubleMult's types (ge.c:25-130): neither the search for room in a      *)
(* digit nor a carry leaves the array of digits or the range -15..15 that  *)
(* the tables of eight odd multiples serve.                                *)
THEOREM DoubleTypeCorrect == DoubleSpec => []DoubleTypeOK
<1>1. SlideInv => DoubleTypeOK
  BY DEF SlideInv, DoubleTypes, DoubleTypeOK, Slid, Point2, Fe
<1> QED
  BY <1>1, DoubleInvariant, PTL

(* For all factors and every point A of the curve (ge.c:25-130): whatever  *)
(* is absorbed, borrowed and carried, the signed digits keep the value of  *)
(* their factor and are zero or odd where they are done, and the sum is    *)
(* the combination of A and B that the digits so far stand for: at the     *)
(* end a A + b B.                                                          *)
THEOREM DoubleSumAlways == DoubleSpec => []DoubleSum
<1>1. SlideInv /\ SumInv /\ KeptValue /\ AtEnd => DoubleSum
  <2> SUFFICES ASSUME SlideInv, SumInv, KeptValue, AtEnd PROVE DoubleSum
    OBVIOUS
  <2>1. DoubleTypes
    BY DEF SlideInv
  <2>2. ASSUME NEW w \in 1..2, NEW k \in BitPlaces,
               w < which \/ phase # "slide" \/ (w = which /\ k < place)
        PROVE  IsDone(slid[w][k])
    <3>1. CASE phase # "slide"
      BY <2>2, <3>1 DEF SlideInv, AllDone
    <3>2. CASE phase = "slide" /\ w < which
      <4>1. w = 1 /\ which = 2
        BY <2>1, <3>2 DEF DoubleTypes
      <4> QED
        BY <3>2, <4>1 DEF SlideInv, AllDone
    <3>3. CASE phase = "slide" /\ w = which /\ k < place
      BY <3>3 DEF SlideInv, InWork, DoneBelow
    <3> QED
      BY <2>2, <3>1, <3>2, <3>3
  <2>3. ASSUME phase # "slide"
        PROVE  StandsFor(sum, Combination(From(slid[1], place + 1), From(slid[2], place + 1)))
    <3>1. CASE phase = "top"
      <4>1. sum = P2(P3Zero) /\ From(slid[1], place + 1) = 0 /\ From(slid[2], place + 1) = 0
        BY <3>1 DEF SumInv
      <4>2. asked \in Sums
        BY <2>1 DEF DoubleTypes
      <4> QED
        BY <4>1, <4>2, ZeroCombines
    <3>2. CASE phase \in {"add", "done"}
      BY <3>2 DEF SumInv
    <3> QED
      BY <2>1, <2>3, <3>1, <3>2 DEF DoubleTypes
  <2>4. \A w \in 1..2 : \A k \in BitPlaces :
          w < which \/ phase # "slide" \/ (w = which /\ k < place) =>
            slid[w][k] = 0 \/ slid[w][k] % 2 = 1
    BY <2>2 DEF IsDone
  <2>5. ASSUME phase = "done"
        PROVE  StandsFor(sum, Combination(ValueOf(asked.a), ValueOf(asked.b)))
    <3>1. place + 1 = 0
      BY <2>5 DEF AtEnd
    <3> QED
      BY <2>3, <2>5, <3>1 DEF KeptValue
  <2> QED
    BY <2>3, <2>4, <2>5 DEF DoubleSum, KeptValue
<1> QED
  BY <1>1, DoubleInvariant, PTL
=============================================================================
