---------------------------- MODULE Limbs_proofs ----------------------------
(***************************************************************************)
(* Proofs about the two modules that do arithmetic limb by limb, which     *)
(* share no state.                                                         *)
(*                                                                         *)
(* ScalarLimbs: for every radix and group order no step changes the number *)
(* mod the group order; at the width of the code no limb leaves its        *)
(* int64_t, and what is stored is the one number below the group order,    *)
(* for all operands.                                                       *)
(*                                                                         *)
(* FieldLimbs, at the width of the code: in whatever order the functions   *)
(* are called, as long as their preconditions are kept, no limb and no sum *)
(* of products leaves its C type; the limbs stand, mod 2^255 - 19, for the *)
(* number the functions promise; and the bytes written are those of the    *)
(* one number below 2^255 - 19.                                            *)
(*                                                                         *)
(* Large bounds are written out: the provers' front end computes products  *)
(* of numerals in 63 bits.                                                 *)
(***************************************************************************)
EXTENDS ScalarLimbs, FieldLimbs, SequenceTheorems, ModLemmas

(***************************************************************************)
(* ScalarLimbs.                                                            *)
(***************************************************************************)

LEMMA Numbers == Radix \in Nat \ {0} /\ L \in Nat \ {0} /\ Radix % 2 = 0
  BY ScalarAssumption

-----------------------------------------------------------------------------
(* The value of limbs, from each of them up.                               *)

AreInt(s, n) == \A j \in 0..n-1 : s[j] \in Int

(* t[j] is the value of the limbs from j up, in units of the j-th. *)
IsTail(t, s, n) ==
  /\ t \in [0..n -> Int] /\ t[n] = 0
  /\ \A j \in 0..n-1 : t[j] = s[j] + Radix * t[j + 1]

LEMMA HighExists ==
  ASSUME NEW n \in Nat, NEW s, AreInt(s, n)
  PROVE  \E f : f = [k \in 0..n |-> IF k = 0 THEN 0 ELSE f[k - 1] * Radix + s[n - k]]
<1> DEFINE G == [k \in 1..n |-> [v \in Int |-> v * Radix + s[n - k]]]
<1>1. \A k \in 1..n : s[n - k] \in Int
  BY DEF AreInt
<1>2. G \in Steps(n, Int)
  BY <1>1, Numbers DEF Steps
<1>3. \A k \in 1..n : \A v \in Int : G[k][v] = v * Radix + s[n - k]
  OBVIOUS
<1> HIDE DEF G
<1>4. PICK f \in [0..n -> Int] : IsIterated(f, n, 0, G)
  <2>1. 0 \in Int
    OBVIOUS
  <2> QED
    BY <1>2, <2>1, RecursionExists, Zenon
<1>5. \A k \in 1..n : f[k] = f[k - 1] * Radix + s[n - k]
  BY <1>3, <1>4 DEF IsIterated
<1>6. f = [k \in 0..n |-> IF k = 0 THEN 0 ELSE f[k - 1] * Radix + s[n - k]]
  BY <1>4, <1>5 DEF IsIterated
<1> QED
  BY <1>6

LEMMA ValueHigh ==
  ASSUME NEW n \in Nat, NEW s, AreInt(s, n)
  PROVE  \E h \in [0..n -> Int] : /\ h[0] = 0 /\ Value(s, n) = h[n]
                                  /\ \A k \in 1..n : h[k] = h[k - 1] * Radix + s[n - k]
<1> DEFINE body(f) == [k \in 0..n |-> IF k = 0 THEN 0 ELSE f[k - 1] * Radix + s[n - k]]
           h == CHOOSE f : f = body(f)
<1>1. \A k \in 1..n : s[n - k] \in Int
  BY DEF AreInt
<1>2. h = body(h)
  BY HighExists
<1>3. Value(s, n) = h[n]
  BY DEF Value
<1> HIDE DEF h
<1>4. h[0] = 0 /\ \A k \in 1..n : h[k] = h[k - 1] * Radix + s[n - k]
  <2>1. \A k \in 0..n : h[k] = IF k = 0 THEN 0 ELSE h[k - 1] * Radix + s[n - k]
    BY <1>2, Zenon
  <2> HIDE DEF body
  <2> QED
    BY <2>1
<1> DEFINE T == {k \in 0..n : h[k] \in Int}
<1>5. 0 \in T
  BY <1>4
<1>6. ASSUME NEW k \in 0..n-1, k \in T PROVE k + 1 \in T
  <2>1. h[k + 1] = h[k] * Radix + s[n - (k + 1)] /\ s[n - (k + 1)] \in Int
    BY <1>1, <1>4
  <2> QED
    BY <1>6, <2>1, Numbers
<1> HIDE DEF T
<1>7. 0..n \subseteq T
  BY <1>5, <1>6, InductionUpTo
<1>8. h \in [0..n -> Int]
  BY <1>2, <1>7 DEF T
<1> QED
  BY <1>3, <1>4, <1>8

LEMMA ValueTail ==
  ASSUME NEW n \in Nat, NEW s, AreInt(s, n)
  PROVE  \E t : IsTail(t, s, n) /\ t[0] = Value(s, n)
<1>1. PICK h \in [0..n -> Int] : /\ h[0] = 0 /\ Value(s, n) = h[n]
                                 /\ \A k \in 1..n : h[k] = h[k - 1] * Radix + s[n - k]
  BY ValueHigh
<1> DEFINE t == [j \in 0..n |-> h[n - j]]
<1>2. t \in [0..n -> Int] /\ t[n] = 0 /\ t[0] = Value(s, n)
  BY <1>1
<1>3. ASSUME NEW j \in 0..n-1 PROVE t[j] = s[j] + Radix * t[j + 1]
  <2>1. n - j \in 1..n /\ t[j] = h[n - j] /\ t[j + 1] = h[(n - j) - 1] /\ n - (n - j) = j
    OBVIOUS
  <2>2. h[n - j] = h[(n - j) - 1] * Radix + s[j]
    BY <1>1, <2>1
  <2>3. h[(n - j) - 1] \in Int /\ s[j] \in Int
    BY <2>1 DEF AreInt
  <2> QED
    BY <2>1, <2>2, <2>3, Numbers
<1> QED
  BY <1>2, <1>3 DEF IsTail

LEMMA RemaindersExist ==
  ASSUME NEW n \in Nat, NEW s, AreInt(s, n)
  PROVE  \E f : f = [k \in 0..n |-> IF k = 0 THEN 0 ELSE (f[k - 1] * Radix + s[n - k]) % L]
<1> DEFINE G == [k \in 1..n |-> [v \in Int |-> (v * Radix + s[n - k]) % L]]
<1>1. \A k \in 1..n : s[n - k] \in Int
  BY DEF AreInt
<1>2. G \in Steps(n, Int)
  BY <1>1, Numbers DEF Steps
<1>3. \A k \in 1..n : \A v \in Int : G[k][v] = (v * Radix + s[n - k]) % L
  OBVIOUS
<1> HIDE DEF G
<1>4. PICK f \in [0..n -> Int] : IsIterated(f, n, 0, G)
  <2>1. 0 \in Int
    OBVIOUS
  <2> QED
    BY <1>2, <2>1, RecursionExists, Zenon
<1>5. \A k \in 1..n : f[k] = (f[k - 1] * Radix + s[n - k]) % L
  BY <1>3, <1>4 DEF IsIterated
<1>6. f = [k \in 0..n |-> IF k = 0 THEN 0 ELSE (f[k - 1] * Radix + s[n - k]) % L]
  BY <1>4, <1>5 DEF IsIterated
<1> QED
  BY <1>6

(* The remainder may be taken after each limb. *)
LEMMA ResidueIs ==
  ASSUME NEW n \in Nat, NEW s, AreInt(s, n)
  PROVE  Value(s, n) \in Int /\ Residue(s, n) = Value(s, n) % L
<1> DEFINE body(f) == [k \in 0..n |-> IF k = 0 THEN 0 ELSE (f[k - 1] * Radix + s[n - k]) % L]
           r == CHOOSE f : f = body(f)
<1>1. PICK h \in [0..n -> Int] : /\ h[0] = 0 /\ Value(s, n) = h[n]
                                 /\ \A k \in 1..n : h[k] = h[k - 1] * Radix + s[n - k]
  BY ValueHigh
<1>2. \A k \in 1..n : s[n - k] \in Int
  BY DEF AreInt
<1>3. r = body(r)
  BY RemaindersExist
<1>4. Residue(s, n) = r[n]
  BY DEF Residue
<1> HIDE DEF r
<1>5. \A k \in 0..n : r[k] = IF k = 0 THEN 0 ELSE (r[k - 1] * Radix + s[n - k]) % L
  BY <1>3, Zenon
<1> HIDE DEF body
<1> DEFINE T == {k \in 0..n : r[k] = h[k] % L}
<1>6. 0 \in T
  BY <1>1, <1>5, Numbers
<1>7. ASSUME NEW k \in 0..n-1, k \in T PROVE k + 1 \in T
  <2> k + 1 \in 1..n
    OBVIOUS
  <2>1. PICK v \in Int : v = s[n - (k + 1)]
    BY <1>2
  <2>2. r[k + 1] = (r[k] * Radix + v) % L /\ h[k + 1] = h[k] * Radix + v
    BY <1>1, <1>5, <2>1
  <2>3. h[k] \in Int /\ r[k] = h[k] % L
    BY <1>7
  <2>4. (Radix * (h[k] % L) + v) % L = (Radix * h[k] + v) % L
    <3>1. L \in Nat \ {0} /\ h[k] \in Int /\ Radix \in Int /\ v \in Int
      BY <2>3, Numbers
    <3> QED
      BY <3>1, ModProduct, Zenon
  <2>5. h[k] % L \in Int
    BY <2>3, Numbers
  <2>6. (h[k] % L) * Radix = Radix * (h[k] % L) /\ h[k] * Radix = Radix * h[k]
    BY <2>3, <2>5, Numbers
  <2> QED
    BY <2>2, <2>3, <2>4, <2>6
<1> HIDE DEF T
<1>8. 0..n \subseteq T
  BY <1>6, <1>7, InductionUpTo
<1> QED
  BY <1>1, <1>4, <1>8 DEF T

-----------------------------------------------------------------------------
(* Two numbers whose limbs differ in some places only.                     *)

LEMMA Distributes ==
  ASSUME NEW a \in Int, NEW b \in Int, NEW c \in Int, NEW d \in Int
  PROVE  a * (b + c * d) = a * b + c * (a * d)
  OBVIOUS

LEMMA DistributesMinus ==
  ASSUME NEW a \in Int, NEW b \in Int, NEW c \in Int
  PROVE  a * (b - c) = a * b - a * c
  OBVIOUS

LEMMA TailsAgree ==
  ASSUME NEW n \in Nat, NEW s, NEW r, AreInt(s, n),
         NEW t, IsTail(t, s, n), NEW u, IsTail(u, r, n),
         NEW m \in 0..n, \A j \in m..n-1 : s[j] = r[j]
  PROVE  u[m] = t[m]
<1> DEFINE T == {j \in 0..n : j >= m => u[j] = t[j]}
<1>1. n \in T
  BY DEF IsTail
<1>2. ASSUME NEW j \in 0..n-1, j + 1 \in T PROVE j \in T
  <2>1. t[j] = s[j] + Radix * t[j + 1] /\ u[j] = r[j] + Radix * u[j + 1]
    BY DEF IsTail
  <2>2. j >= m => s[j] = r[j] /\ u[j + 1] = t[j + 1]
    BY <1>2
  <2> QED
    BY <2>1, <2>2
<1> HIDE DEF T
<1>3. 0..n \subseteq T
  BY <1>1, <1>2, InductionDown
<1> QED
  BY <1>3 DEF T

(* In r the limbs below place m are those of s, and from place m up it is  *)
(* d more.                                                                 *)
SameBelow(r, s, m) == \A j \in 0..m-1 : s[j] = r[j]
IsMore(u, t, m, d)  == u[m] = t[m] + d

LEMMA TailsApart ==
  ASSUME NEW n \in Nat, NEW s, NEW r, AreInt(s, n),
         NEW t, IsTail(t, s, n), NEW u, IsTail(u, r, n),
         NEW m \in 0..n, SameBelow(r, s, m),
         NEW d \in Int, u[m] = t[m] + d
  PROVE  \E q \in Int : u[0] = t[0] + d * q /\ (m = 0 => q = 1)
<1> DEFINE T == {j \in 0..m : \E q \in Int : u[j] = t[j] + d * q /\ (m = 0 => q = 1)}
<1>1. m \in T
  <2>1. u[m] = t[m] + d * 1
    OBVIOUS
  <2> QED
    BY <2>1
<1>2. ASSUME NEW j \in 0..m-1, j + 1 \in T PROVE j \in T
  <2>1. PICK q \in Int : u[j + 1] = t[j + 1] + d * q
    BY <1>2
  <2>2. t[j] = s[j] + Radix * t[j + 1] /\ u[j] = s[j] + Radix * u[j + 1]
    BY DEF IsTail, SameBelow
  <2>3. s[j] \in Int /\ t[j + 1] \in Int
    BY DEF AreInt, IsTail
  <2>4. u[j] = t[j] + d * (Radix * q) /\ Radix * q \in Int
    <3>1. Radix * (t[j + 1] + d * q) = Radix * t[j + 1] + d * (Radix * q)
      <4>1. Radix \in Int
        BY Numbers
      <4> QED
        BY <2>3, <4>1, Distributes
    <3>2. Radix * q \in Int /\ d * (Radix * q) \in Int /\ Radix * t[j + 1] \in Int
      BY <2>3, Numbers
    <3> QED
      BY <2>1, <2>2, <2>3, <3>1, <3>2
  <2>5. m # 0
    OBVIOUS
  <2>6. \E p \in Int : u[j] = t[j] + d * p /\ (m = 0 => p = 1)
    BY <2>4, <2>5, Zenon
  <2> QED
    BY <2>6
<1> HIDE DEF T
<1>3. 0..m \subseteq T
  BY <1>1, <1>2, InductionDown
<1>4. 0 \in T
  BY <1>3
<1> QED
  BY <1>4 DEF T

LEMMA TailsOf24Apart ==
  ASSUME NEW s, NEW r, AreInt(s, 24), NEW t, IsTail(t, s, 24), NEW u, IsTail(u, r, 24),
         NEW m \in 0..24, SameBelow(r, s, m), NEW d \in Int, IsMore(u, t, m, d)
  PROVE  \E q \in Int : IsMore(u, t, 0, d * q) /\ (m = 0 => q = 1)
<1>1. 24 \in Nat
  OBVIOUS
<1>2. \E q \in Int : u[0] = t[0] + d * q /\ (m = 0 => q = 1)
  BY <1>1, TailsApart DEF IsMore
<1> QED
  BY <1>2 DEF IsMore

-----------------------------------------------------------------------------
(* What a carry and a fold do to the number.                               *)

CarriedOut(r, s, k, amount) ==
  /\ r[k] = s[k] - amount * Radix /\ r[k + 1] = s[k + 1] + amount
  /\ \A j \in Places \ {k, k + 1} : r[j] = s[j]

(* A carry does not change it.                                             *)
LEMMA ValueCarried ==
  ASSUME NEW s \in [Places -> Int], NEW r \in [Places -> Int],
         NEW k \in 0..22, NEW amount \in Int, CarriedOut(r, s, k, amount)
  PROVE  Value(r, 24) = Value(s, 24)
<1>1. AreInt(s, 24) /\ AreInt(r, 24)
  BY DEF AreInt, Places
<1>2. PICK t : IsTail(t, s, 24) /\ t[0] = Value(s, 24)
  BY <1>1, ValueTail
<1>3. PICK u : IsTail(u, r, 24) /\ u[0] = Value(r, 24)
  BY <1>1, ValueTail
<1>4. u[k + 2] = t[k + 2]
  <2>1. k + 2 \in 0..24 /\ \A j \in k+2..24-1 : s[j] = r[j]
    BY DEF CarriedOut, Places
  <2> QED
    BY <1>1, <1>2, <1>3, <2>1, TailsAgree
<1>5. /\ t[k] = s[k] + Radix * t[k + 1] /\ t[k + 1] = s[k + 1] + Radix * t[k + 2]
      /\ u[k] = r[k] + Radix * u[k + 1] /\ u[k + 1] = r[k + 1] + Radix * u[k + 2]
      /\ t[k + 2] \in Int /\ t[k + 1] \in Int /\ s[k] \in Int /\ s[k + 1] \in Int
  <2>1. k \in 0..24-1 /\ k + 1 \in 0..24-1 /\ (k + 1) + 1 = k + 2 /\ k + 2 \in 0..24
    OBVIOUS
  <2> QED
    BY <1>2, <1>3, <2>1 DEF IsTail, Places
<1>6. u[k + 1] = t[k + 1] + amount
  BY <1>4, <1>5, Numbers DEF CarriedOut
<1>7. Radix * (t[k + 1] + amount) = Radix * t[k + 1] + amount * Radix
  <2> DEFINE x == t[k + 1]
  <2>1. x \in Int
    BY <1>5
  <2> HIDE DEF x
  <2>2. Radix * (x + amount) = Radix * x + amount * Radix
    BY <2>1, Numbers
  <2> QED
    BY <2>2 DEF x
<1>8. u[k] = t[k] + 0
  <2>1. u[k] = (s[k] - amount * Radix) + (Radix * t[k + 1] + amount * Radix)
    BY <1>5, <1>6, <1>7 DEF CarriedOut
  <2>2. Radix * t[k + 1] \in Int /\ amount * Radix \in Int
    BY <1>5, Numbers
  <2> QED
    BY <1>5, <2>1, <2>2
<1>9. SameBelow(r, s, k)
  BY DEF CarriedOut, Places, SameBelow
<1>10. PICK q \in Int : u[0] = t[0] + 0 * q
  <2>1. k \in 0..24 /\ 0 \in Int /\ 24 \in Nat
    OBVIOUS
  <2> QED
    BY <1>1, <1>2, <1>3, <1>8, <1>9, <2>1, TailsApart
<1> QED
  BY <1>1, <1>2, <1>3, <1>10, ResidueIs

FoldedIn(r, s, k) ==
  /\ r[k] = 0
  /\ \A j \in k-12..k-7 : r[j] = s[j] + s[k] * Multiplier[j - (k - 12)]
  /\ \A j \in Places : j # k /\ j \notin k-12..k-7 => r[j] = s[j]

(* What one more in limb 12 and its digits differ by: a multiple of L. *)
OneAbove == [k \in 0..12 |-> IF k = 12 THEN 1 ELSE 0]
Gap == Value(Multiplier, 6) - Value(OneAbove, 13)

LEMMA GapDivides == Gap \in Int /\ \E q \in Int : Gap = L * q
<1>1. AreInt(Multiplier, 6) /\ AreInt(OneAbove, 13)
  BY ScalarAssumption DEF AreInt, OneAbove
<1>2. /\ Value(Multiplier, 6) \in Int /\ Value(OneAbove, 13) \in Int
      /\ Residue(OneAbove, 13) = Value(OneAbove, 13) % L
  BY <1>1, ResidueIs
<1>3. Value(OneAbove, 13) % L = Value(Multiplier, 6) % L
  BY <1>2, ScalarAssumption DEF OneAbove
<1> DEFINE x == Value(Multiplier, 6)
           y == Value(OneAbove, 13)
<1>4. x = L * (x \div L) + (x % L) /\ y = L * (y \div L) + (y % L)
      /\ x \div L \in Int /\ y \div L \in Int
  BY <1>2, Numbers, ModSplits
<1>5. Gap = L * (x \div L - y \div L)
  <2> DEFINE a == x \div L
             b == y \div L
  <2> HIDE DEF a, b
  <2>1. x - y = L * a - L * b
    BY <1>2, <1>3, <1>4, Numbers DEF a, b
  <2>2. L * a - L * b = L * (a - b)
    BY <1>4, Numbers DEF a, b
  <2> QED
    BY <2>1, <2>2 DEF Gap, a, b
<1> QED
  BY <1>2, <1>4, <1>5 DEF Gap

LEMMA ValueFolded ==
  ASSUME NEW s \in [Places -> Int], NEW r \in [Places -> Int],
         NEW k \in 12..23, FoldedIn(r, s, k)
  PROVE  \E q \in Int : /\ Value(r, 24) = Value(s, 24) + s[k] * Gap * q
                        /\ k = 12 => q = 1
<1>1. AreInt(s, 24) /\ AreInt(r, 24) /\ AreInt(Multiplier, 6) /\ AreInt(OneAbove, 13)
  BY ScalarAssumption DEF AreInt, Places, OneAbove
<1>2. PICK t : IsTail(t, s, 24) /\ t[0] = Value(s, 24)
  BY <1>1, ValueTail
<1>3. PICK u : IsTail(u, r, 24) /\ u[0] = Value(r, 24)
  BY <1>1, ValueTail
<1>4. PICK m : IsTail(m, Multiplier, 6) /\ m[0] = Value(Multiplier, 6)
  BY <1>1, ValueTail
<1>5. PICK o : IsTail(o, OneAbove, 13) /\ o[0] = Value(OneAbove, 13)
  BY <1>1, ValueTail
<1>6. u[k + 1] = t[k + 1]
  <2>1. k + 1 \in 0..24 /\ \A j \in k+1..24-1 : s[j] = r[j]
    BY DEF FoldedIn, Places
  <2> QED
    BY <1>1, <1>2, <1>3, <2>1, TailsAgree
<1> DEFINE digits(j) == IF j <= 6 THEN m[j] ELSE 0
           T == {i \in 0..12 : u[k - i] = t[k - i] + s[k] * (digits(12 - i) - o[12 - i])}
<1>7. s[k] \in Int /\ \A i \in 0..12 : /\ k - i \in 0..23 /\ t[k - i] \in Int
                                       /\ o[12 - i] \in Int /\ digits(12 - i) \in Int
  BY <1>2, <1>4, <1>5 DEF IsTail, Places
<1>8. 0 \in T
  <2>1. o[12] = 1 /\ digits(12) = 0
    <3>1. 12 \in 0..13-1 /\ OneAbove[12] = 1 /\ o[13] = 0
      BY <1>5 DEF IsTail, OneAbove
    <3>2. o[12] = 1 + Radix * 0
      BY <1>5, <3>1 DEF IsTail
    <3> QED
      BY <3>2, Numbers
  <2>2. u[k] = r[k] + Radix * u[k + 1] /\ t[k] = s[k] + Radix * t[k + 1] /\ t[k + 1] \in Int
    BY <1>2, <1>3 DEF IsTail
  <2>3. u[k] = t[k] - s[k]
    BY <1>6, <1>7, <2>2, Numbers DEF FoldedIn
  <2> QED
    BY <1>7, <2>1, <2>3
<1>9. ASSUME NEW i \in 0..12-1, i \in T PROVE i + 1 \in T
  <2> DEFINE j == k - (i + 1)
             e == 12 - (i + 1)
             b == digits(e + 1) - o[e + 1]
  <2>1. j \in 0..23 /\ j + 1 = k - i /\ e \in 0..11 /\ e + 1 = 12 - i /\ j - (k - 12) = e
    OBVIOUS
  <2>2. u[j] = r[j] + Radix * u[j + 1] /\ t[j] = s[j] + Radix * t[j + 1]
    BY <1>2, <1>3, <2>1 DEF IsTail
  <2>3. o[e] = Radix * o[e + 1]
    <3>1. e \in 0..13-1 /\ OneAbove[e] = 0 /\ o[e + 1] \in Int
      BY <1>7, <2>1 DEF OneAbove
    <3>2. o[e] = 0 + Radix * o[e + 1] /\ Radix * o[e + 1] \in Int
      BY <1>5, <3>1, Numbers DEF IsTail
    <3> QED
      BY <3>2
  <2>4. b \in Int /\ t[j + 1] \in Int /\ s[j] \in Int /\ u[j + 1] = t[j + 1] + s[k] * b
    <3>1. u[k - i] = t[k - i] + s[k] * (digits(12 - i) - o[12 - i])
      BY <1>9
    <3> QED
      BY <1>7, <2>1, <3>1 DEF Places
  <2>5. /\ r[j] = s[j] + s[k] * (digits(e) - Radix * digits(e + 1))
        /\ digits(e) \in Int /\ digits(e + 1) \in Int
    <3>1. CASE e <= 5
      <4>1. m[e] = Multiplier[e] + Radix * m[e + 1] /\ m[e + 1] \in Int /\ Multiplier[e] \in Int
        BY <1>4, <2>1, <3>1, ScalarAssumption DEF IsTail
      <4>2. digits(e) = m[e] /\ digits(e + 1) = m[e + 1]
        BY <3>1
      <4>3. j \in k-12..k-7
        BY <2>1, <3>1
      <4>4. r[j] = s[j] + s[k] * Multiplier[e]
        BY <2>1, <4>3 DEF FoldedIn
      <4>5. m[e] - Radix * m[e + 1] = Multiplier[e] /\ m[e] \in Int
        BY <4>1, Numbers
      <4> QED
        BY <4>1, <4>2, <4>4, <4>5
    <3>2. CASE e > 5
      <4>1. digits(e) = 0 /\ digits(e + 1) = 0
        BY <1>4, <3>2 DEF IsTail
      <4>2. j \notin k-12..k-7 /\ j # k /\ j \in Places
        BY <2>1, <3>2 DEF Places
      <4>3. r[j] = s[j]
        BY <4>2 DEF FoldedIn
      <4> QED
        BY <1>7, <2>4, <4>1, <4>3, Numbers
    <3> QED
      BY <2>1, <3>1, <3>2
  <2> HIDE DEF b
  <2>6. u[j] = t[j] + s[k] * (digits(e) - o[e])
    <3> DEFINE x == digits(e)
               y == digits(e + 1)
               z == o[e + 1]
    <3>1. b = y - z /\ z \in Int
      BY <1>7, <2>1 DEF b
    <3>2. x \in Int /\ y \in Int /\ r[j] = s[j] + s[k] * (x - Radix * y)
      BY <2>5
    <3> HIDE DEF x, y, z
    <3>3. Radix * (t[j + 1] + s[k] * (y - z))
            = Radix * t[j + 1] + s[k] * (Radix * y) - s[k] * (Radix * z)
      <4>1. Radix * (t[j + 1] + s[k] * (y - z)) = Radix * t[j + 1] + s[k] * (Radix * (y - z))
        <5>1. PICK w \in Int : w = y - z
          BY <3>1, <3>2
        <5>2. Radix * (t[j + 1] + s[k] * w) = Radix * t[j + 1] + s[k] * (Radix * w)
          BY <1>7, <2>4, <5>1, Numbers, Distributes
        <5> QED
          BY <5>1, <5>2
      <4>2. Radix * (y - z) = Radix * y - Radix * z /\ Radix * y \in Int /\ Radix * z \in Int
        BY <3>1, <3>2, Numbers
      <4>3. s[k] * (Radix * y - Radix * z) = s[k] * (Radix * y) - s[k] * (Radix * z)
        BY <1>7, <4>2, DistributesMinus
      <4>4. /\ Radix * t[j + 1] \in Int
            /\ s[k] * (Radix * y) \in Int /\ s[k] * (Radix * z) \in Int
        BY <1>7, <2>4, <4>2, Numbers
      <4> QED
        BY <4>1, <4>2, <4>3, <4>4
    <3>4. s[k] * (x - Radix * y) = s[k] * x - s[k] * (Radix * y)
      BY <1>7, <3>2, Numbers
    <3>5. u[j] = s[j] + Radix * t[j + 1] + s[k] * x - s[k] * (Radix * z)
      <4>1. /\ Radix * t[j + 1] \in Int /\ s[k] * x \in Int /\ s[k] * (Radix * y) \in Int
            /\ s[k] * (Radix * z) \in Int
        BY <1>7, <2>4, <3>1, <3>2, Numbers
      <4> QED
        BY <2>2, <2>4, <3>1, <3>2, <3>3, <3>4, <4>1
    <3>6. s[k] * (x - Radix * z) = s[k] * x - s[k] * (Radix * z)
      BY <1>7, <3>1, <3>2, Numbers
    <3>7. o[e] = Radix * z
      BY <2>3 DEF z
    <3>8. u[j] = t[j] + s[k] * (x - o[e])
      <4>1. s[k] * x \in Int /\ s[k] * (Radix * z) \in Int /\ Radix * t[j + 1] \in Int
        BY <1>7, <2>4, <3>1, <3>2, Numbers
      <4> QED
        BY <2>2, <2>4, <3>5, <3>6, <3>7, <4>1
    <3> QED
      BY <3>8 DEF x
  <2> QED
    BY <2>6
<1> HIDE DEF T
<1>10. 0..12 \subseteq T
  BY <1>8, <1>9, InductionUpTo
<1>11. u[k - 12] = t[k - 12] + s[k] * Gap
  BY <1>4, <1>5, <1>10 DEF T, Gap
<1>12. s[k] * Gap \in Int
  BY <1>7, GapDivides
<1>13. \A j \in 0..(k-12)-1 : s[j] = r[j]
  BY DEF FoldedIn, Places
<1>14. PICK q \in Int : u[0] = t[0] + (s[k] * Gap) * q /\ (k - 12 = 0 => q = 1)
  <2>1. SameBelow(r, s, k - 12) /\ IsMore(u, t, k - 12, s[k] * Gap)
    BY <1>11, <1>13 DEF SameBelow, IsMore
  <2>2. k - 12 \in 0..24
    OBVIOUS
  <2>3. \E q \in Int : IsMore(u, t, 0, (s[k] * Gap) * q) /\ (k - 12 = 0 => q = 1)
    BY <1>1, <1>2, <1>3, <1>12, <2>1, <2>2, TailsOf24Apart
  <2> QED
    BY <2>3 DEF IsMore
<1> QED
  BY <1>2, <1>3, <1>14

-----------------------------------------------------------------------------
(* What the programs run at each place.  Both end with the same 60 steps;  *)
(* sc_muladd has 23 before them, numbered from -22 on.                     *)

Run(op, k) == [op |-> op, at |-> k]

CommonStep(i) ==
  CASE i \in 1..6   -> Run("fold", 24 - i)
    [] i \in 7..12  -> Run("round", 2 * i - 8)
    [] i \in 13..17 -> Run("round", 2 * i - 19)
    [] i \in 18..23 -> Run("fold", 35 - i)
    [] i \in 24..29 -> Run("round", 2 * i - 48)
    [] i \in 30..35 -> Run("round", 2 * i - 59)
    [] i \in 36..36 -> Run("fold", 12)
    [] i \in 37..48 -> Run("floor", i - 37)
    [] i \in 49..49 -> Run("fold", 12)
    [] i \in 50..60 -> Run("floor", i - 50)

FirstStep(i) == IF i <= -11 THEN Run("round", 2 * i + 44) ELSE Run("round", 2 * i + 21)

StepAt(i) == IF i <= 0 THEN FirstStep(i) ELSE CommonStep(i)

(* The place the common part is at. *)
Place(q, c) == c - (Len(q) - 60)

Kinds == {"fold", "round", "floor"}

(* s is n of the steps, those after place i. *)
IsSteps(s, n, i) ==
  s \in Seq([op : Kinds, at : Int]) /\ Len(s) = n /\ \A j \in 1..n : s[j] = StepAt(i + j)

LEMMA PassIs ==
  ASSUME NEW op \in Kinds, NEW from \in Int, NEW n \in Nat, NEW stride \in Int, NEW i \in Int,
         \A j \in 1..n : Run(op, from + (j - 1) * stride) = StepAt(i + j)
  PROVE  IsSteps(Pass(op, from, n, stride), n, i)
  BY DEF Pass, Run, IsSteps

LEMMA JoinedIs ==
  ASSUME NEW m \in Nat, NEW n \in Nat, NEW s, NEW r, NEW i \in Int, NEW j \in Int, j = i + m,
         NEW k \in Nat, k = m + n, IsSteps(s, m, i), IsSteps(r, n, j)
  PROVE  IsSteps(s \o r, k, i)
<1> DEFINE S == [op : Kinds, at : Int]
           q == s \o r
<1>1. s \in Seq(S) /\ r \in Seq(S) /\ Len(s) = m /\ Len(r) = n
  BY DEF IsSteps
<1>2. q \in Seq(S) /\ Len(q) = Len(s) + Len(r)
  BY <1>1, ConcatProperties
<1>3. \A l \in 1..Len(s)+Len(r) : q[l] = IF l <= Len(s) THEN s[l] ELSE r[l - Len(s)]
  BY <1>1, ConcatProperties
<1> HIDE DEF q, S
<1>4. \A l \in 1..k : q[l] = IF l <= m THEN s[l] ELSE r[l - m]
  BY <1>1, <1>3
<1>5. ASSUME NEW l \in 1..k PROVE q[l] = StepAt(i + l)
  <2>1. CASE l <= m
    BY <1>4, <2>1 DEF IsSteps
  <2>2. CASE l > m
    <3>1. l - m \in 1..n /\ q[l] = r[l - m] /\ j + (l - m) = i + l
      BY <1>4, <2>2
    <3>2. r[l - m] = StepAt(j + (l - m))
      BY <3>1 DEF IsSteps
    <3> QED
      BY <3>1, <3>2
  <2> QED
    BY <2>1, <2>2
<1>6. IsSteps(q, k, i)
  BY <1>1, <1>2, <1>5 DEF IsSteps, S
<1> QED
  BY <1>6 DEF q

LEMMA FoldHighIs == IsSteps(FoldHighLimbs, 23, 0)
<1> DEFINE a == Pass("fold", 23, 6, -1)
           b == Pass("round", 6, 6, 2)
           c == Pass("round", 7, 5, 2)
           d == Pass("fold", 17, 6, -1)
<1>0. /\ -1 \in Int /\ 0 \in Int /\ 2 \in Int /\ 6 \in Int /\ 7 \in Int /\ 12 \in Int /\ 17 \in Int /\ 23 \in Int
      /\ 5 \in Nat /\ 6 \in Nat /\ 12 \in Nat /\ 17 \in Nat /\ 23 \in Nat
      /\ "fold" \in Kinds /\ "round" \in Kinds /\ "floor" \in Kinds
  BY DEF Kinds
<1>1. IsSteps(a, 6, 0)
  <2>1. \A j \in 1..6 : Run("fold", 23 + (j - 1) * (-1)) = StepAt(0 + j)
    BY DEF StepAt, CommonStep, FirstStep
  <2> QED
    BY <1>0, <2>1, PassIs
<1>2. IsSteps(b, 6, 6)
  <2>1. \A j \in 1..6 : Run("round", 6 + (j - 1) * 2) = StepAt(6 + j)
    BY DEF StepAt, CommonStep, FirstStep
  <2> QED
    BY <1>0, <2>1, PassIs
<1>3. IsSteps(c, 5, 12)
  <2>1. \A j \in 1..5 : Run("round", 7 + (j - 1) * 2) = StepAt(12 + j)
    BY DEF StepAt, CommonStep, FirstStep
  <2> QED
    BY <1>0, <2>1, PassIs
<1>4. IsSteps(d, 6, 17)
  <2>1. \A j \in 1..6 : Run("fold", 17 + (j - 1) * (-1)) = StepAt(17 + j)
    BY DEF StepAt, CommonStep, FirstStep
  <2> QED
    BY <1>0, <2>1, PassIs
<1> HIDE DEF a, b, c, d
<1>5. IsSteps(a \o b, 12, 0)
  <2>1. 6 = 0 + 6 /\ 12 = 6 + 6
    OBVIOUS
  <2> QED
    BY <1>0, <1>2, <1>1, <2>1, JoinedIs
<1>6. IsSteps((a \o b) \o c, 17, 0)
  <2>1. 12 = 0 + 12 /\ 17 = 12 + 5
    OBVIOUS
  <2> QED
    BY <1>0, <1>3, <1>5, <2>1, JoinedIs
<1>7. IsSteps(((a \o b) \o c) \o d, 23, 0)
  <2>1. 17 = 0 + 17 /\ 23 = 17 + 6
    OBVIOUS
  <2> QED
    BY <1>0, <1>4, <1>6, <2>1, JoinedIs
<1> QED
  BY <1>7 DEF FoldHighLimbs, a, b, c, d

LEMMA SettleIs == IsSteps(SettleLimbs, 37, 23)
<1> DEFINE a == Pass("round", 0, 6, 2)
           b == Pass("round", 1, 6, 2)
           c == Pass("fold", 12, 1, 1)
           d == Pass("floor", 0, 12, 1)
           e == Pass("fold", 12, 1, 1)
           f == Pass("floor", 0, 11, 1)
<1>0. /\ 0 \in Int /\ 1 \in Int /\ 2 \in Int /\ 12 \in Int /\ 23 \in Int /\ 29 \in Int /\ 35 \in Int /\ 36 \in Int /\ 37 \in Int /\ 48 \in Int /\ 49 \in Int
      /\ 1 \in Nat /\ 6 \in Nat /\ 11 \in Nat /\ 12 \in Nat /\ 13 \in Nat /\ 25 \in Nat /\ 26 \in Nat /\ 37 \in Nat
      /\ "fold" \in Kinds /\ "round" \in Kinds /\ "floor" \in Kinds
  BY DEF Kinds
<1>1. IsSteps(a, 6, 23)
  <2>1. \A j \in 1..6 : Run("round", 0 + (j - 1) * 2) = StepAt(23 + j)
    BY DEF StepAt, CommonStep, FirstStep
  <2> QED
    BY <1>0, <2>1, PassIs
<1>2. IsSteps(b, 6, 29)
  <2>1. \A j \in 1..6 : Run("round", 1 + (j - 1) * 2) = StepAt(29 + j)
    BY DEF StepAt, CommonStep, FirstStep
  <2> QED
    BY <1>0, <2>1, PassIs
<1>3. IsSteps(c, 1, 35)
  <2>1. \A j \in 1..1 : Run("fold", 12 + (j - 1) * 1) = StepAt(35 + j)
    BY DEF StepAt, CommonStep, FirstStep
  <2> QED
    BY <1>0, <2>1, PassIs
<1>4. IsSteps(d, 12, 36)
  <2>1. \A j \in 1..12 : Run("floor", 0 + (j - 1) * 1) = StepAt(36 + j)
    BY DEF StepAt, CommonStep, FirstStep
  <2> QED
    BY <1>0, <2>1, PassIs
<1>5. IsSteps(e, 1, 48)
  <2>1. \A j \in 1..1 : Run("fold", 12 + (j - 1) * 1) = StepAt(48 + j)
    BY DEF StepAt, CommonStep, FirstStep
  <2> QED
    BY <1>0, <2>1, PassIs
<1>6. IsSteps(f, 11, 49)
  <2>1. \A j \in 1..11 : Run("floor", 0 + (j - 1) * 1) = StepAt(49 + j)
    BY DEF StepAt, CommonStep, FirstStep
  <2> QED
    BY <1>0, <2>1, PassIs
<1> HIDE DEF a, b, c, d, e, f
<1>7. IsSteps(a \o b, 12, 23)
  <2>1. 29 = 23 + 6 /\ 12 = 6 + 6
    OBVIOUS
  <2> QED
    BY <1>0, <1>2, <1>1, <2>1, JoinedIs
<1>8. IsSteps((a \o b) \o c, 13, 23)
  <2>1. 35 = 23 + 12 /\ 13 = 12 + 1
    OBVIOUS
  <2> QED
    BY <1>0, <1>3, <1>7, <2>1, JoinedIs
<1>9. IsSteps(((a \o b) \o c) \o d, 25, 23)
  <2>1. 36 = 23 + 13 /\ 25 = 13 + 12
    OBVIOUS
  <2> QED
    BY <1>0, <1>4, <1>8, <2>1, JoinedIs
<1>10. IsSteps((((a \o b) \o c) \o d) \o e, 26, 23)
  <2>1. 48 = 23 + 25 /\ 26 = 25 + 1
    OBVIOUS
  <2> QED
    BY <1>0, <1>5, <1>9, <2>1, JoinedIs
<1>11. IsSteps(((((a \o b) \o c) \o d) \o e) \o f, 37, 23)
  <2>1. 49 = 23 + 26 /\ 37 = 26 + 11
    OBVIOUS
  <2> QED
    BY <1>0, <1>6, <1>10, <2>1, JoinedIs
<1> QED
  BY <1>11 DEF SettleLimbs, a, b, c, d, e, f

LEMMA ReduceIs == IsSteps(ReduceProgram, 60, 0)
<1> DEFINE a == FoldHighLimbs
           b == SettleLimbs
<1>0. /\ 0 \in Int /\ 23 \in Int /\ 60 \in Int
      /\ 23 \in Nat /\ 37 \in Nat /\ 60 \in Nat
      /\ "fold" \in Kinds /\ "round" \in Kinds /\ "floor" \in Kinds
  BY DEF Kinds
<1>1. IsSteps(a, 23, 0)
  BY FoldHighIs
<1>2. IsSteps(b, 37, 23)
  BY SettleIs
<1> HIDE DEF a, b
<1>3. IsSteps(a \o b, 60, 0)
  <2>1. 23 = 0 + 23 /\ 60 = 23 + 37
    OBVIOUS
  <2> QED
    BY <1>0, <1>2, <1>1, <2>1, JoinedIs
<1> QED
  BY <1>3 DEF ReduceProgram, a, b

LEMMA MulAddIs == IsSteps(MulAddProgram, 83, -23)
<1> DEFINE a == Pass("round", 0, 12, 2)
           b == Pass("round", 1, 11, 2)
           c == FoldHighLimbs
           d == SettleLimbs
<1>0. /\ -23 \in Int /\ -11 \in Int /\ 0 \in Int /\ 1 \in Int /\ 2 \in Int /\ 23 \in Int /\ 83 \in Int
      /\ 11 \in Nat /\ 12 \in Nat /\ 23 \in Nat /\ 37 \in Nat /\ 46 \in Nat /\ 83 \in Nat
      /\ "fold" \in Kinds /\ "round" \in Kinds /\ "floor" \in Kinds
  BY DEF Kinds
<1>1. IsSteps(a, 12, -23)
  <2>1. \A j \in 1..12 : Run("round", 0 + (j - 1) * 2) = StepAt(-23 + j)
    BY DEF StepAt, CommonStep, FirstStep
  <2> QED
    BY <1>0, <2>1, PassIs
<1>2. IsSteps(b, 11, -11)
  <2>1. \A j \in 1..11 : Run("round", 1 + (j - 1) * 2) = StepAt(-11 + j)
    BY DEF StepAt, CommonStep, FirstStep
  <2> QED
    BY <1>0, <2>1, PassIs
<1>3. IsSteps(c, 23, 0)
  BY FoldHighIs
<1>4. IsSteps(d, 37, 23)
  BY SettleIs
<1> HIDE DEF a, b, c, d
<1>5. IsSteps(a \o b, 23, -23)
  <2>1. -11 = -23 + 12 /\ 23 = 12 + 11
    OBVIOUS
  <2> QED
    BY <1>0, <1>2, <1>1, <2>1, JoinedIs
<1>6. IsSteps((a \o b) \o c, 46, -23)
  <2>1. 0 = -23 + 23 /\ 46 = 23 + 23
    OBVIOUS
  <2> QED
    BY <1>0, <1>3, <1>5, <2>1, JoinedIs
<1>7. IsSteps(((a \o b) \o c) \o d, 83, -23)
  <2>1. 23 = -23 + 46 /\ 83 = 46 + 37
    OBVIOUS
  <2> QED
    BY <1>0, <1>4, <1>6, <2>1, JoinedIs
<1> QED
  BY <1>7 DEF MulAddProgram, a, b, c, d

(* What is run at step c of a program. *)
LEMMA ProgramRuns ==
  ASSUME NEW q \in {ReduceProgram, MulAddProgram}, NEW c \in 1..Len(q)
  PROVE  /\ Len(q) \in {60, 83} /\ Place(q, c) \in -22..60
         /\ q[c] = StepAt(Place(q, c))
<1>1. CASE q = ReduceProgram
  <2>1. Len(q) = 60 /\ \A j \in 1..60 : q[j] = StepAt(0 + j)
    BY <1>1, ReduceIs DEF IsSteps
  <2>2. Place(q, c) = 0 + c /\ c \in 1..60
    BY <2>1 DEF Place
  <2> QED
    BY <2>1, <2>2
<1>2. CASE q = MulAddProgram
  <2>1. Len(q) = 83 /\ \A j \in 1..83 : q[j] = StepAt(-23 + j)
    BY <1>2, MulAddIs DEF IsSteps
  <2>2. Place(q, c) = -23 + c /\ c \in 1..83
    BY <2>1 DEF Place
  <2> QED
    BY <2>1, <2>2
<1> QED
  BY <1>1, <1>2

LEMMA ProgramLengths ==
  \A q \in {ReduceProgram, MulAddProgram} : Len(q) \in {60, 83}
  BY ReduceIs, MulAddIs DEF IsSteps

LEMMA KindsOfSteps ==
  ASSUME NEW i \in -22..60, NEW op, NEW k, StepAt(i) = Run(op, k)
  PROVE  /\ op = "fold" => k \in 12..23
         /\ op = "round" \/ op = "floor" => k \in 0..22
  BY DEF StepAt, CommonStep, FirstStep, Run

LEMMA StepsAtPlaces ==
  ASSUME program \in {ReduceProgram, MulAddProgram}, pc \in 1..Len(program)+1,
         NEW op, NEW k, At(op, k)
  PROVE  /\ pc \in 1..Len(program) /\ Place(program, pc) \in -22..60
         /\ StepAt(Place(program, pc)) = Run(op, k)
         /\ op = "fold" => k \in 12..23
         /\ op = "round" \/ op = "floor" => k \in 0..22
<1>1. pc \in 1..Len(program) /\ program[pc] = Run(op, k)
  BY ProgramLengths DEF At, Run
<1>2. Place(program, pc) \in -22..60 /\ program[pc] = StepAt(Place(program, pc))
  BY <1>1, ProgramRuns
<1> QED
  BY <1>1, <1>2, KindsOfSteps

-----------------------------------------------------------------------------
(* The actions as changes of the limbs.                                    *)

Amount(k, half) == (limb[k] + half) \div Radix

LEMMA AmountsAreInt ==
  ASSUME limb \in [Places -> Int], NEW k \in Places
  PROVE  Amount(k, Radix \div 2) \in Int /\ Amount(k, 0) \in Int
<1>1. limb[k] + 0 \in Int
  OBVIOUS
<1>2. 2 \in Nat \ {0} /\ Radix \in Int /\ Radix \in Nat \ {0}
  BY Numbers
<1>3. Radix \div 2 \in Int
  BY <1>2, ModSplits
<1>4. limb[k] + (Radix \div 2) \in Int
  BY <1>3
<1> QED
  BY <1>1, <1>2, <1>4, ModSplits DEF Amount

LEMMA CarryCarries ==
  ASSUME limb \in [Places -> Int], NEW k \in 0..22, NEW amount \in Int, NEW n,
         Carry(k, amount, n)
  PROVE  CarriedOut(limb', limb, k, amount) /\ limb' \in [Places -> Int]
<1>1. k \in Places /\ k + 1 \in Places /\ limb[k] \in Int /\ limb[k + 1] \in Int /\ amount * Radix \in Int
  BY Numbers DEF Places
<1>2. limb' = [limb EXCEPT ![k] = @ - amount * Radix, ![k + 1] = @ + amount]
  BY DEF Carry
<1> QED
  BY <1>1, <1>2 DEF CarriedOut

LEMMA FoldFolds ==
  ASSUME limb \in [Places -> Int], NEW k \in 12..23, Fold(k)
  PROVE  FoldedIn(limb', limb, k) /\ limb' \in [Places -> Int]
<1>1. limb' = [j \in Places |->
                CASE j = k -> 0
                  [] j \in k-12..k-7 -> limb[j] + limb[k] * Multiplier[j - (k - 12)]
                  [] OTHER -> limb[j]]
  BY DEF Fold
<1>2. \A j \in k-12..k-7 : /\ Multiplier[j - (k - 12)] \in Int /\ j \in Places /\ j # k
                           /\ limb[k] * Multiplier[j - (k - 12)] \in Int
  <2>1. ASSUME NEW j \in k-12..k-7
        PROVE  /\ Multiplier[j - (k - 12)] \in Int /\ j \in Places /\ j # k
               /\ limb[k] * Multiplier[j - (k - 12)] \in Int
    <3>1. j - (k - 12) \in 0..5 /\ j \in Places /\ j # k /\ k \in Places
      BY DEF Places
    <3>2. Multiplier[j - (k - 12)] \in Int /\ limb[k] \in Int
      BY <3>1, ScalarAssumption
    <3> QED
      BY <3>1, <3>2
  <2> QED
    BY <2>1
<1>3. FoldedIn(limb', limb, k)
  BY <1>1, <1>2 DEF FoldedIn, Places
<1>4. ASSUME NEW j \in Places PROVE limb'[j] \in Int
  <2>1. limb[j] \in Int
    OBVIOUS
  <2>2. CASE j \in k-12..k-7
    <3>1. limb'[j] = limb[j] + limb[k] * Multiplier[j - (k - 12)]
      BY <1>3, <2>2 DEF FoldedIn
    <3> QED
      BY <1>2, <2>1, <2>2, <3>1
  <2>3. CASE j \notin k-12..k-7
    BY <1>3, <2>1, <2>3 DEF FoldedIn
  <2> QED
    BY <2>2, <2>3
<1> QED
  BY <1>1, <1>3, <1>4

(* What each step of a program does to the limbs. *)
LEMMA StepChanges ==
  ASSUME program \in {ReduceProgram, MulAddProgram}, pc \in 1..Len(program)+1,
         limb \in [Places -> Int], ScalarStep
  PROVE  \/ \E k \in 12..23 : Fold(k) /\ FoldedIn(limb', limb, k)
         \/ \E k \in 0..22 : Round(k) /\ CarriedOut(limb', limb, k, Amount(k, Radix \div 2))
         \/ \E k \in 0..22 : Floor(k) /\ CarriedOut(limb', limb, k, Amount(k, 0))
<1>1. CASE \E k \in Places : Fold(k)
  <2>1. PICK k \in Places : Fold(k)
    BY <1>1
  <2>2. k \in 12..23
    BY <2>1, StepsAtPlaces DEF Fold
  <2> QED
    BY <2>1, <2>2, FoldFolds
<1>2. CASE \E k \in Places : Round(k)
  <2>1. PICK k \in Places : Round(k)
    BY <1>2
  <2>2. k \in 0..22
    BY <2>1, StepsAtPlaces DEF Round
  <2>3. Amount(k, Radix \div 2) \in Int
    BY AmountsAreInt
  <2>4. Carry(k, Amount(k, Radix \div 2), Larger(bits[k] - 20, 0))
    BY <2>1 DEF Round, Amount
  <2>5. CarriedOut(limb', limb, k, Amount(k, Radix \div 2))
    BY <2>2, <2>3, <2>4, CarryCarries
  <2> QED
    BY <2>1, <2>2, <2>5
<1>3. CASE \E k \in Places : Floor(k)
  <2>1. PICK k \in Places : Floor(k)
    BY <1>3
  <2>2. k \in 0..22
    BY <2>1, StepsAtPlaces DEF Floor
  <2>3. Amount(k, 0) \in Int /\ limb[k] + 0 = limb[k]
    <3>1. limb[k] \in Int
      OBVIOUS
    <3> QED
      BY <3>1, AmountsAreInt
  <2>4. Carry(k, Amount(k, 0), Larger(bits[k] - 21, 0) + 1)
    BY <2>1, <2>3 DEF Floor, Amount
  <2>5. CarriedOut(limb', limb, k, Amount(k, 0))
    BY <2>2, <2>3, <2>4, CarryCarries
  <2> QED
    BY <2>1, <2>2, <2>5
<1> QED
  BY <1>1, <1>2, <1>3 DEF ScalarStep

LEMMA StepKeepsLimbs ==
  ASSUME program \in {ReduceProgram, MulAddProgram}, pc \in 1..Len(program)+1,
         limb \in [Places -> Int], ScalarStep
  PROVE  limb' \in [Places -> Int]
<1>1. ASSUME NEW k \in Places, Fold(k) PROVE limb' \in [Places -> Int]
  <2>1. k \in 12..23
    BY <1>1, StepsAtPlaces DEF Fold
  <2> QED
    BY <1>1, <2>1, FoldFolds
<1>2. ASSUME NEW k \in Places, Round(k) PROVE limb' \in [Places -> Int]
  <2>1. k \in 0..22
    BY <1>2, StepsAtPlaces DEF Round
  <2>2. Carry(k, Amount(k, Radix \div 2), Larger(bits[k] - 20, 0))
    BY <1>2 DEF Round, Amount
  <2> QED
    BY <2>1, <2>2, AmountsAreInt, CarryCarries
<1>3. ASSUME NEW k \in Places, Floor(k) PROVE limb' \in [Places -> Int]
  <2>1. k \in 0..22
    BY <1>3, StepsAtPlaces DEF Floor
  <2>2. limb[k] \in Int
    OBVIOUS
  <2>3. limb[k] + 0 = limb[k]
    BY <2>2
  <2>4. Carry(k, Amount(k, 0), Larger(bits[k] - 21, 0) + 1)
    BY <1>3, <2>3 DEF Floor, Amount
  <2> QED
    BY <2>1, <2>4, AmountsAreInt, CarryCarries
<1> QED
  BY <1>1, <1>2, <1>3 DEF ScalarStep

(* No step changes the number mod L.                                       *)
LEMMA StepKeepsResidue ==
  ASSUME program \in {ReduceProgram, MulAddProgram}, pc \in 1..Len(program)+1,
         limb \in [Places -> Int], ScalarStep
  PROVE  Residue(limb', 24) = Residue(limb, 24)
<1>1. limb' \in [Places -> Int]
  BY StepKeepsLimbs
<1>2. AreInt(limb, 24) /\ AreInt(limb', 24) /\ 24 \in Nat
  BY <1>1 DEF AreInt, Places
<1>3. /\ Value(limb, 24) \in Int /\ Residue(limb, 24) = Value(limb, 24) % L
      /\ Value(limb', 24) \in Int /\ Residue(limb', 24) = Value(limb', 24) % L
  BY <1>2, ResidueIs
<1>4. CASE \E k \in 12..23 : Fold(k) /\ FoldedIn(limb', limb, k)
  <2>1. PICK k \in 12..23 : FoldedIn(limb', limb, k)
    BY <1>4
  <2>2. PICK q \in Int : Value(limb', 24) = Value(limb, 24) + limb[k] * Gap * q
    BY <1>1, <2>1, ValueFolded
  <2>3. PICK p \in Int : Gap = L * p
    BY GapDivides
  <2>4. PICK v \in Int : v = limb[k]
    <3>1. k \in Places
      BY DEF Places
    <3> QED
      BY <3>1
  <2>5. v * (L * p) * q = L * (v * p * q) /\ v * p * q \in Int
    <3>1. PICK x \in Int : x = v * p
      OBVIOUS
    <3>2. v * (L * p) = L * (v * p)
      BY Numbers
    <3>3. L * x * q = L * (x * q) /\ x * q \in Int
      BY Numbers
    <3> QED
      BY <3>1, <3>2, <3>3
  <2>6. (Value(limb, 24) + L * (v * p * q)) % L = Value(limb, 24) % L
    BY <1>3, <2>5, Numbers, ModShift
  <2> QED
    BY <1>3, <2>2, <2>3, <2>4, <2>5, <2>6
<1>5. CASE \E k \in 0..22 : \E amount \in Int : CarriedOut(limb', limb, k, amount)
  BY <1>1, <1>3, <1>5, ValueCarried
<1> QED
  <2>1. CASE \E k \in 0..22 : Round(k) /\ CarriedOut(limb', limb, k, Amount(k, Radix \div 2))
    <3>1. PICK k \in 0..22 : CarriedOut(limb', limb, k, Amount(k, Radix \div 2))
      BY <2>1
    <3>2. k \in Places
      BY DEF Places
    <3> QED
      BY <1>5, <3>1, <3>2, AmountsAreInt
  <2>2. CASE \E k \in 0..22 : Floor(k) /\ CarriedOut(limb', limb, k, Amount(k, 0))
    <3>1. PICK k \in 0..22 : CarriedOut(limb', limb, k, Amount(k, 0))
      BY <2>2
    <3>2. k \in Places
      BY DEF Places
    <3> QED
      BY <1>5, <3>1, <3>2, AmountsAreInt
  <2> QED
    BY <1>4, <2>1, <2>2, StepChanges

-----------------------------------------------------------------------------
(* What sc_muladd starts from is ab + c.                                   *)

(* The powers of the radix up to the n-th. *)
ArePowers(w, n) ==
  w \in [0..n -> Int] /\ w[0] = 1 /\ \A k \in 1..n : w[k] = Radix * w[k - 1]

LEMMA PowersExist == ASSUME NEW n \in Nat PROVE \E w : ArePowers(w, n)
<1> DEFINE G == [k \in 1..n |-> [v \in Int |-> Radix * v]]
<1>1. G \in Steps(n, Int)
  BY Numbers DEF Steps
<1>2. \A k \in 1..n : \A v \in Int : G[k][v] = Radix * v
  OBVIOUS
<1> HIDE DEF G
<1>3. PICK f \in [0..n -> Int] : IsIterated(f, n, 1, G)
  <2>1. 1 \in Int
    OBVIOUS
  <2> QED
    BY <1>1, <2>1, RecursionExists, Zenon
<1>4. \A k \in 1..n : f[k] = Radix * f[k - 1]
  BY <1>2, <1>3 DEF IsIterated
<1> QED
  BY <1>3, <1>4 DEF IsIterated, ArePowers

(* A difference of d at place m is one of d times the power of that place. *)
LEMMA DifferenceAt ==
  ASSUME NEW n \in Nat, NEW s, NEW r, AreInt(s, n),
         NEW t, IsTail(t, s, n), NEW u, IsTail(u, r, n),
         NEW m \in 0..n, SameBelow(r, s, m),
         NEW d \in Int, IsMore(u, t, m, d), NEW w, ArePowers(w, n)
  PROVE  IsMore(u, t, 0, d * w[m])
<1> DEFINE T == {j \in 0..m : u[m - j] = t[m - j] + d * w[j]}
<1>1. 0 \in T
  BY DEF IsMore, ArePowers, IsTail
<1>2. ASSUME NEW j \in 0..m-1, j \in T PROVE j + 1 \in T
  <2> DEFINE i == m - (j + 1)
  <2>1. i \in 0..n-1 /\ i \in 0..m-1 /\ i + 1 = m - j /\ j + 1 \in 1..n
    OBVIOUS
  <2>2. t[i] = s[i] + Radix * t[i + 1] /\ u[i] = s[i] + Radix * u[i + 1]
    <3>1. t[i] = s[i] + Radix * t[i + 1] /\ u[i] = r[i] + Radix * u[i + 1]
      BY <2>1 DEF IsTail
    <3>2. s[i] = r[i]
      BY <2>1 DEF SameBelow
    <3> QED
      BY <3>1, <3>2
  <2>3. s[i] \in Int /\ t[i + 1] \in Int /\ w[j] \in Int /\ w[j + 1] = Radix * w[j]
    <3>1. s[i] \in Int /\ t[i + 1] \in Int
      BY <2>1 DEF AreInt, IsTail
    <3>2. j \in 0..n /\ j + 1 \in 1..n /\ (j + 1) - 1 = j
      OBVIOUS
    <3>3. w[j] \in Int /\ w[j + 1] = Radix * w[(j + 1) - 1]
      BY <3>2 DEF ArePowers
    <3> QED
      BY <3>1, <3>2, <3>3
  <2>4. u[i + 1] = t[i + 1] + d * w[j]
    BY <1>2, <2>1
  <2>5. Radix * (t[i + 1] + d * w[j]) = Radix * t[i + 1] + d * (Radix * w[j])
    BY <2>3, Numbers, Distributes
  <2>6. Radix * t[i + 1] \in Int /\ d * (Radix * w[j]) \in Int
    BY <2>3, Numbers
  <2>7. u[i] = t[i] + d * w[j + 1]
    BY <2>2, <2>3, <2>4, <2>5, <2>6
  <2> QED
    BY <2>7
<1> HIDE DEF T
<1>3. 0..m \subseteq T
  BY <1>1, <1>2, InductionUpTo
<1>4. m \in T
  BY <1>3
<1> QED
  BY <1>4 DEF T, IsMore

(* Limb k of the products: f[i] is its sum up to a_i. *)
SumsUp(f, a, b, c, k) ==
  /\ f \in [-1..11 -> Int] /\ f[-1] = IF k < 12 THEN c[k] ELSE 0
  /\ \A i \in 0..11 : f[i] = f[i - 1] + (IF k - i \in 0..11 THEN a[i] * b[k - i] ELSE 0)

Factors12 == [0..11 -> Int]

SumBody(f, a, b, c, k) ==
  [i \in -1..11 |-> IF i = -1 THEN IF k < 12 THEN c[k] ELSE 0
                    ELSE f[i - 1] + (IF k - i \in 0..11 THEN a[i] * b[k - i] ELSE 0)]

LEMMA SumsExist ==
  ASSUME NEW a \in Factors12, NEW b \in Factors12, NEW c \in Factors12, NEW k \in Places
  PROVE  \E f : f = SumBody(f, a, b, c, k)
<1> DEFINE term(i) == IF k - i \in 0..11 THEN a[i] * b[k - i] ELSE 0
           G == [j \in 1..12 |-> [v \in Int |-> v + term(j - 1)]]
           base == IF k < 12 THEN c[k] ELSE 0
<1>1. \A i \in 0..11 : term(i) \in Int
  BY DEF Factors12
<1>2. base \in Int
  BY DEF Factors12, Places
<1> HIDE DEF term, base
<1>3. G \in Steps(12, Int)
  BY <1>1 DEF Steps
<1>4. \A j \in 1..12 : \A v \in Int : G[j][v] = v + term(j - 1)
  OBVIOUS
<1> HIDE DEF G
<1>5. PICK g \in [0..12 -> Int] : IsIterated(g, 12, base, G)
  <2>1. 12 \in Nat
    OBVIOUS
  <2> QED
    BY <1>2, <1>3, <2>1, RecursionExists, Zenon
<1> DEFINE f == [i \in -1..11 |-> g[i + 1]]
<1>6. f[-1] = base
  BY <1>5 DEF IsIterated
<1>7. ASSUME NEW i \in 0..11 PROVE f[i] = f[i - 1] + term(i)
  <2>1. i + 1 \in 1..12 /\ (i + 1) - 1 = i /\ f[i] = g[i + 1] /\ f[i - 1] = g[i] /\ g[i] \in Int
    OBVIOUS
  <2>2. g[i + 1] = G[i + 1][g[i]]
    BY <1>5, <2>1 DEF IsIterated
  <2> QED
    BY <1>4, <2>1, <2>2
<1>8. \A i \in -1..11 : f[i] = IF i = -1 THEN base ELSE f[i - 1] + term(i)
  BY <1>6, <1>7
<1>9. f = [i \in -1..11 |-> f[i]]
  OBVIOUS
<1> HIDE DEF f
<1>10. f = [i \in -1..11 |-> IF i = -1 THEN base ELSE f[i - 1] + term(i)]
  BY <1>8, <1>9, Zenon
<1>11. f = SumBody(f, a, b, c, k)
  BY <1>10, Zenon DEF term, base, SumBody
<1> QED
  BY <1>11

LEMMA ProductIsSum ==
  ASSUME NEW a \in Factors12, NEW b \in Factors12, NEW c \in Factors12, NEW k \in Places
  PROVE  \E f : SumsUp(f, a, b, c, k) /\ Products(a, b, c)[k] = f[11]
<1> DEFINE term(i) == IF k - i \in 0..11 THEN a[i] * b[k - i] ELSE 0
           base == IF k < 12 THEN c[k] ELSE 0
           f == CHOOSE g : g = SumBody(g, a, b, c, k)
<1>1. f = SumBody(f, a, b, c, k)
  BY SumsExist, Zenon
<1>2. Products(a, b, c)[k] = f[11]
  BY DEF Products, SumBody
<1>3. \A i \in 0..11 : term(i) \in Int
  BY DEF Factors12
<1>4. base \in Int
  BY DEF Factors12, Places
<1> HIDE DEF f
<1>5. \A i \in -1..11 : f[i] = IF i = -1 THEN base ELSE f[i - 1] + term(i)
  BY <1>1, Zenon DEF SumBody
<1>6. f = [i \in -1..11 |-> f[i]]
  BY <1>1 DEF SumBody
<1> HIDE DEF term, base
<1> DEFINE T == {n \in 0..12 : f[n - 1] \in Int}
<1>7. 0 \in T
  <2>1. -1 \in -1..11 /\ 0 - 1 = -1
    OBVIOUS
  <2>2. f[-1] = base
    BY <1>5, <2>1
  <2> QED
    BY <1>4, <2>1, <2>2
<1>8. ASSUME NEW n \in 0..12-1, n \in T PROVE n + 1 \in T
  <2>1. n \in 0..11 /\ (n + 1) - 1 = n /\ f[n] = f[n - 1] + term(n)
    BY <1>5
  <2> QED
    BY <1>3, <1>8, <2>1
<1> HIDE DEF T
<1>9. 0..12 \subseteq T
  BY <1>7, <1>8, InductionUpTo
<1>10. \A i \in -1..11 : f[i] \in Int
  <2>1. ASSUME NEW i \in -1..11 PROVE f[i] \in Int
    <3>1. i + 1 \in 0..12 /\ (i + 1) - 1 = i
      OBVIOUS
    <3>2. i + 1 \in T
      BY <1>9, <3>1
    <3> QED
      BY <3>1, <3>2 DEF T
  <2> QED
    BY <2>1
<1>11. f \in [-1..11 -> Int]
  BY <1>6, <1>10, Zenon
<1>12. SumsUp(f, a, b, c, k)
  BY <1>5, <1>11 DEF SumsUp, term, base
<1> QED
  BY <1>2, <1>12

(* Twelve limbs are the number they are with twelve zeros above them. *)
ZeroPadded(c) == [k \in Places |-> IF k < 12 THEN c[k] ELSE 0]

LEMMA ValuePadded ==
  ASSUME NEW c \in Factors12
  PROVE  Value(ZeroPadded(c), 24) = Value(c, 12)
<1>1. AreInt(ZeroPadded(c), 24) /\ AreInt(c, 12) /\ 12 \in Nat /\ 24 \in Nat
  BY DEF AreInt, ZeroPadded, Places, Factors12
<1>2. PICK t : IsTail(t, ZeroPadded(c), 24) /\ t[0] = Value(ZeroPadded(c), 24)
  BY <1>1, ValueTail
<1>3. PICK u : IsTail(u, c, 12) /\ u[0] = Value(c, 12)
  BY <1>1, ValueTail
<1> DEFINE Z == {j \in 0..24 : j >= 12 => t[j] = 0}
           T == {j \in 0..12 : t[j] = u[j]}
<1>4. 24 \in Z
  BY <1>2 DEF IsTail
<1>5. ASSUME NEW j \in 0..24-1, j + 1 \in Z PROVE j \in Z
  <2>1. t[j] = ZeroPadded(c)[j] + Radix * t[j + 1]
    BY <1>2 DEF IsTail
  <2>2. j >= 12 => ZeroPadded(c)[j] = 0 /\ t[j + 1] = 0
    BY <1>5 DEF ZeroPadded, Places
  <2> QED
    BY <2>1, <2>2, Numbers
<1> HIDE DEF Z
<1>6. 0..24 \subseteq Z
  BY <1>4, <1>5, InductionDown
<1>7. 12 \in T
  <2>1. 12 \in Z
    BY <1>6
  <2> QED
    BY <1>3, <2>1 DEF Z, IsTail
<1>8. ASSUME NEW j \in 0..12-1, j + 1 \in T PROVE j \in T
  <2>1. t[j] = ZeroPadded(c)[j] + Radix * t[j + 1]
    BY <1>2 DEF IsTail
  <2>2. u[j] = c[j] + Radix * u[j + 1]
    BY <1>3 DEF IsTail
  <2>3. ZeroPadded(c)[j] = c[j]
    BY DEF ZeroPadded, Places
  <2> QED
    BY <1>8, <2>1, <2>2, <2>3
<1> HIDE DEF T
<1>9. 0..12 \subseteq T
  BY <1>7, <1>8, InductionDown
<1>10. 0 \in T
  BY <1>9
<1> QED
  BY <1>2, <1>3, <1>10 DEF T

(* The next row adds a_i b, from place i up. *)
RowAdded(r, s, b, i, v) ==
  \A k \in Places : r[k] = s[k] + (IF k - i \in 0..11 THEN v * b[k - i] ELSE 0)

LEMMA ValueOfNextRow ==
  ASSUME NEW s \in [Places -> Int], NEW r \in [Places -> Int], NEW b \in Factors12,
         NEW i \in 0..11, NEW v \in Int, RowAdded(r, s, b, i, v), NEW w, ArePowers(w, 24)
  PROVE  Value(r, 24) = Value(s, 24) + (v * Value(b, 12)) * w[i]
<1>1. AreInt(s, 24) /\ AreInt(r, 24) /\ AreInt(b, 12) /\ 12 \in Nat /\ 24 \in Nat
  BY DEF AreInt, Places, Factors12
<1>2. PICK t : IsTail(t, s, 24) /\ t[0] = Value(s, 24)
  BY <1>1, ValueTail
<1>3. PICK u : IsTail(u, r, 24) /\ u[0] = Value(r, 24)
  BY <1>1, ValueTail
<1>4. PICK e : IsTail(e, b, 12) /\ e[0] = Value(b, 12)
  BY <1>1, ValueTail
<1>5. u[i + 12] = t[i + 12]
  <2>1. i + 12 \in 0..24
    OBVIOUS
  <2>2. ASSUME NEW j \in i+12..24-1 PROVE s[j] = r[j]
    <3>1. j \in Places /\ j - i \notin 0..11 /\ s[j] \in Int
      BY DEF Places
    <3> QED
      BY <3>1 DEF RowAdded
  <2> QED
    BY <1>1, <1>2, <1>3, <2>1, <2>2, TailsAgree
<1> DEFINE T == {j \in 0..12 : u[i + j] = t[i + j] + v * e[j]}
<1>6. 12 \in T
  <2>1. e[12] = 0 /\ t[i + 12] \in Int
    BY <1>2, <1>4 DEF IsTail
  <2> QED
    BY <1>5, <2>1
<1>7. ASSUME NEW j \in 0..12-1, j + 1 \in T PROVE j \in T
  <2> DEFINE k == i + j
  <2>1. k \in 0..24-1 /\ k \in Places /\ k - i = j /\ k + 1 = i + (j + 1) /\ k + 1 \in 0..24
    BY DEF Places
  <2>2. t[k] = s[k] + Radix * t[k + 1] /\ t[k + 1] \in Int
    BY <1>2, <2>1 DEF IsTail
  <2>3. u[k] = r[k] + Radix * u[k + 1]
    BY <1>3, <2>1 DEF IsTail
  <2>4. e[j] = b[j] + Radix * e[j + 1] /\ e[j + 1] \in Int
    BY <1>4 DEF IsTail
  <2>5. r[k] = s[k] + v * b[j] /\ s[k] \in Int /\ b[j] \in Int
    BY <2>1 DEF RowAdded, Factors12
  <2>6. u[k + 1] = t[k + 1] + v * e[j + 1]
    BY <1>7, <2>1
  <2> HIDE DEF k
  <2>7. Radix * (t[k + 1] + v * e[j + 1]) = Radix * t[k + 1] + v * (Radix * e[j + 1])
    BY <2>2, <2>4, Numbers, Distributes
  <2>8. v * (b[j] + Radix * e[j + 1]) = v * b[j] + v * (Radix * e[j + 1])
    <3>1. PICK x \in Int : x = Radix * e[j + 1]
      BY <2>4, Numbers
    <3>2. v * (b[j] + x) = v * b[j] + v * x
      BY <2>5, <3>1
    <3> QED
      BY <3>1, <3>2
  <2>9. Radix * t[k + 1] \in Int /\ v * b[j] \in Int /\ v * (Radix * e[j + 1]) \in Int
    BY <2>2, <2>4, <2>5, Numbers
  <2>10. u[k] = t[k] + v * e[j]
    BY <2>2, <2>3, <2>4, <2>5, <2>6, <2>7, <2>8, <2>9
  <2> QED
    BY <2>10 DEF k
<1> HIDE DEF T
<1>8. 0..12 \subseteq T
  BY <1>6, <1>7, InductionDown
<1>9. u[i] = t[i] + v * e[0] /\ v * e[0] \in Int
  <2>1. 0 \in T /\ e[0] \in Int
    BY <1>4, <1>8 DEF IsTail
  <2> QED
    BY <2>1 DEF T
<1>10. IsMore(u, t, i, v * e[0])
  BY <1>9 DEF IsMore
<1>11. SameBelow(r, s, i)
  <2>1. ASSUME NEW j \in 0..i-1 PROVE s[j] = r[j]
    <3>1. j \in Places /\ j - i \notin 0..11 /\ s[j] \in Int
      BY DEF Places
    <3> QED
      BY <3>1 DEF RowAdded
  <2> QED
    BY <2>1 DEF SameBelow
<1>12. IsMore(u, t, 0, (v * e[0]) * w[i])
  <2>1. i \in 0..24
    OBVIOUS
  <2> QED
    BY <1>1, <1>2, <1>3, <1>9, <1>10, <1>11, <2>1, DifferenceAt
<1> QED
  BY <1>2, <1>3, <1>4, <1>12 DEF IsMore

Telescopes(A, B, C, p, v, x) ==
  (C + (A - p * (v + Radix * x)) * B) + (v * B) * p = C + (A - (Radix * p) * x) * B

LEMMA RowTelescopes ==
  ASSUME NEW A \in Int, NEW B \in Int, NEW C \in Int, NEW p \in Int, NEW v \in Int, NEW x \in Int
  PROVE  Telescopes(A, B, C, p, v, x)
<1>1. PICK y \in Int : y = p * v
  OBVIOUS
<1>2. PICK z \in Int : z = (Radix * p) * x
  BY Numbers
<1>3. p * (v + Radix * x) = y + z
  <2>1. PICK q \in Int : q = Radix * x
    BY Numbers
  <2>2. p * (v + q) = p * v + p * q
    BY <2>1
  <2>3. p * (Radix * x) = (Radix * p) * x
    BY Numbers
  <2> QED
    BY <1>1, <1>2, <2>1, <2>2, <2>3
<1>4. (v * B) * p = y * B
  BY <1>1
<1>5. (A - (y + z)) * B = (A - z) * B - y * B
  OBVIOUS
<1>6. (A - z) * B \in Int /\ y * B \in Int
  OBVIOUS
<1>7. (A - p * (v + Radix * x)) * B = (A - z) * B - y * B
  BY <1>3, <1>5, Zenon
<1>8. (A - (Radix * p) * x) * B = (A - z) * B
  BY <1>2, Zenon
<1> QED
  <2>1. (C + ((A - z) * B - y * B)) + y * B = C + (A - z) * B
    BY <1>6
  <2> QED
    BY <1>4, <1>7, <1>8, <2>1, Zenon DEF Telescopes

LEMMA ValueOfProducts ==
  ASSUME NEW a \in Factors12, NEW b \in Factors12, NEW c \in Factors12
  PROVE  /\ Products(a, b, c) \in [Places -> Int]
         /\ Value(Products(a, b, c), 24) = Value(a, 12) * Value(b, 12) + Value(c, 12)
<1> DEFINE A == Value(a, 12)
           B == Value(b, 12)
           C == Value(c, 12)
           F == [k \in Places |-> CHOOSE f : SumsUp(f, a, b, c, k) /\ Products(a, b, c)[k] = f[11]]
           row(n) == [k \in Places |-> F[k][n - 1]]
<1>1. ASSUME NEW k \in Places
      PROVE  SumsUp(F[k], a, b, c, k) /\ Products(a, b, c)[k] = F[k][11]
  <2>1. \E f : SumsUp(f, a, b, c, k) /\ Products(a, b, c)[k] = f[11]
    BY ProductIsSum
  <2> QED
    BY <2>1
<1> HIDE DEF F
<1>2. ASSUME NEW n \in 0..12 PROVE row(n) \in [Places -> Int]
  <2>1. ASSUME NEW k \in Places PROVE F[k][n - 1] \in Int
    <3>1. n - 1 \in -1..11 /\ F[k] \in [-1..11 -> Int]
      BY <1>1 DEF SumsUp
    <3> QED
      BY <3>1
  <2> QED
    BY <2>1
<1>3. row(0) = ZeroPadded(c)
  <2>1. \A k \in Places : F[k][-1] = IF k < 12 THEN c[k] ELSE 0
    BY <1>1 DEF SumsUp
  <2>2. 0 - 1 = -1
    OBVIOUS
  <2> QED
    BY <2>1, <2>2 DEF ZeroPadded
<1>4. row(12) = Products(a, b, c)
  <2>1. \A k \in Places : F[k][11] = Products(a, b, c)[k]
    BY <1>1
  <2>2. 12 - 1 = 11 /\ Products(a, b, c) = [k \in Places |-> Products(a, b, c)[k]]
    BY DEF Products
  <2> QED
    BY <2>1, <2>2
<1>5. ASSUME NEW n \in 0..11 PROVE RowAdded(row(n + 1), row(n), b, n, a[n])
  <2>1. ASSUME NEW k \in Places
        PROVE  F[k][n] = F[k][n - 1] + (IF k - n \in 0..11 THEN a[n] * b[k - n] ELSE 0)
    BY <1>1 DEF SumsUp
  <2>2. (n + 1) - 1 = n
    OBVIOUS
  <2> QED
    BY <2>1, <2>2 DEF RowAdded
<1>6. PICK w : ArePowers(w, 24)
  BY PowersExist
<1>7. AreInt(a, 12) /\ AreInt(b, 12) /\ AreInt(c, 12) /\ 12 \in Nat
  BY DEF AreInt, Factors12
<1>8. PICK t : IsTail(t, a, 12) /\ t[0] = Value(a, 12)
  BY <1>7, ValueTail
<1>9. A \in Int /\ B \in Int /\ C \in Int
  BY <1>7, ResidueIs
<1>10. w[0] = 1 /\ t[0] = A /\ t[12] = 0
  BY <1>6, <1>8 DEF ArePowers, IsTail
<1>11. Value(row(0), 24) = C
  BY <1>3, ValuePadded
<1> HIDE DEF row, A, B, C
<1> DEFINE T == {n \in 0..12 : Value(row(n), 24) = C + (A - w[n] * t[n]) * B}
<1>12. 0 \in T
  <2>1. (A - 1 * A) * B = 0
    BY <1>9
  <2> QED
    BY <1>9, <1>10, <1>11, <2>1
<1>13. ASSUME NEW n \in 0..12-1, n \in T PROVE n + 1 \in T
  <2>1. row(n) \in [Places -> Int] /\ row(n + 1) \in [Places -> Int] /\ n \in 0..11
    BY <1>2
  <2>2. RowAdded(row(n + 1), row(n), b, n, a[n])
    BY <1>5
  <2>3. PICK v \in Int : v = a[n]
    BY DEF Factors12
  <2>4. Value(row(n + 1), 24) = Value(row(n), 24) + (v * Value(b, 12)) * w[n]
    BY <1>6, <2>1, <2>2, <2>3, ValueOfNextRow
  <2>5. t[n] = v + Radix * t[n + 1] /\ t[n + 1] \in Int
    BY <1>8, <2>3 DEF IsTail
  <2>6. w[n + 1] = Radix * w[n] /\ w[n] \in Int
    <3>1. n \in 0..24 /\ n + 1 \in 1..24 /\ (n + 1) - 1 = n
      OBVIOUS
    <3>2. w[n] \in Int /\ w[n + 1] = Radix * w[(n + 1) - 1]
      BY <1>6, <3>1 DEF ArePowers
    <3> QED
      BY <3>1, <3>2
  <2>7. (C + (A - w[n] * (v + Radix * t[n + 1])) * B) + (v * B) * w[n]
          = C + (A - (Radix * w[n]) * t[n + 1]) * B
    <3>1. A \in Int
      BY <1>9
    <3>2. B \in Int
      BY <1>9
    <3>3. C \in Int
      BY <1>9
    <3>4. w[n] \in Int
      BY <2>6
    <3>5. t[n + 1] \in Int
      BY <2>5
    <3>6. Telescopes(A, B, C, w[n], v, t[n + 1])
      BY <3>1, <3>2, <3>3, <3>4, <3>5, RowTelescopes, Zenon
    <3> QED
      BY <3>6, Zenon DEF Telescopes
  <2>8. Value(row(n + 1), 24) = C + (A - w[n + 1] * t[n + 1]) * B
    <3>1. Value(row(n), 24) = C + (A - w[n] * t[n]) * B
      BY <1>13
    <3>2. Value(b, 12) = B
      BY DEF B
    <3>3. t[n] = v + Radix * t[n + 1]
      BY <2>5
    <3>4. Value(row(n + 1), 24) = (C + (A - w[n] * (v + Radix * t[n + 1])) * B) + (v * B) * w[n]
      BY <2>4, <3>1, <3>2, <3>3, Zenon
    <3> QED
      BY <2>6, <2>7, <3>4, Zenon
  <2> QED
    BY <2>8
<1> HIDE DEF T
<1>14. 0..12 \subseteq T
  BY <1>12, <1>13, InductionUpTo
<1>15. Value(row(12), 24) = C + (A - w[12] * 0) * B
  <2>1. 12 \in T
    BY <1>14
  <2> QED
    BY <1>10, <2>1 DEF T
<1>16. w[12] \in Int
  BY <1>6 DEF ArePowers
<1>17. C + (A - w[12] * 0) * B = A * B + C
  BY <1>9, <1>16
<1>18. row(12) \in [Places -> Int]
  BY <1>2
<1> QED
  BY <1>4, <1>15, <1>17, <1>18 DEF A, B, C

(* The reference of the model, too, is ab + c.                             *)
MulAddBody(r, x, b) ==
  [k \in 0..12 |-> IF k = 0 THEN 0
                   ELSE (((r[k - 1] * Radix) % L) + ((x * b[12 - k]) % L)) % L]

LEMMA MulAddExists ==
  ASSUME NEW x \in Int, NEW b \in Factors12
  PROVE  \E r : r = MulAddBody(r, x, b)
<1> DEFINE next(k, v) == (((v * Radix) % L) + ((x * b[12 - k]) % L)) % L
           G == [k \in 1..12 |-> [v \in Int |-> next(k, v)]]
<1>1. ASSUME NEW k \in 1..12, NEW v \in Int PROVE next(k, v) \in Int
  <2>1. b[12 - k] \in Int
    BY DEF Factors12
  <2>2. v * Radix \in Int /\ x * b[12 - k] \in Int /\ L \in Nat \ {0}
    BY <2>1, Numbers
  <2>3. (v * Radix) % L \in Int /\ (x * b[12 - k]) % L \in Int
    BY <2>2
  <2>4. PICK y \in Int : y = ((v * Radix) % L) + ((x * b[12 - k]) % L)
    BY <2>3
  <2> QED
    BY <2>2, <2>4
<1> HIDE DEF next
<1>2. G \in Steps(12, Int)
  BY <1>1 DEF Steps
<1>3. \A k \in 1..12 : \A v \in Int : G[k][v] = next(k, v)
  OBVIOUS
<1> HIDE DEF G
<1>4. PICK f \in [0..12 -> Int] : IsIterated(f, 12, 0, G)
  <2>1. 0 \in Int /\ 12 \in Nat
    OBVIOUS
  <2> QED
    BY <1>2, <2>1, RecursionExists, Zenon
<1>5. \A k \in 0..12 : f[k] = IF k = 0 THEN 0 ELSE next(k, f[k - 1])
  BY <1>3, <1>4 DEF IsIterated
<1>6. f = [k \in 0..12 |-> f[k]]
  BY <1>4
<1>7. f = [k \in 0..12 |-> IF k = 0 THEN 0 ELSE next(k, f[k - 1])]
  BY <1>5, <1>6, Zenon
<1>8. f = MulAddBody(f, x, b)
  BY <1>7, Zenon DEF MulAddBody, next
<1> QED
  BY <1>8

SameRest(u, v) == u % L = v % L

LEMMA RestOfFactor ==
  ASSUME NEW x \in Int, NEW m \in Int, NEW y \in Int
  PROVE  SameRest(m * (x % L) + y, m * x + y)
<1>1. L \in Nat \ {0}
  BY Numbers
<1> QED
  BY <1>1, ModProduct, Zenon DEF SameRest

(* One limb of b more. *)
LEMMA MulAddStep ==
  ASSUME NEW a \in Int, NEW h \in Int, NEW v \in Int, NEW r, r = (a * h) % L
  PROVE  SameRest(((r * Radix) % L) + (((a % L) * v) % L), a * (h * Radix + v))
<1>1. L \in Nat \ {0} /\ Radix \in Int
  BY Numbers
<1>2. PICK y \in Int : y = a * h
  OBVIOUS
<1>3. PICK z \in Int : z = a * v
  OBVIOUS
<1>4. r \in Int /\ a % L \in Int
  BY <1>1, <1>2
<1>5. PICK p \in Int : p = r * Radix
  BY <1>1, <1>4
<1>6. PICK q \in Int : q = (a % L) * v
  BY <1>4
<1>7. p % L \in Int /\ q % L \in Int /\ Radix * y \in Int
  BY <1>1
<1>8. ((p % L) + (q % L)) % L = (p + (q % L)) % L
  BY <1>1, <1>7, ModSum
<1>9. (p + (q % L)) % L = ((q % L) + p) % L
  BY <1>7
<1>10. ((q % L) + p) % L = (q + p) % L
  BY <1>1, ModSum
<1>11. (q + p) % L = (Radix * (y % L) + q) % L
  <2>1. q + p = Radix * (y % L) + q
    BY <1>1, <1>2, <1>4, <1>5
  <2> QED
    BY <2>1
<1>12. (Radix * (y % L) + q) % L = (Radix * y + q) % L
  <2>1. Radix \in Int
    BY <1>1
  <2>2. SameRest(Radix * (y % L) + q, Radix * y + q)
    BY <2>1, RestOfFactor, Zenon
  <2> QED
    BY <2>2, Zenon DEF SameRest
<1>13. (Radix * y + q) % L = (v * (a % L) + Radix * y) % L
  <2>1. Radix * y + q = v * (a % L) + Radix * y
    BY <1>4, <1>6, <1>7
  <2> QED
    BY <2>1
<1>14. (v * (a % L) + Radix * y) % L = (v * a + Radix * y) % L
  <2>1. Radix * y \in Int
    BY <1>7
  <2>2. SameRest(v * (a % L) + Radix * y, v * a + Radix * y)
    BY <2>1, RestOfFactor, Zenon
  <2> QED
    BY <2>2, Zenon DEF SameRest
<1>15. v * a + Radix * y = a * (h * Radix + v)
  <2>1. PICK x \in Int : x = h * Radix
    BY <1>1
  <2>2. a * (x + v) = a * x + a * v
    OBVIOUS
  <2>3. a * (h * Radix) = Radix * (a * h)
    BY <1>1
  <2> QED
    BY <1>2, <1>7, <2>1, <2>2, <2>3
<1> QED
  BY <1>5, <1>6, <1>8, <1>9, <1>10, <1>11, <1>12, <1>13, <1>14, <1>15, Zenon DEF SameRest

LEMMA MulAddIsProduct ==
  ASSUME NEW a \in Factors12, NEW b \in Factors12, NEW c \in Factors12
  PROVE  MulAdd(a, b, c) = (Value(a, 12) * Value(b, 12) + Value(c, 12)) % L
<1> DEFINE A == Value(a, 12)
           r == CHOOSE g : g = MulAddBody(g, A % L, b)
<1>1. AreInt(a, 12) /\ AreInt(b, 12) /\ AreInt(c, 12) /\ 12 \in Nat
  BY DEF AreInt, Factors12
<1>2. A \in Int /\ Value(b, 12) \in Int /\ Value(c, 12) \in Int
  BY <1>1, ResidueIs
<1>3. A % L \in Int /\ L \in Nat \ {0}
  BY <1>2, Numbers
<1>4. MulAdd(a, b, c) = (r[12] + Value(c, 12)) % L
  BY DEF MulAdd, MulAddBody
<1> HIDE DEF A
<1>5. r = MulAddBody(r, A % L, b)
  BY <1>3, MulAddExists, Zenon
<1>6. PICK h \in [0..12 -> Int] : /\ h[0] = 0 /\ Value(b, 12) = h[12]
                                  /\ \A k \in 1..12 : h[k] = h[k - 1] * Radix + b[12 - k]
  BY <1>1, ValueHigh, Zenon
<1> HIDE DEF r
<1>7. \A k \in 0..12 : r[k] = IF k = 0 THEN 0
                              ELSE (((r[k - 1] * Radix) % L) + (((A % L) * b[12 - k]) % L)) % L
  BY <1>5, Zenon DEF MulAddBody
<1> DEFINE T == {k \in 0..12 : r[k] = (A * h[k]) % L}
<1>8. 0 \in T
  <2>1. A * 0 = 0 /\ 0 % L = 0
    BY <1>2, <1>3
  <2> QED
    BY <1>6, <1>7, <2>1
<1>9. ASSUME NEW k \in 0..12-1, k \in T PROVE k + 1 \in T
  <2>1. k + 1 \in 0..12 /\ k + 1 \in 1..12 /\ k + 1 # 0 /\ (k + 1) - 1 = k /\ 12 - (k + 1) \in 0..11
    OBVIOUS
  <2>2. PICK v \in Int : v = b[12 - (k + 1)]
    BY <2>1 DEF Factors12
  <2>3. r[k + 1] = (((r[k] * Radix) % L) + (((A % L) * v) % L)) % L
    BY <1>7, <2>1, <2>2
  <2>4. h[k + 1] = h[k] * Radix + v /\ h[k] \in Int
    BY <1>6, <2>1, <2>2
  <2>5. r[k] = (A * h[k]) % L
    BY <1>9
  <2>6. SameRest(((r[k] * Radix) % L) + (((A % L) * v) % L), A * (h[k] * Radix + v))
    BY <1>2, <2>4, <2>5, MulAddStep, Zenon
  <2>7. r[k + 1] = (A * (h[k] * Radix + v)) % L
    BY <2>3, <2>6 DEF SameRest
  <2> QED
    BY <2>4, <2>7
<1> HIDE DEF T
<1>10. 0..12 \subseteq T
  BY <1>8, <1>9, InductionUpTo
<1>11. r[12] = (A * Value(b, 12)) % L
  <2>1. 12 \in T
    BY <1>10
  <2> QED
    BY <1>6, <2>1 DEF T
<1>12. (((A * Value(b, 12)) % L) + Value(c, 12)) % L = (A * Value(b, 12) + Value(c, 12)) % L
  <2>1. A * Value(b, 12) \in Int
    BY <1>2
  <2> QED
    BY <1>2, <1>3, <2>1, ModSum
<1> QED
  BY <1>4, <1>11, <1>12 DEF A

-----------------------------------------------------------------------------
(* The types, and that nothing is lost.                                    *)

LEMMA OperandsAreLimbs == Operands \subseteq Factors12
  BY ScalarAssumption DEF Factors12

LEMMA BitsAreNat ==
  ASSUME NEW m \in Nat, NEW n \in Nat
  PROVE  SumBits(m, n) \in Nat /\ Larger(m, n) \in Nat
  BY DEF SumBits, Larger

LEMMA InitTyped == ScalarInit => ScalarTypeOK
<1> SUFFICES ASSUME ScalarInit PROVE ScalarTypeOK
  OBVIOUS
<1>1. program \in {ReduceProgram, MulAddProgram}
  BY DEF ScalarInit, StartReduce, StartMulAdd
<1>2. pc \in 1..Len(program)+1
  BY <1>1, ProgramLengths DEF ScalarInit
<1>3. stored \in Int
  BY DEF ScalarInit
<1>4. bits \in [Places -> Nat]
  BY DEF ScalarInit, StartReduce, StartMulAdd, ReduceBits, ProductBits
<1>5. limb \in [Places -> Int] /\ residue \in 0..L-1
  <2>1. ASSUME NEW s \in Reductions, StartReduce(s) PROVE limb \in [Places -> Int] /\ residue \in 0..L-1
    <3>1. s \in [Places -> Int]
      <4>1. s \in [Places -> 0..256*Radix-1]
        BY ScalarAssumption
      <4> QED
        BY <4>1
    <3>2. AreInt(s, 24) /\ 24 \in Nat
      BY <3>1 DEF AreInt, Places
    <3>3. Value(s, 24) \in Int /\ Residue(s, 24) = Value(s, 24) % L
      BY <3>2, ResidueIs
    <3>4. Value(s, 24) % L \in 0..L-1
      BY <3>3, Numbers, ModSplits
    <3> QED
      BY <2>1, <3>1, <3>3, <3>4 DEF StartReduce
  <2>2. ASSUME NEW a \in Operands, NEW b \in Operands, NEW c \in Operands, StartMulAdd(a, b, c)
        PROVE  limb \in [Places -> Int] /\ residue \in 0..L-1
    <3>1. a \in Factors12 /\ b \in Factors12 /\ c \in Factors12
      BY OperandsAreLimbs
    <3>2. Products(a, b, c) \in [Places -> Int]
      BY <3>1, ValueOfProducts
    <3>3. AreInt(a, 12) /\ AreInt(b, 12) /\ AreInt(c, 12) /\ 12 \in Nat
      BY <3>1 DEF AreInt, Factors12
    <3>4. Value(a, 12) \in Int /\ Value(b, 12) \in Int /\ Value(c, 12) \in Int
      BY <3>3, ResidueIs
    <3>5. PICK x \in Int : x = Value(a, 12) * Value(b, 12) + Value(c, 12)
      BY <3>4
    <3>6. x % L \in 0..L-1
      BY Numbers, ModSplits
    <3>7. MulAdd(a, b, c) = x % L
      BY <3>1, <3>5, MulAddIsProduct
    <3> QED
      BY <2>2, <3>2, <3>6, <3>7 DEF StartMulAdd
  <2> QED
    BY <2>1, <2>2 DEF ScalarInit
<1> QED
  BY <1>1, <1>2, <1>3, <1>4, <1>5 DEF ScalarTypeOK

LEMMA InitCongruent == ScalarInit => Congruent
<1> SUFFICES ASSUME ScalarInit PROVE Congruent
  OBVIOUS
<1>1. ASSUME NEW s \in Reductions, StartReduce(s) PROVE Congruent
  BY <1>1 DEF StartReduce, Congruent
<1>2. ASSUME NEW a \in Operands, NEW b \in Operands, NEW c \in Operands, StartMulAdd(a, b, c)
      PROVE  Congruent
  <2>1. a \in Factors12 /\ b \in Factors12 /\ c \in Factors12
    BY OperandsAreLimbs
  <2>2. /\ Products(a, b, c) \in [Places -> Int]
        /\ Value(Products(a, b, c), 24) = Value(a, 12) * Value(b, 12) + Value(c, 12)
    BY <2>1, ValueOfProducts
  <2>3. AreInt(Products(a, b, c), 24) /\ 24 \in Nat
    BY <2>2 DEF AreInt, Places
  <2>4. Residue(Products(a, b, c), 24) = Value(Products(a, b, c), 24) % L
    BY <2>3, ResidueIs
  <2>5. MulAdd(a, b, c) = (Value(a, 12) * Value(b, 12) + Value(c, 12)) % L
    BY <2>1, MulAddIsProduct
  <2>6. MulAdd(a, b, c) = Residue(Products(a, b, c), 24)
    BY <2>2, <2>4, <2>5, Zenon
  <2> QED
    BY <1>2, <2>6 DEF StartMulAdd, Congruent
<1> QED
  BY <1>1, <1>2 DEF ScalarInit

LEMMA StepTyped ==
  ASSUME ScalarTypeOK, [ScalarNext]_scalarVars
  PROVE  ScalarTypeOK' /\ (Congruent => Congruent')
<1> USE DEF ScalarTypeOK
<1>1. CASE ScalarStep
  <2>1. limb' \in [Places -> Int]
    BY <1>1, StepKeepsLimbs
  <2>2. Residue(limb', 24) = Residue(limb, 24)
    BY <1>1, StepKeepsResidue
  <2>3. /\ UNCHANGED <<program, residue, stored>> /\ pc' = pc + 1
        /\ \E k \in Places : Fold(k) \/ Round(k) \/ Floor(k)
    BY <1>1 DEF ScalarStep
  <2>4. PICK k \in Places : Fold(k) \/ Round(k) \/ Floor(k)
    BY <2>3
  <2>5. pc \in 1..Len(program)
    BY <2>4, StepsAtPlaces DEF Fold, Round, Floor
  <2>6. pc' \in 1..Len(program')+1
    <3>1. Len(program) \in Nat
      BY ProgramLengths
    <3> QED
      BY <2>3, <2>5, <3>1
  <2>7. ASSUME NEW amount, NEW n \in Nat, Carry(k, amount, n) PROVE bits' \in [Places -> Nat]
    <3>1. bits' = [bits EXCEPT ![k] = 21, ![k + 1] = SumBits(@, n)]
      BY <2>7 DEF Carry
    <3>2. \A j \in Places : bits[j] \in Nat /\ SumBits(bits[j], n) \in Nat
      BY BitsAreNat
    <3>3. k + 1 # k
      BY DEF Places
    <3> QED
      BY <3>1, <3>2, <3>3
  <2>8. bits' \in [Places -> Nat]
    <3>1. CASE Fold(k)
      <4>1. ASSUME NEW j \in Places PROVE SumBits(bits[j], bits[k] + MultiplierBits) \in Nat
        <5>1. bits[j] \in Nat /\ bits[k] + MultiplierBits \in Nat
          BY DEF MultiplierBits
        <5> QED
          BY <5>1, BitsAreNat
      <4>2. bits' = [j \in Places |->
                CASE j = k -> 0
                  [] j \in k-12..k-7 -> SumBits(bits[j], bits[k] + MultiplierBits)
                  [] OTHER -> bits[j]]
        BY <3>1 DEF Fold
      <4> QED
        BY <4>1, <4>2
    <3>2. CASE Round(k)
      <4>1. Larger(bits[k] - 20, 0) \in Nat
        BY DEF Larger
      <4> QED
        BY <2>7, <3>2, <4>1 DEF Round
    <3>3. CASE Floor(k)
      <4>1. Larger(bits[k] - 21, 0) + 1 \in Nat
        BY DEF Larger
      <4> QED
        BY <2>7, <3>3, <4>1 DEF Floor
    <3> QED
      BY <2>4, <3>1, <3>2, <3>3
  <2> QED
    BY <2>1, <2>2, <2>3, <2>6, <2>8 DEF Congruent
<1>2. CASE Store
  <2>1. UNCHANGED <<program, limb, bits, pc, residue>>
    BY <1>2 DEF Store
  <2>2. stored' \in Int
    <3>1. AreInt(limb, 12) /\ 12 \in Nat
      BY DEF AreInt, Places
    <3>2. Value(limb, 12) \in Int
      BY <3>1, ResidueIs
    <3> QED
      BY <1>2, <3>2 DEF Store
  <2> QED
    BY <2>1, <2>2 DEF Congruent
<1>3. CASE UNCHANGED scalarVars
  BY <1>3 DEF scalarVars, Congruent
<1> QED
  BY <1>1, <1>2, <1>3 DEF ScalarNext

(* Every variable keeps its type, whatever the radix and the order.        *)
THEOREM ScalarTypeCorrect == ScalarSpec => []ScalarTypeOK
<1>1. ScalarTypeOK /\ [ScalarNext]_scalarVars => ScalarTypeOK'
  BY StepTyped
<1> QED
  BY InitTyped, <1>1, PTL DEF ScalarSpec

(* No fold and no carry of sc_reduce and sc_muladd changes the number mod  *)
(* the group order, and the products sc_muladd starts from are ab + c: for *)
(* every radix, order and operands (sc.c:35-320, 362-775).                 *)
THEOREM CongruentAlways == ScalarSpec => []Congruent
<1>1. ScalarTypeOK /\ Congruent /\ [ScalarNext]_scalarVars => Congruent'
  BY StepTyped
<1> QED
  BY InitCongruent, ScalarTypeCorrect, <1>1, PTL DEF ScalarSpec

-----------------------------------------------------------------------------
(* How large the limbs are before each step: an upper bound of bits, by    *)
(* the pass that is running.  Without the passes of carries in between the *)
(* folds would exceed it.                                                  *)

Least(m, n) == IF m < n THEN m ELSE n

(* The products, carries out of the even limbs. *)
FirstEvens(p, k) ==
  IF k = 23 THEN 0 ELSE IF k >= 2 * (p + 22) THEN 50 ELSE IF k % 2 = 0 THEN 21 ELSE 51

(* Carries out of the odd ones. *)
FirstOdds(p, k) ==
  IF k = 23 THEN 31 ELSE IF k % 2 = 0 THEN IF k <= 2 * (p + 10) THEN 32 ELSE 21
                         ELSE IF k < 2 * (p + 10) THEN 21 ELSE 51

(* Limbs 23 to 18 folded in, each one bit more where several meet. *)
FirstFolds(p, k) ==
  IF k > 24 - p THEN 0
  ELSE IF k < 17 /\ k >= 13 - p THEN 51 + Least(p - 1, 17 - k)
  ELSE IF k = 23 THEN 31 ELSE IF k % 2 = 0 THEN 32 ELSE 21

SecondEvens(p, k) ==
  IF k >= 18 THEN 0 ELSE IF k = 17 THEN 21 ELSE IF k < 6 THEN 32
  ELSE IF k >= 2 * p - 8 THEN 51 + Least(6, 17 - k)
  ELSE IF k % 2 = 0 THEN 21 ELSE 52 + Least(6, 17 - k)

SecondOdds(p, k) ==
  IF k >= 18 THEN 0 ELSE IF k = 17 THEN 33 ELSE IF k < 6 THEN 32
  ELSE IF k % 2 = 0 THEN IF k < 2 * p - 19 THEN 33 + Least(6, 18 - k) ELSE 21
  ELSE IF k < 2 * p - 19 THEN 21 ELSE 52 + Least(6, 17 - k)

(* Limbs 17 to 12. *)
SecondFolds(p, k) ==
  IF k > 35 - p THEN 0 ELSE IF k = 11 THEN 21
  ELSE IF k <= 10 /\ k >= 24 - p THEN 54 + Least(p - 18, 11 - k)
  ELSE IF k <= 10 THEN 39 ELSE IF k = 17 THEN 33
  ELSE IF k % 2 = 0 THEN 33 + Least(6, 18 - k) ELSE 21

ThirdEvens(p, k) ==
  IF k >= 12 THEN 0 ELSE IF k = 11 THEN 21
  ELSE IF k >= 2 * p - 48 THEN 54 + Least(6, 11 - k)
  ELSE IF k % 2 = 0 THEN 21 ELSE 55 + Least(6, 11 - k)

ThirdOdds(p, k) ==
  IF k >= 12 THEN 0 ELSE IF k = 11 THEN 36
  ELSE IF k % 2 = 0 THEN IF k < 2 * p - 59 THEN 36 + Least(6, 12 - k) ELSE 21
  ELSE IF k < 2 * p - 59 THEN 21 ELSE 55 + Least(6, 11 - k)

LastFold(k) ==
  IF k > 12 THEN 0 ELSE IF k = 12 THEN 17
  ELSE IF k % 2 = 0 THEN 36 + Least(6, 12 - k) ELSE 21

FirstFloors(p, k) ==
  IF k >= 12 THEN 0 ELSE IF k < p - 37 THEN 21 ELSE IF k = p - 37 THEN 44 ELSE 43

OneMoreFold(k) == IF k > 12 THEN 0 ELSE IF k = 12 THEN 25 ELSE 21

LastFloors(p, k) ==
  IF k >= 12 THEN 0 ELSE IF k < p - 50 THEN 21 ELSE IF k = p - 50 THEN 47 ELSE 46

Limit(p, k) ==
  CASE p \in -22..-11 -> FirstEvens(p, k)  [] p \in -10..0 -> FirstOdds(p, k)
    [] p \in 1..6     -> FirstFolds(p, k)  [] p \in 7..12  -> SecondEvens(p, k)
    [] p \in 13..17   -> SecondOdds(p, k)  [] p \in 18..23 -> SecondFolds(p, k)
    [] p \in 24..29   -> ThirdEvens(p, k)  [] p \in 30..35 -> ThirdOdds(p, k)
    [] p = 36         -> LastFold(k)       [] p \in 37..48 -> FirstFloors(p, k)
    [] p = 49         -> OneMoreFold(k)    [] p \in 50..61 -> LastFloors(p, k)

Within(b, p) == \A k \in Places : b[k] \in 0..Limit(p, k)

LEMMA LimitsAreLow ==
  ASSUME NEW p \in -22..61, NEW k \in Places
  PROVE  Limit(p, k) \in 0..62
<1> USE DEF Places, Least
<1>1. CASE p \in -22..-11
  BY <1>1 DEF Limit, FirstEvens
<1>2. CASE p \in -10..0
  BY <1>2 DEF Limit, FirstOdds
<1>3. CASE p \in 1..6
  BY <1>3 DEF Limit, FirstFolds
<1>4. CASE p \in 7..12
  BY <1>4 DEF Limit, SecondEvens
<1>5. CASE p \in 13..17
  BY <1>5 DEF Limit, SecondOdds
<1>6. CASE p \in 18..23
  BY <1>6 DEF Limit, SecondFolds
<1>7. CASE p \in 24..29
  BY <1>7 DEF Limit, ThirdEvens
<1>8. CASE p \in 30..35
  BY <1>8 DEF Limit, ThirdOdds
<1>9. CASE p = 36
  BY <1>9 DEF Limit, LastFold
<1>10. CASE p \in 37..48
  BY <1>10 DEF Limit, FirstFloors
<1>11. CASE p = 49
  BY <1>11 DEF Limit, OneMoreFold
<1>12. CASE p \in 50..61
  BY <1>12 DEF Limit, LastFloors
<1> QED
  BY <1>1, <1>2, <1>3, <1>4, <1>5, <1>6, <1>7, <1>8, <1>9, <1>10, <1>11, <1>12

(* What a step does to the bits. *)
BitsCarried(c, b, k, n) ==
  /\ c[k] = 21 /\ c[k + 1] \in 0..Larger(b[k + 1], n)+1
  /\ \A j \in Places : j # k /\ j # k + 1 => c[j] = b[j]

BitsFolded(c, b, k) ==
  /\ c[k] = 0
  /\ \A j \in k-12..k-7 : c[j] \in 0..Larger(b[j], b[k] + 20)+1
  /\ \A j \in Places : j # k /\ j \notin k-12..k-7 => c[j] = b[j]

BitsTaken(b, c, op, k) ==
  CASE op = "fold"  -> BitsFolded(c, b, k)
    [] op = "round" -> BitsCarried(c, b, k, Larger(b[k] - 20, 0))
    [] op = "floor" -> BitsCarried(c, b, k, Larger(b[k] - 21, 0) + 1)

LEMMA FirstEvensKept ==
  ASSUME NEW b, NEW c, NEW p \in -22..-11, Within(b, p),
         NEW k, k = 2 * p + 44, BitsTaken(b, c, "round", k)
  PROVE  Within(c, p + 1)
<1> USE DEF Places, Least
<1>1. \A j \in Places : Limit(p, j) = FirstEvens(p, j)
  BY DEF Limit
<1>2. \A j \in Places : Limit(p + 1, j) = IF p = -11 THEN FirstOdds(p + 1, j) ELSE FirstEvens(p + 1, j)
  BY DEF Limit
<1>3. \A j \in Places : b[j] \in 0..FirstEvens(p, j)
  BY <1>1 DEF Within
<1>4. ASSUME NEW j \in Places PROVE c[j] \in 0..(IF p = -11 THEN FirstOdds(p + 1, j) ELSE FirstEvens(p + 1, j))
  <2>1. /\ c[k] = 21 /\ c[k + 1] \in 0..Larger(b[k + 1], Larger(b[k] - 20, 0))+1
        /\ \A i \in Places : i # k /\ i # k + 1 => c[i] = b[i]
    BY DEF BitsTaken, BitsCarried
  <2>2. k \in Places /\ b[k] \in 0..FirstEvens(p, k) /\ b[j] \in 0..FirstEvens(p, j)
    BY <1>3
  <2>3. CASE j = k
    BY <2>1, <2>2, <2>3 DEF FirstEvens, FirstOdds, Larger
  <2>4. CASE j = k + 1
    BY <2>1, <2>2, <2>4 DEF FirstEvens, FirstOdds, Larger
  <2>5. CASE j # k /\ j # k + 1
    BY <2>1, <2>2, <2>5 DEF FirstEvens, FirstOdds, Larger
  <2> QED
    BY <2>3, <2>4, <2>5
<1> QED
  BY <1>2, <1>4 DEF Within

LEMMA FirstOddsKept ==
  ASSUME NEW b, NEW c, NEW p \in -10..0, Within(b, p),
         NEW k, k = 2 * p + 21, BitsTaken(b, c, "round", k)
  PROVE  Within(c, p + 1)
<1> USE DEF Places, Least
<1>1. \A j \in Places : Limit(p, j) = FirstOdds(p, j)
  BY DEF Limit
<1>2. \A j \in Places : Limit(p + 1, j) = IF p = 0 THEN FirstFolds(p + 1, j) ELSE FirstOdds(p + 1, j)
  BY DEF Limit
<1>3. \A j \in Places : b[j] \in 0..FirstOdds(p, j)
  BY <1>1 DEF Within
<1>4. ASSUME NEW j \in Places PROVE c[j] \in 0..(IF p = 0 THEN FirstFolds(p + 1, j) ELSE FirstOdds(p + 1, j))
  <2>1. /\ c[k] = 21 /\ c[k + 1] \in 0..Larger(b[k + 1], Larger(b[k] - 20, 0))+1
        /\ \A i \in Places : i # k /\ i # k + 1 => c[i] = b[i]
    BY DEF BitsTaken, BitsCarried
  <2>2. k \in Places /\ b[k] \in 0..FirstOdds(p, k) /\ b[j] \in 0..FirstOdds(p, j)
    BY <1>3
  <2>3. CASE j = k
    BY <2>1, <2>2, <2>3 DEF FirstOdds, FirstFolds, Larger
  <2>4. CASE j = k + 1
    BY <2>1, <2>2, <2>4 DEF FirstOdds, FirstFolds, Larger
  <2>5. CASE j # k /\ j # k + 1
    BY <2>1, <2>2, <2>5 DEF FirstOdds, FirstFolds, Larger
  <2> QED
    BY <2>3, <2>4, <2>5
<1> QED
  BY <1>2, <1>4 DEF Within

LEMMA FirstFoldsKept ==
  ASSUME NEW b, NEW c, NEW p \in 1..6, Within(b, p),
         NEW k, k = 24 - p, BitsTaken(b, c, "fold", k)
  PROVE  Within(c, p + 1)
<1> USE DEF Places, Least
<1>1. \A j \in Places : Limit(p, j) = FirstFolds(p, j)
  BY DEF Limit
<1>2. \A j \in Places : Limit(p + 1, j) = IF p = 6 THEN SecondEvens(p + 1, j) ELSE FirstFolds(p + 1, j)
  BY DEF Limit
<1>3. \A j \in Places : b[j] \in 0..FirstFolds(p, j)
  BY <1>1 DEF Within
<1>4. ASSUME NEW j \in Places PROVE c[j] \in 0..(IF p = 6 THEN SecondEvens(p + 1, j) ELSE FirstFolds(p + 1, j))
  <2>1. /\ c[k] = 0 /\ \A i \in k-12..k-7 : c[i] \in 0..Larger(b[i], b[k] + 20)+1
        /\ \A i \in Places : i # k /\ i \notin k-12..k-7 => c[i] = b[i]
    BY DEF BitsTaken, BitsFolded
  <2>2. k \in Places /\ b[k] \in 0..FirstFolds(p, k) /\ b[j] \in 0..FirstFolds(p, j)
    BY <1>3
  <2>3. CASE j = k
    BY <2>1, <2>2, <2>3 DEF FirstFolds, SecondEvens, Larger
  <2>4. CASE j \in k-12..k-7
    BY <2>1, <2>2, <2>4 DEF FirstFolds, SecondEvens, Larger
  <2>5. CASE j # k /\ j \notin k-12..k-7
    BY <2>1, <2>2, <2>5 DEF FirstFolds, SecondEvens, Larger
  <2> QED
    BY <2>3, <2>4, <2>5
<1> QED
  BY <1>2, <1>4 DEF Within

LEMMA SecondEvensKept ==
  ASSUME NEW b, NEW c, NEW p \in 7..12, Within(b, p),
         NEW k, k = 2 * p - 8, BitsTaken(b, c, "round", k)
  PROVE  Within(c, p + 1)
<1> USE DEF Places, Least
<1>1. \A j \in Places : Limit(p, j) = SecondEvens(p, j)
  BY DEF Limit
<1>2. \A j \in Places : Limit(p + 1, j) = IF p = 12 THEN SecondOdds(p + 1, j) ELSE SecondEvens(p + 1, j)
  BY DEF Limit
<1>3. \A j \in Places : b[j] \in 0..SecondEvens(p, j)
  BY <1>1 DEF Within
<1>4. ASSUME NEW j \in Places PROVE c[j] \in 0..(IF p = 12 THEN SecondOdds(p + 1, j) ELSE SecondEvens(p + 1, j))
  <2>1. /\ c[k] = 21 /\ c[k + 1] \in 0..Larger(b[k + 1], Larger(b[k] - 20, 0))+1
        /\ \A i \in Places : i # k /\ i # k + 1 => c[i] = b[i]
    BY DEF BitsTaken, BitsCarried
  <2>2. k \in Places /\ b[k] \in 0..SecondEvens(p, k) /\ b[j] \in 0..SecondEvens(p, j)
    BY <1>3
  <2>3. CASE j = k
    BY <2>1, <2>2, <2>3 DEF SecondEvens, SecondOdds, Larger
  <2>4. CASE j = k + 1
    BY <2>1, <2>2, <2>4 DEF SecondEvens, SecondOdds, Larger
  <2>5. CASE j # k /\ j # k + 1
    BY <2>1, <2>2, <2>5 DEF SecondEvens, SecondOdds, Larger
  <2> QED
    BY <2>3, <2>4, <2>5
<1> QED
  BY <1>2, <1>4 DEF Within

LEMMA SecondOddsKept ==
  ASSUME NEW b, NEW c, NEW p \in 13..17, Within(b, p),
         NEW k, k = 2 * p - 19, BitsTaken(b, c, "round", k)
  PROVE  Within(c, p + 1)
<1> USE DEF Places, Least
<1>1. \A j \in Places : Limit(p, j) = SecondOdds(p, j)
  BY DEF Limit
<1>2. \A j \in Places : Limit(p + 1, j) = IF p = 17 THEN SecondFolds(p + 1, j) ELSE SecondOdds(p + 1, j)
  BY DEF Limit
<1>3. \A j \in Places : b[j] \in 0..SecondOdds(p, j)
  BY <1>1 DEF Within
<1>4. ASSUME NEW j \in Places PROVE c[j] \in 0..(IF p = 17 THEN SecondFolds(p + 1, j) ELSE SecondOdds(p + 1, j))
  <2>1. /\ c[k] = 21 /\ c[k + 1] \in 0..Larger(b[k + 1], Larger(b[k] - 20, 0))+1
        /\ \A i \in Places : i # k /\ i # k + 1 => c[i] = b[i]
    BY DEF BitsTaken, BitsCarried
  <2>2. k \in Places /\ b[k] \in 0..SecondOdds(p, k) /\ b[j] \in 0..SecondOdds(p, j)
    BY <1>3
  <2>3. CASE j = k
    BY <2>1, <2>2, <2>3 DEF SecondOdds, SecondFolds, Larger
  <2>4. CASE j = k + 1
    BY <2>1, <2>2, <2>4 DEF SecondOdds, SecondFolds, Larger
  <2>5. CASE j # k /\ j # k + 1
    BY <2>1, <2>2, <2>5 DEF SecondOdds, SecondFolds, Larger
  <2> QED
    BY <2>3, <2>4, <2>5
<1> QED
  BY <1>2, <1>4 DEF Within

LEMMA SecondFoldsKept ==
  ASSUME NEW b, NEW c, NEW p \in 18..23, Within(b, p),
         NEW k, k = 35 - p, BitsTaken(b, c, "fold", k)
  PROVE  Within(c, p + 1)
<1> USE DEF Places, Least
<1>1. \A j \in Places : Limit(p, j) = SecondFolds(p, j)
  BY DEF Limit
<1>2. \A j \in Places : Limit(p + 1, j) = IF p = 23 THEN ThirdEvens(p + 1, j) ELSE SecondFolds(p + 1, j)
  BY DEF Limit
<1>3. \A j \in Places : b[j] \in 0..SecondFolds(p, j)
  BY <1>1 DEF Within
<1>4. ASSUME NEW j \in Places PROVE c[j] \in 0..(IF p = 23 THEN ThirdEvens(p + 1, j) ELSE SecondFolds(p + 1, j))
  <2>1. /\ c[k] = 0 /\ \A i \in k-12..k-7 : c[i] \in 0..Larger(b[i], b[k] + 20)+1
        /\ \A i \in Places : i # k /\ i \notin k-12..k-7 => c[i] = b[i]
    BY DEF BitsTaken, BitsFolded
  <2>2. k \in Places /\ b[k] \in 0..SecondFolds(p, k) /\ b[j] \in 0..SecondFolds(p, j)
    BY <1>3
  <2>3. CASE j = k
    BY <2>1, <2>2, <2>3 DEF SecondFolds, ThirdEvens, Larger
  <2>4. CASE j \in k-12..k-7
    BY <2>1, <2>2, <2>4 DEF SecondFolds, ThirdEvens, Larger
  <2>5. CASE j # k /\ j \notin k-12..k-7
    BY <2>1, <2>2, <2>5 DEF SecondFolds, ThirdEvens, Larger
  <2> QED
    BY <2>3, <2>4, <2>5
<1> QED
  BY <1>2, <1>4 DEF Within

LEMMA ThirdEvensKept ==
  ASSUME NEW b, NEW c, NEW p \in 24..29, Within(b, p),
         NEW k, k = 2 * p - 48, BitsTaken(b, c, "round", k)
  PROVE  Within(c, p + 1)
<1> USE DEF Places, Least
<1>1. \A j \in Places : Limit(p, j) = ThirdEvens(p, j)
  BY DEF Limit
<1>2. \A j \in Places : Limit(p + 1, j) = IF p = 29 THEN ThirdOdds(p + 1, j) ELSE ThirdEvens(p + 1, j)
  BY DEF Limit
<1>3. \A j \in Places : b[j] \in 0..ThirdEvens(p, j)
  BY <1>1 DEF Within
<1>4. ASSUME NEW j \in Places PROVE c[j] \in 0..(IF p = 29 THEN ThirdOdds(p + 1, j) ELSE ThirdEvens(p + 1, j))
  <2>1. /\ c[k] = 21 /\ c[k + 1] \in 0..Larger(b[k + 1], Larger(b[k] - 20, 0))+1
        /\ \A i \in Places : i # k /\ i # k + 1 => c[i] = b[i]
    BY DEF BitsTaken, BitsCarried
  <2>2. k \in Places /\ b[k] \in 0..ThirdEvens(p, k) /\ b[j] \in 0..ThirdEvens(p, j)
    BY <1>3
  <2>3. CASE j = k
    BY <2>1, <2>2, <2>3 DEF ThirdEvens, ThirdOdds, Larger
  <2>4. CASE j = k + 1
    BY <2>1, <2>2, <2>4 DEF ThirdEvens, ThirdOdds, Larger
  <2>5. CASE j # k /\ j # k + 1
    BY <2>1, <2>2, <2>5 DEF ThirdEvens, ThirdOdds, Larger
  <2> QED
    BY <2>3, <2>4, <2>5
<1> QED
  BY <1>2, <1>4 DEF Within

LEMMA ThirdOddsKept ==
  ASSUME NEW b, NEW c, NEW p \in 30..35, Within(b, p),
         NEW k, k = 2 * p - 59, BitsTaken(b, c, "round", k)
  PROVE  Within(c, p + 1)
<1> USE DEF Places, Least
<1>1. \A j \in Places : Limit(p, j) = ThirdOdds(p, j)
  BY DEF Limit
<1>2. \A j \in Places : Limit(p + 1, j) = IF p = 35 THEN LastFold(j) ELSE ThirdOdds(p + 1, j)
  BY DEF Limit
<1>3. \A j \in Places : b[j] \in 0..ThirdOdds(p, j)
  BY <1>1 DEF Within
<1>4. ASSUME NEW j \in Places PROVE c[j] \in 0..(IF p = 35 THEN LastFold(j) ELSE ThirdOdds(p + 1, j))
  <2>1. /\ c[k] = 21 /\ c[k + 1] \in 0..Larger(b[k + 1], Larger(b[k] - 20, 0))+1
        /\ \A i \in Places : i # k /\ i # k + 1 => c[i] = b[i]
    BY DEF BitsTaken, BitsCarried
  <2>2. k \in Places /\ b[k] \in 0..ThirdOdds(p, k) /\ b[j] \in 0..ThirdOdds(p, j)
    BY <1>3
  <2>3. CASE j = k
    BY <2>1, <2>2, <2>3 DEF ThirdOdds, LastFold, Larger
  <2>4. CASE j = k + 1
    BY <2>1, <2>2, <2>4 DEF ThirdOdds, LastFold, Larger
  <2>5. CASE j # k /\ j # k + 1
    BY <2>1, <2>2, <2>5 DEF ThirdOdds, LastFold, Larger
  <2> QED
    BY <2>3, <2>4, <2>5
<1> QED
  BY <1>2, <1>4 DEF Within

LEMMA LastFoldKept ==
  ASSUME NEW b, NEW c, NEW p \in 36..36, Within(b, p),
         NEW k, k = 12, BitsTaken(b, c, "fold", k)
  PROVE  Within(c, p + 1)
<1> USE DEF Places, Least
<1>1. \A j \in Places : Limit(p, j) = LastFold(j)
  BY DEF Limit
<1>2. \A j \in Places : Limit(p + 1, j) = FirstFloors(p + 1, j)
  BY DEF Limit
<1>3. \A j \in Places : b[j] \in 0..LastFold(j)
  BY <1>1 DEF Within
<1>4. ASSUME NEW j \in Places PROVE c[j] \in 0..FirstFloors(p + 1, j)
  <2>1. /\ c[k] = 0 /\ \A i \in k-12..k-7 : c[i] \in 0..Larger(b[i], b[k] + 20)+1
        /\ \A i \in Places : i # k /\ i \notin k-12..k-7 => c[i] = b[i]
    BY DEF BitsTaken, BitsFolded
  <2>2. k \in Places /\ b[k] \in 0..LastFold(k) /\ b[j] \in 0..LastFold(j)
    BY <1>3
  <2>3. CASE j = k
    BY <2>1, <2>2, <2>3 DEF LastFold, FirstFloors, Larger
  <2>4. CASE j \in k-12..k-7
    BY <2>1, <2>2, <2>4 DEF LastFold, FirstFloors, Larger
  <2>5. CASE j # k /\ j \notin k-12..k-7
    BY <2>1, <2>2, <2>5 DEF LastFold, FirstFloors, Larger
  <2> QED
    BY <2>3, <2>4, <2>5
<1> QED
  BY <1>2, <1>4 DEF Within

LEMMA FirstFloorsKept ==
  ASSUME NEW b, NEW c, NEW p \in 37..48, Within(b, p),
         NEW k, k = p - 37, BitsTaken(b, c, "floor", k)
  PROVE  Within(c, p + 1)
<1> USE DEF Places, Least
<1>1. \A j \in Places : Limit(p, j) = FirstFloors(p, j)
  BY DEF Limit
<1>2. \A j \in Places : Limit(p + 1, j) = IF p = 48 THEN OneMoreFold(j) ELSE FirstFloors(p + 1, j)
  BY DEF Limit
<1>3. \A j \in Places : b[j] \in 0..FirstFloors(p, j)
  BY <1>1 DEF Within
<1>4. ASSUME NEW j \in Places PROVE c[j] \in 0..(IF p = 48 THEN OneMoreFold(j) ELSE FirstFloors(p + 1, j))
  <2>1. /\ c[k] = 21 /\ c[k + 1] \in 0..Larger(b[k + 1], Larger(b[k] - 21, 0) + 1)+1
        /\ \A i \in Places : i # k /\ i # k + 1 => c[i] = b[i]
    BY DEF BitsTaken, BitsCarried
  <2>2. k \in Places /\ b[k] \in 0..FirstFloors(p, k) /\ b[j] \in 0..FirstFloors(p, j)
    BY <1>3
  <2>3. CASE j = k
    BY <2>1, <2>2, <2>3 DEF FirstFloors, OneMoreFold, Larger
  <2>4. CASE j = k + 1
    BY <2>1, <2>2, <2>4 DEF FirstFloors, OneMoreFold, Larger
  <2>5. CASE j # k /\ j # k + 1
    BY <2>1, <2>2, <2>5 DEF FirstFloors, OneMoreFold, Larger
  <2> QED
    BY <2>3, <2>4, <2>5
<1> QED
  BY <1>2, <1>4 DEF Within

LEMMA OneMoreFoldKept ==
  ASSUME NEW b, NEW c, NEW p \in 49..49, Within(b, p),
         NEW k, k = 12, BitsTaken(b, c, "fold", k)
  PROVE  Within(c, p + 1)
<1> USE DEF Places, Least
<1>1. \A j \in Places : Limit(p, j) = OneMoreFold(j)
  BY DEF Limit
<1>2. \A j \in Places : Limit(p + 1, j) = LastFloors(p + 1, j)
  BY DEF Limit
<1>3. \A j \in Places : b[j] \in 0..OneMoreFold(j)
  BY <1>1 DEF Within
<1>4. ASSUME NEW j \in Places PROVE c[j] \in 0..LastFloors(p + 1, j)
  <2>1. /\ c[k] = 0 /\ \A i \in k-12..k-7 : c[i] \in 0..Larger(b[i], b[k] + 20)+1
        /\ \A i \in Places : i # k /\ i \notin k-12..k-7 => c[i] = b[i]
    BY DEF BitsTaken, BitsFolded
  <2>2. k \in Places /\ b[k] \in 0..OneMoreFold(k) /\ b[j] \in 0..OneMoreFold(j)
    BY <1>3
  <2>3. CASE j = k
    BY <2>1, <2>2, <2>3 DEF OneMoreFold, LastFloors, Larger
  <2>4. CASE j \in k-12..k-7
    BY <2>1, <2>2, <2>4 DEF OneMoreFold, LastFloors, Larger
  <2>5. CASE j # k /\ j \notin k-12..k-7
    BY <2>1, <2>2, <2>5 DEF OneMoreFold, LastFloors, Larger
  <2> QED
    BY <2>3, <2>4, <2>5
<1> QED
  BY <1>2, <1>4 DEF Within

LEMMA LastFloorsKept ==
  ASSUME NEW b, NEW c, NEW p \in 50..60, Within(b, p),
         NEW k, k = p - 50, BitsTaken(b, c, "floor", k)
  PROVE  Within(c, p + 1)
<1> USE DEF Places, Least
<1>1. \A j \in Places : Limit(p, j) = LastFloors(p, j)
  BY DEF Limit
<1>2. \A j \in Places : Limit(p + 1, j) = LastFloors(p + 1, j)
  BY DEF Limit
<1>3. \A j \in Places : b[j] \in 0..LastFloors(p, j)
  BY <1>1 DEF Within
<1>4. ASSUME NEW j \in Places PROVE c[j] \in 0..LastFloors(p + 1, j)
  <2>1. /\ c[k] = 21 /\ c[k + 1] \in 0..Larger(b[k + 1], Larger(b[k] - 21, 0) + 1)+1
        /\ \A i \in Places : i # k /\ i # k + 1 => c[i] = b[i]
    BY DEF BitsTaken, BitsCarried
  <2>2. k \in Places /\ b[k] \in 0..LastFloors(p, k) /\ b[j] \in 0..LastFloors(p, j)
    BY <1>3
  <2>3. CASE j = k
    BY <2>1, <2>2, <2>3 DEF LastFloors, Larger
  <2>4. CASE j = k + 1
    BY <2>1, <2>2, <2>4 DEF LastFloors, Larger
  <2>5. CASE j # k /\ j # k + 1
    BY <2>1, <2>2, <2>5 DEF LastFloors, Larger
  <2> QED
    BY <2>3, <2>4, <2>5
<1> QED
  BY <1>2, <1>4 DEF Within

LEMMA LimitKept ==
  ASSUME NEW p \in -22..60, NEW op, NEW k, StepAt(p) = Run(op, k),
         NEW b, NEW c, Within(b, p), BitsTaken(b, c, op, k)
  PROVE  Within(c, p + 1)
<1>1. CASE p \in -22..-11
  <2>1. op = "round" /\ k = 2 * p + 44
    BY <1>1 DEF StepAt, FirstStep, CommonStep, Run
  <2> QED
    BY <1>1, <2>1, FirstEvensKept
<1>2. CASE p \in -10..0
  <2>1. op = "round" /\ k = 2 * p + 21
    BY <1>2 DEF StepAt, FirstStep, CommonStep, Run
  <2> QED
    BY <1>2, <2>1, FirstOddsKept
<1>3. CASE p \in 1..6
  <2>1. op = "fold" /\ k = 24 - p
    BY <1>3 DEF StepAt, FirstStep, CommonStep, Run
  <2> QED
    BY <1>3, <2>1, FirstFoldsKept
<1>4. CASE p \in 7..12
  <2>1. op = "round" /\ k = 2 * p - 8
    BY <1>4 DEF StepAt, FirstStep, CommonStep, Run
  <2> QED
    BY <1>4, <2>1, SecondEvensKept
<1>5. CASE p \in 13..17
  <2>1. op = "round" /\ k = 2 * p - 19
    BY <1>5 DEF StepAt, FirstStep, CommonStep, Run
  <2> QED
    BY <1>5, <2>1, SecondOddsKept
<1>6. CASE p \in 18..23
  <2>1. op = "fold" /\ k = 35 - p
    BY <1>6 DEF StepAt, FirstStep, CommonStep, Run
  <2> QED
    BY <1>6, <2>1, SecondFoldsKept
<1>7. CASE p \in 24..29
  <2>1. op = "round" /\ k = 2 * p - 48
    BY <1>7 DEF StepAt, FirstStep, CommonStep, Run
  <2> QED
    BY <1>7, <2>1, ThirdEvensKept
<1>8. CASE p \in 30..35
  <2>1. op = "round" /\ k = 2 * p - 59
    BY <1>8 DEF StepAt, FirstStep, CommonStep, Run
  <2> QED
    BY <1>8, <2>1, ThirdOddsKept
<1>9. CASE p \in 36..36
  <2>1. op = "fold" /\ k = 12
    BY <1>9 DEF StepAt, FirstStep, CommonStep, Run
  <2> QED
    BY <1>9, <2>1, LastFoldKept
<1>10. CASE p \in 37..48
  <2>1. op = "floor" /\ k = p - 37
    BY <1>10 DEF StepAt, FirstStep, CommonStep, Run
  <2> QED
    BY <1>10, <2>1, FirstFloorsKept
<1>11. CASE p \in 49..49
  <2>1. op = "fold" /\ k = 12
    BY <1>11 DEF StepAt, FirstStep, CommonStep, Run
  <2> QED
    BY <1>11, <2>1, OneMoreFoldKept
<1>12. CASE p \in 50..60
  <2>1. op = "floor" /\ k = p - 50
    BY <1>12 DEF StepAt, FirstStep, CommonStep, Run
  <2> QED
    BY <1>12, <2>1, LastFloorsKept
<1> QED
  BY <1>1, <1>2, <1>3, <1>4, <1>5, <1>6, <1>7, <1>8, <1>9, <1>10, <1>11, <1>12

LEMMA SumBitsIs ==
  ASSUME NEW m \in Nat, NEW n \in Nat
  PROVE  SumBits(m, n) \in 0..Larger(m, n)+1
  BY DEF SumBits, Larger

LEMMA StepTakesBits ==
  ASSUME ScalarTypeOK, ScalarStep
  PROVE  \E op \in Kinds : \E k \in Places : At(op, k) /\ BitsTaken(bits, bits', op, k)
<1>0. /\ bits \in [Places -> Nat] /\ limb \in [Places -> Int]
      /\ program \in {ReduceProgram, MulAddProgram} /\ pc \in 1..Len(program)+1
  BY DEF ScalarTypeOK
<1>1. ASSUME NEW k \in 0..22, NEW amount, NEW n \in Nat, Carry(k, amount, n)
      PROVE  BitsCarried(bits', bits, k, n)
  <2>1. bits' = [bits EXCEPT ![k] = 21, ![k + 1] = SumBits(@, n)]
    BY <1>1 DEF Carry
  <2>2. k \in Places /\ k + 1 \in Places /\ k + 1 # k
    BY DEF Places
  <2>3. bits[k + 1] \in Nat
    BY <1>0, <2>2
  <2>4. SumBits(bits[k + 1], n) \in 0..Larger(bits[k + 1], n)+1
    BY <2>3, SumBitsIs
  <2>5. /\ bits'[k] = 21 /\ bits'[k + 1] = SumBits(bits[k + 1], n)
        /\ \A j \in Places : j # k /\ j # k + 1 => bits'[j] = bits[j]
    BY <1>0, <2>1, <2>2
  <2> QED
    BY <2>4, <2>5 DEF BitsCarried
<1>2. ASSUME NEW k \in Places, Fold(k)
      PROVE  At("fold", k) /\ BitsTaken(bits, bits', "fold", k)
  <2>1. k \in 12..23 /\ At("fold", k)
    BY <1>2, <1>0, StepsAtPlaces DEF Fold
  <2>2. bits' = [j \in Places |->
                CASE j = k -> 0
                  [] j \in k-12..k-7 -> SumBits(bits[j], bits[k] + MultiplierBits)
                  [] OTHER -> bits[j]]
    BY <1>2 DEF Fold
  <2>3. ASSUME NEW j \in k-12..k-7 PROVE bits'[j] \in 0..Larger(bits[j], bits[k] + 20)+1
    <3>1. j \in Places /\ j # k
      BY <2>1 DEF Places
    <3>2. bits'[j] = SumBits(bits[j], bits[k] + 20)
      BY <2>2, <3>1 DEF MultiplierBits
    <3>3. bits[j] \in Nat /\ bits[k] + 20 \in Nat
      BY <1>0, <3>1
    <3>4. SumBits(bits[j], bits[k] + 20) \in 0..Larger(bits[j], bits[k] + 20)+1
      BY <3>3, SumBitsIs
    <3> QED
      BY <3>2, <3>4
  <2>4. bits'[k] = 0 /\ \A j \in Places : j # k /\ j \notin k-12..k-7 => bits'[j] = bits[j]
    BY <1>0, <2>2
  <2>5. BitsFolded(bits', bits, k)
    BY <2>3, <2>4 DEF BitsFolded
  <2> QED
    BY <2>1, <2>5 DEF BitsTaken
<1>3. ASSUME NEW k \in Places, Round(k)
      PROVE  At("round", k) /\ BitsTaken(bits, bits', "round", k)
  <2>1. k \in 0..22 /\ At("round", k)
    BY <1>3, <1>0, StepsAtPlaces DEF Round
  <2>2. Larger(bits[k] - 20, 0) \in Nat
    BY <1>0 DEF Larger
  <2>3. BitsCarried(bits', bits, k, Larger(bits[k] - 20, 0))
    BY <1>1, <1>3, <2>1, <2>2 DEF Round
  <2> QED
    BY <2>1, <2>3 DEF BitsTaken
<1>4. ASSUME NEW k \in Places, Floor(k)
      PROVE  At("floor", k) /\ BitsTaken(bits, bits', "floor", k)
  <2>1. k \in 0..22 /\ At("floor", k)
    BY <1>4, <1>0, StepsAtPlaces DEF Floor
  <2>2. Larger(bits[k] - 21, 0) + 1 \in Nat
    BY <1>0 DEF Larger
  <2>3. BitsCarried(bits', bits, k, Larger(bits[k] - 21, 0) + 1)
    BY <1>1, <1>4, <2>1, <2>2 DEF Floor
  <2> QED
    BY <2>1, <2>3 DEF BitsTaken
<1> QED
  BY <1>2, <1>3, <1>4 DEF ScalarStep, Kinds

BitsInv == Within(bits, Place(program, pc))

LEMMA InitWithin == ScalarInit => BitsInv
<1> USE DEF Places
<1>1. ASSUME program = ReduceProgram, pc = 1, bits = ReduceBits PROVE BitsInv
  <2>1. Place(program, pc) = 1
    BY <1>1, ReduceIs DEF IsSteps, Place
  <2>2. \A k \in Places : Limit(1, k) = FirstFolds(1, k)
    BY DEF Limit
  <2>3. Within(bits, 1)
    BY <1>1, <2>2 DEF Within, FirstFolds, Least, ReduceBits
  <2> QED
    BY <2>1, <2>3 DEF BitsInv
<1>2. ASSUME program = MulAddProgram, pc = 1, bits = ProductBits PROVE BitsInv
  <2>1. Place(program, pc) = -22
    BY <1>2, MulAddIs DEF IsSteps, Place
  <2>2. \A k \in Places : Limit(-22, k) = FirstEvens(-22, k)
    BY DEF Limit
  <2>3. Within(bits, -22)
    BY <1>2, <2>2 DEF Within, FirstEvens, ProductBits
  <2> QED
    BY <2>1, <2>3 DEF BitsInv
<1> QED
  BY <1>1, <1>2 DEF ScalarInit, StartReduce, StartMulAdd

LEMMA StepWithin ==
  ASSUME ScalarTypeOK, BitsInv, [ScalarNext]_scalarVars
  PROVE  BitsInv'
<1>1. CASE ScalarStep
  <2>1. PICK op \in Kinds, k \in Places : At(op, k) /\ BitsTaken(bits, bits', op, k)
    BY <1>1, StepTakesBits
  <2>2. /\ pc \in 1..Len(program) /\ Place(program, pc) \in -22..60
        /\ StepAt(Place(program, pc)) = Run(op, k)
    BY <2>1, StepsAtPlaces DEF ScalarTypeOK
  <2>3. Within(bits', Place(program, pc) + 1)
    BY <2>1, <2>2, LimitKept DEF BitsInv
  <2>4. pc' = pc + 1 /\ program' = program
    BY <1>1 DEF ScalarStep
  <2>5. Place(program', pc') = Place(program, pc) + 1
    <3>1. Len(program) \in Int /\ pc \in Int
      BY ProgramLengths DEF ScalarTypeOK
    <3> QED
      BY <2>4, <3>1 DEF Place
  <2> QED
    BY <2>3, <2>5 DEF BitsInv
<1>2. CASE Store \/ UNCHANGED scalarVars
  BY <1>2 DEF Store, scalarVars, BitsInv
<1> QED
  BY <1>1, <1>2 DEF ScalarNext

(* No limb ever needs more than 62 bits and a sign: the carries between    *)
(* the folds come in time, whatever the numbers.                           *)
THEOREM NoOverflowAlways == ScalarSpec => []NoOverflow
<1>1. ScalarTypeOK /\ BitsInv => NoOverflow
  <2> SUFFICES ASSUME ScalarTypeOK, BitsInv, NEW k \in Places PROVE bits[k] <= 62
    BY DEF NoOverflow
  <2>1. Place(program, pc) \in -22..61
    <3>1. PICK n \in {60, 83} : Len(program) = n
      BY ProgramLengths DEF ScalarTypeOK
    <3>2. pc \in 1..n+1
      BY <3>1 DEF ScalarTypeOK
    <3> QED
      BY <3>1, <3>2 DEF Place
  <2>2. Limit(Place(program, pc), k) \in 0..62
    BY <2>1, LimitsAreLow
  <2>3. bits[k] \in 0..Limit(Place(program, pc), k)
    BY DEF BitsInv, Within
  <2> QED
    BY <2>2, <2>3
<1>2. ScalarTypeOK /\ BitsInv /\ [ScalarNext]_scalarVars => BitsInv'
  BY StepWithin
<1> QED
  BY InitWithin, ScalarTypeCorrect, <1>1, <1>2, PTL DEF ScalarSpec

-----------------------------------------------------------------------------
(* The numbers of the code.                                                *)

RealScalars ==
  /\ Radix = 2097152 /\ TopLimbs = 33554432
  /\ Multiplier = [i \in 0..5 |-> CASE i = 0 -> 666643  [] i = 1 -> 470296
                                    [] i = 2 -> 654183  [] i = 3 -> -997805
                                    [] i = 4 -> 136657  [] i = 5 -> -683901]
  /\ L = 7237005577332262213973186563042994240857116359379907606001950938285454250989

(* The powers of two. *)
AreTwos(two) ==
  two \in [0..127 -> Nat] /\ two[0] = 1 /\ \A n \in 1..127 : two[n] = 2 * two[n - 1]

TwoTo == CHOOSE two : AreTwos(two)

(* |x| < 2^n *)
Fits(x, n) == x \in Int /\ -TwoTo[n] < x /\ x < TwoTo[n]

LEMMA TwosExist == AreTwos(TwoTo)
<1> DEFINE G == [k \in 1..127 |-> [v \in Nat |-> 2 * v]]
<1>1. G \in Steps(127, Nat)
  BY DEF Steps
<1>2. \A k \in 1..127 : \A v \in Nat : G[k][v] = 2 * v
  OBVIOUS
<1> HIDE DEF G
<1>3. PICK f \in [0..127 -> Nat] : IsIterated(f, 127, 1, G)
  <2>1. 1 \in Nat /\ 127 \in Nat
    OBVIOUS
  <2> QED
    BY <1>1, <2>1, RecursionExists, Zenon
<1>4. ASSUME NEW k \in 1..127 PROVE f[k] = 2 * f[k - 1]
  <2>1. k - 1 \in 0..127 /\ f[k] = G[k][f[k - 1]]
    BY <1>3 DEF IsIterated
  <2> QED
    BY <1>2, <2>1
<1>5. AreTwos(f)
  BY <1>3, <1>4 DEF IsIterated, AreTwos
<1> QED
  BY <1>5 DEF TwoTo

LEMMA TwosGrow ==
  ASSUME NEW m \in 0..127, NEW n \in m..127
  PROVE  TwoTo[m] \in Nat \ {0} /\ TwoTo[n] \in Nat \ {0} /\ TwoTo[m] <= TwoTo[n]
<1> DEFINE T == {k \in 0..127 : TwoTo[k] \in Nat \ {0}}
           U == {k \in 0..127-m : TwoTo[m] <= TwoTo[m + k]}
<1>1. /\ TwoTo \in [0..127 -> Nat] /\ TwoTo[0] = 1
      /\ \A k \in 1..127 : TwoTo[k] = 2 * TwoTo[k - 1]
  BY TwosExist DEF AreTwos
<1>2. 0 \in T
  BY <1>1
<1>3. ASSUME NEW k \in 0..127-1, k \in T PROVE k + 1 \in T
  <2>1. TwoTo[k + 1] = 2 * TwoTo[k] /\ k + 1 \in 0..127 /\ TwoTo[k] \in Nat \ {0}
    BY <1>1, <1>3
  <2> QED
    BY <2>1
<1>4. 0..127 \subseteq T
  <2>1. 127 \in Nat
    OBVIOUS
  <2> HIDE DEF T
  <2> QED
    BY <1>2, <1>3, <2>1, InductionUpTo
<1>5. 0 \in U
  BY <1>1
<1>6. ASSUME NEW k \in 0..(127-m)-1, k \in U PROVE k + 1 \in U
  <2>1. TwoTo[m + k + 1] = 2 * TwoTo[m + k] /\ TwoTo[m + k] \in Nat /\ TwoTo[m] \in Nat
    <3>1. m + k + 1 \in 1..127 /\ (m + k + 1) - 1 = m + k /\ m + k \in 0..127
      OBVIOUS
    <3> QED
      BY <1>1, <3>1
  <2>2. m + (k + 1) = m + k + 1 /\ k + 1 \in 0..127-m
    OBVIOUS
  <2> QED
    BY <1>6, <2>1, <2>2
<1>7. 0..127-m \subseteq U
  <2>1. 127 - m \in Nat
    OBVIOUS
  <2> HIDE DEF U
  <2> QED
    BY <1>5, <1>6, <2>1, InductionUpTo
<1>8. n - m \in U /\ m + (n - m) = n
  BY <1>7
<1>9. m \in T /\ n \in T
  BY <1>4
<1> QED
  BY <1>8, <1>9

LEMMA NextTwo ==
  ASSUME NEW n \in 0..126
  PROVE  TwoTo[n] \in Nat \ {0} /\ TwoTo[n + 1] \in Nat \ {0} /\ TwoTo[n + 1] = 2 * TwoTo[n]
<1>1. n + 1 \in 1..127 /\ (n + 1) - 1 = n /\ n \in 0..127 /\ n + 1 \in n..127
  OBVIOUS
<1>2. TwoTo[n + 1] = 2 * TwoTo[n]
  BY <1>1, TwosExist DEF AreTwos
<1> QED
  BY <1>1, <1>2, TwosGrow

LEMMA TwosApart5 ==
  ASSUME NEW n \in 0..122
  PROVE  TwoTo[n + 5] = 32 * TwoTo[n] /\ TwoTo[n] \in Nat \ {0}
<1>1. TwoTo[n + 1] = 2 * TwoTo[n] /\ TwoTo[n] \in Nat \ {0}
  <2>1. n \in 0..126
    OBVIOUS
  <2> QED
    BY <2>1, NextTwo
<1>2. TwoTo[(n + 1) + 1] = 2 * TwoTo[n + 1]
  <2>1. n + 1 \in 0..126
    OBVIOUS
  <2> QED
    BY <2>1, NextTwo
<1>3. TwoTo[(n + 2) + 1] = 2 * TwoTo[n + 2]
  <2>1. n + 2 \in 0..126
    OBVIOUS
  <2> QED
    BY <2>1, NextTwo
<1>4. TwoTo[(n + 3) + 1] = 2 * TwoTo[n + 3]
  <2>1. n + 3 \in 0..126
    OBVIOUS
  <2> QED
    BY <2>1, NextTwo
<1>5. TwoTo[(n + 4) + 1] = 2 * TwoTo[n + 4]
  <2>1. n + 4 \in 0..126
    OBVIOUS
  <2> QED
    BY <2>1, NextTwo
<1>6. (n + 1) + 1 = n + 2 /\ (n + 2) + 1 = n + 3 /\ (n + 3) + 1 = n + 4 /\ (n + 4) + 1 = n + 5
  OBVIOUS
<1> QED
  BY <1>1, <1>2, <1>3, <1>4, <1>5, <1>6

LEMMA TwosApart20 ==
  ASSUME NEW n \in 0..107
  PROVE  TwoTo[n + 20] = 1048576 * TwoTo[n] /\ TwoTo[n] \in Nat \ {0}
<1>1. TwoTo[n + 5] = 32 * TwoTo[n] /\ TwoTo[n] \in Nat \ {0}
  <2>1. n \in 0..122
    OBVIOUS
  <2> QED
    BY <2>1, TwosApart5
<1>2. TwoTo[(n + 5) + 5] = 32 * TwoTo[n + 5]
  <2>1. n + 5 \in 0..122
    OBVIOUS
  <2> QED
    BY <2>1, TwosApart5
<1>3. TwoTo[(n + 10) + 5] = 32 * TwoTo[n + 10]
  <2>1. n + 10 \in 0..122
    OBVIOUS
  <2> QED
    BY <2>1, TwosApart5
<1>4. TwoTo[(n + 15) + 5] = 32 * TwoTo[n + 15]
  <2>1. n + 15 \in 0..122
    OBVIOUS
  <2> QED
    BY <2>1, TwosApart5
<1>5. (n + 5) + 5 = n + 10 /\ (n + 10) + 5 = n + 15 /\ (n + 15) + 5 = n + 20
  OBVIOUS
<1> QED
  BY <1>1, <1>2, <1>3, <1>4, <1>5

LEMMA SomeTwos ==
  /\ TwoTo[0] = 1 /\ TwoTo[1] = 2 /\ TwoTo[5] = 32 /\ TwoTo[20] = 1048576 /\ TwoTo[21] = 2097152
  /\ TwoTo[25] = 33554432 /\ TwoTo[40] = 1099511627776 /\ TwoTo[17] = 131072
<1>1. TwoTo[0] = 1
  BY TwosExist DEF AreTwos
<1>2. TwoTo[0 + 20] = 1048576 * TwoTo[0] /\ TwoTo[0 + 5] = 32 * TwoTo[0]
  <2>1. 0 \in 0..107 /\ 0 \in 0..122
    OBVIOUS
  <2> QED
    BY <2>1, TwosApart20, TwosApart5
<1>3. TwoTo[20 + 20] = 1048576 * TwoTo[20] /\ TwoTo[20 + 5] = 32 * TwoTo[20]
  <2>1. 20 \in 0..107 /\ 20 \in 0..122
    OBVIOUS
  <2> QED
    BY <2>1, TwosApart20, TwosApart5
<1>4. TwoTo[20 + 1] = 2 * TwoTo[20] /\ TwoTo[0 + 1] = 2 * TwoTo[0]
  <2>1. 20 \in 0..126 /\ 0 \in 0..126
    OBVIOUS
  <2> QED
    BY <2>1, NextTwo
<1>5. TwoTo[17 + 1] = 2 * TwoTo[17] /\ TwoTo[17] \in Nat
  <2>1. 17 \in 0..126
    OBVIOUS
  <2> QED
    BY <2>1, NextTwo
<1>6. TwoTo[18 + 1] = 2 * TwoTo[18] /\ TwoTo[18] \in Nat
  <2>1. 18 \in 0..126
    OBVIOUS
  <2> QED
    BY <2>1, NextTwo
<1>7. TwoTo[19 + 1] = 2 * TwoTo[19] /\ TwoTo[19] \in Nat
  <2>1. 19 \in 0..126
    OBVIOUS
  <2> QED
    BY <2>1, NextTwo
<1> QED
  BY <1>1, <1>2, <1>3, <1>4, <1>5, <1>6, <1>7

(* What a carry moves and what it leaves. *)
Nearest(x)  == (x + 1048576) \div 2097152
Below(x)    == x \div 2097152
Left(x, a)  == x - a * 2097152
RadixIsReal == Radix = 2097152
IsRounded(x) == x \in Int /\ -1048576 <= x /\ x < 1048576
IsCut(x)     == x \in Int /\ 0 <= x /\ x < 2097152

(* What the bits say of sums, of products with a digit and of carries.     *)
LEMMA FitsMore ==
  ASSUME NEW m \in 0..127, NEW n \in m..127, NEW x, Fits(x, m)
  PROVE  Fits(x, n)
<1>1. TwoTo[m] \in Nat /\ TwoTo[n] \in Nat /\ TwoTo[m] <= TwoTo[n]
  BY TwosGrow
<1> QED
  BY <1>1 DEF Fits

LEMMA FitsNothing == \A x : Fits(x, 0) => x = 0
  BY SomeTwos DEF Fits

LEMMA FitsSum ==
  ASSUME NEW m \in 0..100, NEW n \in 0..100, NEW x, NEW y, Fits(x, m), Fits(y, n)
  PROVE  Fits(x + y, SumBits(m, n))
<1>1. CASE m = 0
  <2>1. x = 0 /\ y \in Int /\ SumBits(m, n) = n
    BY <1>1, FitsNothing DEF Fits, SumBits, Larger
  <2>2. x + y = y
    BY <2>1
  <2> QED
    BY <2>1, <2>2
<1>2. CASE n = 0
  <2>1. y = 0 /\ x \in Int /\ SumBits(m, n) = m
    BY <1>2, FitsNothing DEF Fits, SumBits, Larger
  <2>2. x + y = x
    BY <2>1
  <2> QED
    BY <2>1, <2>2
<1>3. CASE m # 0 /\ n # 0
  <2>1. PICK l \in 0..100 : l = Larger(m, n)
    BY DEF Larger
  <2>2. SumBits(m, n) = l + 1 /\ m \in 0..127 /\ n \in 0..127 /\ l \in m..127 /\ l \in n..127
    BY <1>3, <2>1 DEF SumBits, Larger
  <2>3. Fits(x, l) /\ Fits(y, l)
    BY <2>2, FitsMore
  <2>4. TwoTo[l + 1] = 2 * TwoTo[l] /\ TwoTo[l] \in Nat
    <3>1. l \in 0..126
      OBVIOUS
    <3> QED
      BY <3>1, NextTwo
  <2>5. Fits(x + y, l + 1)
    BY <2>3, <2>4 DEF Fits
  <2> QED
    BY <2>2, <2>5
<1> QED
  BY <1>1, <1>2, <1>3

LEMMA FitsProduct ==
  ASSUME RealScalars, NEW n \in 0..100, NEW x, Fits(x, n), NEW i \in 0..5
  PROVE  Fits(x * Multiplier[i], n + 20)
<1>1. TwoTo[n + 20] = 1048576 * TwoTo[n] /\ TwoTo[n] \in Nat
  <2>1. n \in 0..107
    OBVIOUS
  <2> QED
    BY <2>1, TwosApart20
<1>2. x \in Int /\ -TwoTo[n] < x /\ x < TwoTo[n]
  BY DEF Fits
<1>3. Multiplier[i] \in {666643, 470296, 654183, -997805, 136657, -683901}
  BY DEF RealScalars
<1> DEFINE y == Multiplier[i]
<1>4. ASSUME NEW d \in {666643, 470296, 654183, -997805, 136657, -683901}
      PROVE  Fits(x * d, n + 20)
  <2>1. CASE d = 666643
    BY <1>1, <1>2, <2>1 DEF Fits
  <2>2. CASE d = 470296
    BY <1>1, <1>2, <2>2 DEF Fits
  <2>3. CASE d = 654183
    BY <1>1, <1>2, <2>3 DEF Fits
  <2>4. CASE d = -997805
    BY <1>1, <1>2, <2>4 DEF Fits
  <2>5. CASE d = 136657
    BY <1>1, <1>2, <2>5 DEF Fits
  <2>6. CASE d = -683901
    BY <1>1, <1>2, <2>6 DEF Fits
  <2> QED
    BY <1>4, <2>1, <2>2, <2>3, <2>4, <2>5, <2>6
<1> QED
  BY <1>3, <1>4

LEMMA FitsCarry ==
  ASSUME NEW n \in 0..100, NEW x, Fits(x, n)
  PROVE  /\ Fits(Nearest(x), Larger(n - 20, 0))
         /\ IsRounded(Left(x, Nearest(x)))
         /\ Fits(Below(x), Larger(n - 21, 0) + 1)
         /\ IsCut(Left(x, Below(x)))
<1>1. x \in Int /\ -TwoTo[n] < x /\ x < TwoTo[n] /\ TwoTo[n] \in Nat
  <2>1. TwoTo[n] \in Nat
    <3>1. n \in 0..126
      OBVIOUS
    <3> QED
      BY <3>1, NextTwo
  <2> QED
    BY <2>1 DEF Fits
<1>2. PICK q \in Int : q = Nearest(x)
  BY <1>1 DEF Nearest
<1>3. 2097152 * q <= x + 1048576 /\ x + 1048576 < 2097152 * q + 2097152
  BY <1>1, <1>2 DEF Nearest
<1>4. PICK f \in Int : f = Below(x)
  BY <1>1 DEF Below
<1>5. 2097152 * f <= x /\ x < 2097152 * f + 2097152
  BY <1>1, <1>4 DEF Below
<1>6. Fits(q, Larger(n - 20, 0))
  <2>1. CASE n <= 20
    <3>1. TwoTo[n] <= 1048576
      <4>1. n \in 0..127 /\ 20 \in n..127
        BY <2>1
      <4>2. TwoTo[n] <= TwoTo[20]
        BY <4>1, TwosGrow
      <4> QED
        BY <4>2, SomeTwos
    <3>2. q = 0
      BY <1>1, <1>3, <3>1
    <3>3. Larger(n - 20, 0) = 0
      BY <2>1 DEF Larger
    <3> QED
      BY <3>2, <3>3, SomeTwos DEF Fits
  <2>2. CASE n > 20
    <3>1. PICK m \in 1..80 : n = m + 20 /\ Larger(n - 20, 0) = m
      <4>1. n - 20 \in 1..80 /\ n = (n - 20) + 20 /\ Larger(n - 20, 0) = n - 20
        BY <2>2 DEF Larger
      <4> QED
        BY <4>1
    <3>2. TwoTo[m + 20] = 1048576 * TwoTo[m] /\ TwoTo[m] \in Nat \ {0}
      <4>1. m \in 0..107
        OBVIOUS
      <4> QED
        BY <4>1, TwosApart20
    <3>3. -TwoTo[m] < q /\ q < TwoTo[m]
      BY <1>1, <1>3, <3>1, <3>2
    <3> QED
      BY <3>1, <3>3 DEF Fits
  <2> QED
    BY <2>1, <2>2
<1>7. Fits(f, Larger(n - 21, 0) + 1)
  <2>1. CASE n <= 21
    <3>1. TwoTo[n] <= 2097152
      <4>1. n \in 0..127 /\ 21 \in n..127
        BY <2>1
      <4>2. TwoTo[n] <= TwoTo[21]
        BY <4>1, TwosGrow
      <4> QED
        BY <4>2, SomeTwos
    <3>2. f \in -1..0
      BY <1>1, <1>5, <3>1
    <3>3. Larger(n - 21, 0) + 1 = 1
      BY <2>1 DEF Larger
    <3> QED
      BY <3>2, <3>3, SomeTwos DEF Fits
  <2>2. CASE n > 21
    <3>1. PICK m \in 1..79 : n = (m + 1) + 20 /\ Larger(n - 21, 0) + 1 = m + 1
      <4>1. n - 21 \in 1..79 /\ n = ((n - 21) + 1) + 20 /\ Larger(n - 21, 0) = n - 21
        BY <2>2 DEF Larger
      <4> QED
        BY <4>1
    <3>2. TwoTo[(m + 1) + 20] = 1048576 * TwoTo[m + 1]
      <4>1. m + 1 \in 0..107
        OBVIOUS
      <4> QED
        BY <4>1, TwosApart20
    <3>3. TwoTo[m + 1] = 2 * TwoTo[m] /\ TwoTo[m] \in Nat \ {0}
      <4>1. m \in 0..126
        OBVIOUS
      <4> QED
        BY <4>1, NextTwo
    <3>4. -TwoTo[m + 1] < f /\ f < TwoTo[m + 1]
      BY <1>1, <1>5, <3>1, <3>2, <3>3
    <3> QED
      BY <3>1, <3>4 DEF Fits
  <2> QED
    BY <2>1, <2>2
<1>8. IsRounded(Left(x, q)) /\ IsCut(Left(x, f))
  BY <1>1, <1>3, <1>5 DEF IsRounded, IsCut, Left
<1> QED
  BY <1>2, <1>4, <1>6, <1>7, <1>8, Zenon

(* The bits are what they stand for.                                       *)
LimbsInBits == \A k \in Places : Fits(limb[k], bits[k])

LEMMA BitsAreLow ==
  ASSUME ScalarTypeOK, BitsInv, NEW k \in Places
  PROVE  bits[k] \in 0..62
<1>1. Place(program, pc) \in -22..61
  <2>1. PICK n \in {60, 83} : Len(program) = n
    BY ProgramLengths DEF ScalarTypeOK
  <2>2. pc \in 1..n+1
    BY <2>1 DEF ScalarTypeOK
  <2> QED
    BY <2>1, <2>2 DEF Place
<1>2. Limit(Place(program, pc), k) \in 0..62
  BY <1>1, LimitsAreLow
<1>3. bits[k] \in 0..Limit(Place(program, pc), k)
  BY DEF BitsInv, Within
<1> QED
  BY <1>2, <1>3

LEMMA CarryFits ==
  ASSUME limb \in [Places -> Int], bits \in [Places -> 0..62], LimbsInBits,
         NEW k \in 0..22, NEW amount, NEW n \in 0..62,
         RadixIsReal, Fits(amount, n), Carry(k, amount, n),
         Fits(Left(limb[k], amount), 21)
  PROVE  LimbsInBits'
<1>1. k \in Places /\ k + 1 \in Places /\ k # k + 1
  BY DEF Places
<1>2. /\ limb'[k] = Left(limb[k], amount) /\ limb'[k + 1] = limb[k + 1] + amount
      /\ \A j \in Places \ {k, k + 1} : limb'[j] = limb[j]
  BY <1>1 DEF Carry, RadixIsReal, Left
<1>3. /\ bits'[k] = 21 /\ bits'[k + 1] = SumBits(bits[k + 1], n)
      /\ \A j \in Places \ {k, k + 1} : bits'[j] = bits[j]
  BY <1>1 DEF Carry
<1>4. Fits(limb[k + 1] + amount, SumBits(bits[k + 1], n))
  <2>1. bits[k + 1] \in 0..100 /\ n \in 0..100 /\ Fits(limb[k + 1], bits[k + 1])
    BY <1>1 DEF LimbsInBits
  <2> QED
    BY <2>1, FitsSum
<1> QED
  BY <1>2, <1>3, <1>4 DEF LimbsInBits

LEMMA RoundFits ==
  ASSUME RealScalars, limb \in [Places -> Int], bits \in [Places -> 0..62], LimbsInBits,
         NEW k \in 0..22, Round(k)
  PROVE  LimbsInBits' /\ IsRounded(limb'[k])
<1>1. RadixIsReal
  BY DEF RealScalars, RadixIsReal
<1>2. k \in Places /\ bits[k] \in 0..100 /\ bits[k] \in 0..62 /\ Fits(limb[k], bits[k])
  BY DEF Places, LimbsInBits
<1>3. PICK a : a = Nearest(limb[k])
  OBVIOUS
<1>4. /\ Fits(a, Larger(bits[k] - 20, 0))
      /\ IsRounded(Left(limb[k], a))
  BY <1>2, <1>3, FitsCarry
<1>5. Carry(k, a, Larger(bits[k] - 20, 0))
  BY <1>1, <1>3 DEF Round, RadixIsReal, Nearest
<1>6. Fits(Left(limb[k], a), 21)
  BY <1>4, SomeTwos DEF Fits, IsRounded, IsCut
<1>7. Larger(bits[k] - 20, 0) \in 0..62
  BY <1>2 DEF Larger
<1>8. limb'[k] = Left(limb[k], a)
  BY <1>1, <1>2, <1>5 DEF Carry, Places, RadixIsReal, Left
<1>9. LimbsInBits'
  BY <1>1, <1>4, <1>5, <1>6, <1>7, CarryFits
<1> QED
  BY <1>4, <1>8, <1>9

LEMMA FloorFits ==
  ASSUME RealScalars, limb \in [Places -> Int], bits \in [Places -> 0..62], LimbsInBits,
         NEW k \in 0..22, Floor(k)
  PROVE  LimbsInBits' /\ IsCut(limb'[k])
<1>1. RadixIsReal
  BY DEF RealScalars, RadixIsReal
<1>2. k \in Places /\ bits[k] \in 0..100 /\ bits[k] \in 0..62 /\ Fits(limb[k], bits[k])
  BY DEF Places, LimbsInBits
<1>3. PICK a : a = Below(limb[k])
  OBVIOUS
<1>4. /\ Fits(a, Larger(bits[k] - 21, 0) + 1)
      /\ IsCut(Left(limb[k], a))
  BY <1>2, <1>3, FitsCarry
<1>5. Carry(k, a, Larger(bits[k] - 21, 0) + 1)
  BY <1>1, <1>3 DEF Floor, RadixIsReal, Below
<1>6. Fits(Left(limb[k], a), 21)
  BY <1>4, SomeTwos DEF Fits, IsRounded, IsCut
<1>7. Larger(bits[k] - 21, 0) + 1 \in 0..62
  BY <1>2 DEF Larger
<1>8. limb'[k] = Left(limb[k], a)
  BY <1>1, <1>2, <1>5 DEF Carry, Places, RadixIsReal, Left
<1>9. LimbsInBits'
  BY <1>1, <1>4, <1>5, <1>6, <1>7, CarryFits
<1> QED
  BY <1>4, <1>8, <1>9

LEMMA FoldFits ==
  ASSUME RealScalars, limb \in [Places -> Int], bits \in [Places -> 0..62], LimbsInBits,
         NEW k \in 12..23, Fold(k)
  PROVE  LimbsInBits'
<1>1. FoldedIn(limb', limb, k)
  BY FoldFolds
<1>2. k \in Places /\ bits[k] \in 0..100 /\ Fits(limb[k], bits[k])
  BY DEF Places, LimbsInBits
<1>3. bits' = [j \in Places |->
                CASE j = k -> 0
                  [] j \in k-12..k-7 -> SumBits(bits[j], bits[k] + MultiplierBits)
                  [] OTHER -> bits[j]]
  BY DEF Fold
<1>4. ASSUME NEW j \in Places PROVE Fits(limb'[j], bits'[j])
  <2>1. CASE j = k
    BY <1>1, <1>2, <1>3, <2>1, SomeTwos DEF FoldedIn, Fits
  <2>2. CASE j \in k-12..k-7
    <3>1. j # k /\ j - (k - 12) \in 0..5 /\ bits[j] \in 0..62
      BY <2>2
    <3>2. /\ limb'[j] = limb[j] + limb[k] * Multiplier[j - (k - 12)]
          /\ bits'[j] = SumBits(bits[j], bits[k] + 20)
      BY <1>1, <1>3, <2>2, <3>1 DEF FoldedIn, MultiplierBits
    <3>3. Fits(limb[k] * Multiplier[j - (k - 12)], bits[k] + 20)
      BY <1>2, <3>1, FitsProduct
    <3>4. bits[j] \in 0..100 /\ bits[k] + 20 \in 0..100 /\ Fits(limb[j], bits[j])
      BY <1>2, <3>1 DEF LimbsInBits
    <3>5. Fits(limb[j] + limb[k] * Multiplier[j - (k - 12)], SumBits(bits[j], bits[k] + 20))
      BY <3>3, <3>4, FitsSum
    <3> QED
      BY <3>2, <3>5
  <2>3. CASE j # k /\ j \notin k-12..k-7
    BY <1>1, <1>3, <2>3 DEF FoldedIn, LimbsInBits
  <2> QED
    BY <2>1, <2>2, <2>3
<1> QED
  BY <1>4 DEF LimbsInBits

LEMMA StepFits ==
  ASSUME RealScalars, ScalarTypeOK, BitsInv, LimbsInBits, [ScalarNext]_scalarVars
  PROVE  LimbsInBits'
<1>1. /\ limb \in [Places -> Int] /\ bits \in [Places -> Nat]
      /\ program \in {ReduceProgram, MulAddProgram} /\ pc \in 1..Len(program)+1
  BY DEF ScalarTypeOK
<1>2. bits \in [Places -> 0..62]
  <2>1. \A k \in Places : bits[k] \in 0..62
    BY BitsAreLow
  <2> QED
    BY <1>1, <2>1
<1>3. CASE ScalarStep
  BY <1>1, <1>2, <1>3, StepChanges, RoundFits, FloorFits, FoldFits
<1>4. CASE Store \/ UNCHANGED scalarVars
  BY <1>4 DEF Store, scalarVars, LimbsInBits
<1> QED
  BY <1>3, <1>4 DEF ScalarNext

(* The products sc_muladd starts from.                                     *)
Summand(a, b, k, i) == IF k - i \in 0..11 THEN a[i] * b[k - i] ELSE 0

UpTo(x, n) == x \in Nat /\ x <= n

LimbRange == 2097152
TopRange  == 33554432

LEMMA Ranges == LimbRange \in Nat /\ TopRange \in Nat
  BY DEF LimbRange, TopRange

LEMMA SumsAreLow ==
  ASSUME NEW a, NEW b, NEW c, NEW k, NEW f, SumsUp(f, a, b, c, k),
         NEW C \in Nat, UpTo(f[-1], C),
         NEW B \in Nat, \A i \in 0..11 : UpTo(Summand(a, b, k, i), B)
  PROVE  UpTo(f[11], C + 12 * B)
<1>1. \A i \in 0..11 : f[i] = f[i - 1] + Summand(a, b, k, i)
  BY DEF SumsUp, Summand
<1>2. \A n \in Nat : \A i \in 0..11 : UpTo(f[i - 1], n) => UpTo(f[i], n + B)
  <2> SUFFICES ASSUME NEW n \in Nat, NEW i \in 0..11, UpTo(f[i - 1], n) PROVE UpTo(f[i], n + B)
    OBVIOUS
  <2>1. PICK t : UpTo(t, B) /\ f[i] = f[i - 1] + t
    BY <1>1
  <2> QED
    BY <2>1 DEF UpTo
<1>3. UpTo(f[0], C + B)
  <2>1. UpTo(f[0 - 1], C) /\ C \in Nat /\ 0 \in 0..11
    OBVIOUS
  <2>2. (C) + B = C + B
    OBVIOUS
  <2> QED
    BY <1>2, <2>1, <2>2
<1>4. UpTo(f[1], C + 2 * B)
  <2>1. UpTo(f[1 - 1], C + B) /\ C + B \in Nat /\ 1 \in 0..11
    BY <1>3
  <2>2. (C + B) + B = C + 2 * B
    OBVIOUS
  <2> QED
    BY <1>2, <2>1, <2>2
<1>5. UpTo(f[2], C + 3 * B)
  <2>1. UpTo(f[2 - 1], C + 2 * B) /\ C + 2 * B \in Nat /\ 2 \in 0..11
    BY <1>4
  <2>2. (C + 2 * B) + B = C + 3 * B
    OBVIOUS
  <2> QED
    BY <1>2, <2>1, <2>2
<1>6. UpTo(f[3], C + 4 * B)
  <2>1. UpTo(f[3 - 1], C + 3 * B) /\ C + 3 * B \in Nat /\ 3 \in 0..11
    BY <1>5
  <2>2. (C + 3 * B) + B = C + 4 * B
    OBVIOUS
  <2> QED
    BY <1>2, <2>1, <2>2
<1>7. UpTo(f[4], C + 5 * B)
  <2>1. UpTo(f[4 - 1], C + 4 * B) /\ C + 4 * B \in Nat /\ 4 \in 0..11
    BY <1>6
  <2>2. (C + 4 * B) + B = C + 5 * B
    OBVIOUS
  <2> QED
    BY <1>2, <2>1, <2>2
<1>8. UpTo(f[5], C + 6 * B)
  <2>1. UpTo(f[5 - 1], C + 5 * B) /\ C + 5 * B \in Nat /\ 5 \in 0..11
    BY <1>7
  <2>2. (C + 5 * B) + B = C + 6 * B
    OBVIOUS
  <2> QED
    BY <1>2, <2>1, <2>2
<1>9. UpTo(f[6], C + 7 * B)
  <2>1. UpTo(f[6 - 1], C + 6 * B) /\ C + 6 * B \in Nat /\ 6 \in 0..11
    BY <1>8
  <2>2. (C + 6 * B) + B = C + 7 * B
    OBVIOUS
  <2> QED
    BY <1>2, <2>1, <2>2
<1>10. UpTo(f[7], C + 8 * B)
  <2>1. UpTo(f[7 - 1], C + 7 * B) /\ C + 7 * B \in Nat /\ 7 \in 0..11
    BY <1>9
  <2>2. (C + 7 * B) + B = C + 8 * B
    OBVIOUS
  <2> QED
    BY <1>2, <2>1, <2>2
<1>11. UpTo(f[8], C + 9 * B)
  <2>1. UpTo(f[8 - 1], C + 8 * B) /\ C + 8 * B \in Nat /\ 8 \in 0..11
    BY <1>10
  <2>2. (C + 8 * B) + B = C + 9 * B
    OBVIOUS
  <2> QED
    BY <1>2, <2>1, <2>2
<1>12. UpTo(f[9], C + 10 * B)
  <2>1. UpTo(f[9 - 1], C + 9 * B) /\ C + 9 * B \in Nat /\ 9 \in 0..11
    BY <1>11
  <2>2. (C + 9 * B) + B = C + 10 * B
    OBVIOUS
  <2> QED
    BY <1>2, <2>1, <2>2
<1>13. UpTo(f[10], C + 11 * B)
  <2>1. UpTo(f[10 - 1], C + 10 * B) /\ C + 10 * B \in Nat /\ 10 \in 0..11
    BY <1>12
  <2>2. (C + 10 * B) + B = C + 11 * B
    OBVIOUS
  <2> QED
    BY <1>2, <2>1, <2>2
<1> QED
  <2>1. UpTo(f[11 - 1], C + 11 * B) /\ C + 11 * B \in Nat /\ 11 \in 0..11
    BY <1>13
  <2>2. (C + 11 * B) + B = C + 12 * B
    OBVIOUS
  <2> QED
    BY <1>2, <2>1, <2>2

LEMMA ProductIsLow ==
  ASSUME NEW m \in Nat, NEW n \in Nat, NEW x, NEW y, UpTo(x, m), UpTo(y, n)
  PROVE  UpTo(x * y, m * n) /\ m * n \in Nat
<1>1. x \in Nat /\ y \in Nat /\ x <= m /\ y <= n
  BY DEF UpTo
<1>2. x * y <= x * n /\ x * n <= m * n /\ x * y \in Nat /\ m * n \in Nat
  BY <1>1
<1> QED
  BY <1>1, <1>2 DEF UpTo

LEMMA LimbsOfFactor ==
  ASSUME RealScalars, NEW f \in Operands, NEW i \in 0..11
  PROVE  /\ UpTo(f[i], TopRange)
         /\ i # 11 => UpTo(f[i], LimbRange)
<1>1. f \in [0..11 -> 0..TopLimbs-1] /\ (\A k \in 0..10 : f[k] < Radix) /\ TopLimbs \in Nat
  BY ScalarAssumption
<1>2. Radix = 2097152 /\ TopLimbs = 33554432
  BY DEF RealScalars
<1>3. f[i] \in Nat /\ f[i] <= TopLimbs /\ (i # 11 => f[i] <= Radix)
  <2>1. f[i] \in 0..TopLimbs-1 /\ (i # 11 => i \in 0..10)
    BY <1>1
  <2>2. f[i] \in Int /\ f[i] >= 0 /\ f[i] <= TopLimbs - 1
    BY <1>1, <2>1
  <2>3. i # 11 => f[i] < Radix
    BY <1>1, <2>1
  <2> QED
    BY <1>1, <2>2, <2>3, Numbers
<1> QED
  BY <1>2, <1>3 DEF UpTo, LimbRange, TopRange

LEMMA ProductFits ==
  ASSUME RealScalars, NEW a \in Operands, NEW b \in Operands, NEW c \in Operands,
         NEW k \in Places
  PROVE  Fits(Products(a, b, c)[k], ProductBits[k])
<1>1. a \in Factors12 /\ b \in Factors12 /\ c \in Factors12
  BY OperandsAreLimbs
<1>2. PICK f : SumsUp(f, a, b, c, k) /\ Products(a, b, c)[k] = f[11]
  BY <1>1, ProductIsSum
<1>3. TwoTo[40 + 5] = 32 * TwoTo[40] /\ TwoTo[45 + 5] = 32 * TwoTo[45] /\ TwoTo[40] = 1099511627776
  <2>1. 40 \in 0..122 /\ 45 \in 0..122
    OBVIOUS
  <2> QED
    BY <2>1, TwosApart5, SomeTwos
<1>4. TwoTo[45 + 1] = 2 * TwoTo[45]
  <2>1. 45 \in 0..126
    OBVIOUS
  <2> QED
    BY <2>1, NextTwo
<1>5. TwoTo[46] = 70368744177664 /\ TwoTo[50] = 1125899906842624
  BY <1>3, <1>4
<1>6. CASE k < 11
  <2>1. UpTo(f[-1], LimbRange)
    <3>1. k \in 0..11 /\ k # 11
      BY <1>6 DEF Places
    <3>2. f[-1] = c[k]
      BY <1>2, <3>1, <1>6 DEF SumsUp
    <3> QED
      BY <3>1, <3>2, LimbsOfFactor
  <2>2. ASSUME NEW i \in 0..11 PROVE UpTo(Summand(a, b, k, i), LimbRange*LimbRange)
    <3>1. CASE k - i \in 0..11
      <4>1. i # 11 /\ k - i # 11
        BY <1>6, <3>1 DEF Places
      <4>2. UpTo(a[i], LimbRange) /\ UpTo(b[k - i], LimbRange)
        BY <3>1, <4>1, LimbsOfFactor
      <4>3. UpTo(a[i] * b[k - i], LimbRange*LimbRange)
        BY <4>2, ProductIsLow, Ranges
      <4> QED
        BY <3>1, <4>3 DEF Summand
    <3>2. CASE k - i \notin 0..11
      <4>1. LimbRange*LimbRange \in Nat
        BY Ranges
      <4> QED
        BY <3>2, <4>1 DEF Summand, UpTo
    <3> QED
      BY <3>1, <3>2
  <2>3. UpTo(f[11], LimbRange + 12 * (LimbRange*LimbRange))
    <3>1. LimbRange \in Nat /\ LimbRange*LimbRange \in Nat
      BY Ranges
    <3> QED
      BY <1>2, <2>1, <2>2, <3>1, SumsAreLow
  <2>4. ProductBits[k] = 46
    BY <1>6 DEF ProductBits
  <2> QED
    BY <1>2, <1>5, <2>3, <2>4 DEF Fits, UpTo, LimbRange, TopRange
<1>7. CASE k \in 11..21
  <2>1. UpTo(f[-1], TopRange)
    <3>1. CASE k = 11
      <4>1. f[-1] = c[11]
        BY <1>2, <3>1 DEF SumsUp
      <4> QED
        BY <4>1, LimbsOfFactor
    <3>2. CASE k # 11
      BY <1>2, <1>7, <3>2, Ranges DEF SumsUp, UpTo
    <3> QED
      BY <3>1, <3>2
  <2>2. ASSUME NEW i \in 0..11 PROVE UpTo(Summand(a, b, k, i), LimbRange*TopRange)
    <3>1. CASE k - i \in 0..11 /\ i # 11
      <4>1. UpTo(a[i], LimbRange) /\ UpTo(b[k - i], TopRange)
        BY <3>1, LimbsOfFactor
      <4>2. UpTo(a[i] * b[k - i], LimbRange*TopRange)
        BY <4>1, ProductIsLow, Ranges
      <4> QED
        BY <3>1, <4>2 DEF Summand
    <3>2. CASE k - i \in 0..11 /\ i = 11
      <4>1. k - i # 11
        BY <1>7, <3>2
      <4>2. UpTo(a[i], TopRange) /\ UpTo(b[k - i], LimbRange)
        BY <3>2, <4>1, LimbsOfFactor
      <4>3. UpTo(a[i] * b[k - i], TopRange*LimbRange)
        BY <4>2, ProductIsLow, Ranges
      <4>4. TopRange*LimbRange = LimbRange*TopRange
        BY Ranges
      <4> QED
        BY <3>2, <4>3, <4>4 DEF Summand
    <3>3. CASE k - i \notin 0..11
      <4>1. LimbRange*TopRange \in Nat
        BY Ranges
      <4> QED
        BY <3>3, <4>1 DEF Summand, UpTo
    <3> QED
      BY <3>1, <3>2, <3>3
  <2>3. UpTo(f[11], TopRange + 12 * (LimbRange*TopRange))
    <3>1. TopRange \in Nat /\ LimbRange*TopRange \in Nat
      BY Ranges
    <3> QED
      BY <1>2, <2>1, <2>2, <3>1, SumsAreLow
  <2>4. ProductBits[k] = 50
    BY <1>7 DEF ProductBits
  <2> QED
    BY <1>2, <1>5, <2>3, <2>4 DEF Fits, UpTo, LimbRange, TopRange
<1>8. CASE k = 22
  <2>1. UpTo(f[-1], 0)
    BY <1>2, <1>8 DEF SumsUp, UpTo
  <2>2. \A i \in 0..10 : f[i] = f[i - 1]
    <3>1. ASSUME NEW i \in 0..10 PROVE f[i] = f[i - 1]
      <4>1. i \in 0..11 /\ k - i \notin 0..11 /\ i - 1 \in -1..11
        BY <1>8
      <4>2. f[i] = f[i - 1] + 0 /\ f[i - 1] \in Int
        BY <1>2, <4>1 DEF SumsUp
      <4> QED
        BY <4>2
    <3> QED
      BY <3>1
  <2>3. f[10] = 0
    <3>1. f[-1] = 0
      BY <2>1 DEF UpTo
    <3> QED
      BY <2>2, <3>1
  <2>4. f[11] = a[11] * b[11]
    <3>1. 11 \in 0..11 /\ k - 11 = 11 /\ 11 - 1 = 10
      BY <1>8
    <3>2. f[11] = f[10] + a[11] * b[11]
      BY <1>2, <3>1 DEF SumsUp
    <3>3. a[11] * b[11] \in Int
      BY <1>1 DEF Factors12
    <3> QED
      BY <2>3, <3>2, <3>3
  <2>5. UpTo(a[11] * b[11], (TopRange - 1) * (TopRange - 1))
    <3>1. a \in [0..11 -> 0..TopLimbs-1] /\ b \in [0..11 -> 0..TopLimbs-1] /\ TopLimbs = TopRange
      <4>1. TopLimbs = TopRange
        BY DEF RealScalars, TopRange
      <4>2. a \in [0..11 -> 0..TopLimbs-1] /\ b \in [0..11 -> 0..TopLimbs-1]
        BY ScalarAssumption
      <4> QED
        BY <4>1, <4>2
    <3>2. TopRange - 1 \in Nat
      BY DEF TopRange
    <3>3. UpTo(a[11], TopRange - 1) /\ UpTo(b[11], TopRange - 1)
      BY <3>1, Ranges DEF UpTo
    <3> QED
      BY <3>2, <3>3, ProductIsLow
  <2>6. ProductBits[k] = 50
    BY <1>8 DEF ProductBits
  <2> QED
    BY <1>2, <1>5, <2>4, <2>5, <2>6 DEF Fits, UpTo, TopRange
<1>9. CASE k = 23
  <2>1. UpTo(f[-1], 0)
    BY <1>2, <1>9 DEF SumsUp, UpTo
  <2>2. \A i \in 0..11 : UpTo(Summand(a, b, k, i), 0)
    BY <1>9 DEF Summand, UpTo
  <2>3. UpTo(f[11], 0 + 12 * 0)
    BY <1>2, <2>1, <2>2, SumsAreLow
  <2>4. ProductBits[k] = 0
    BY <1>9 DEF ProductBits
  <2> QED
    BY <1>2, <2>3, <2>4, SomeTwos DEF Fits, UpTo
<1> QED
  BY <1>6, <1>7, <1>8, <1>9 DEF Places

LEMMA InitFits == ASSUME RealScalars, ScalarInit PROVE LimbsInBits
<1>1. ASSUME NEW s \in Reductions, StartReduce(s) PROVE LimbsInBits
  <2>1. s \in [Places -> 0..256*Radix-1] /\ \A k \in 0..22 : s[k] < Radix
    BY ScalarAssumption
  <2>2. Radix = 2097152 /\ limb = s /\ bits = ReduceBits
    BY <1>1 DEF RealScalars, StartReduce
  <2>3. TwoTo[25 + 5] = 32 * TwoTo[25] /\ TwoTo[29 + 1] = 2 * TwoTo[29] /\ TwoTo[29] \in Nat
    <3>1. 25 \in 0..122 /\ 29 \in 0..126
      OBVIOUS
    <3> QED
      BY <3>1, TwosApart5, NextTwo
  <2>4. TwoTo[29] = 536870912
    BY <2>3, SomeTwos
  <2>5. ASSUME NEW k \in Places PROVE Fits(limb[k], bits[k])
    <3>1. CASE k = 23
      <4>1. s[k] \in 0..256*Radix-1
        BY <2>1
      <4>2. s[k] \in Nat /\ s[k] < 256*Radix
        BY <4>1, Numbers
      <4> QED
        BY <2>2, <2>4, <3>1, <4>2 DEF ReduceBits, Fits
    <3>2. CASE k # 23
      <4>1. k \in 0..22
        BY <3>2 DEF Places
      <4>2. s[k] \in 0..256*Radix-1 /\ s[k] < Radix
        BY <2>1, <4>1
      <4>3. s[k] \in Nat /\ s[k] < Radix
        BY <4>2, Numbers
      <4> QED
        BY <2>2, <3>2, <4>3, SomeTwos DEF ReduceBits, Fits
    <3> QED
      BY <3>1, <3>2
  <2> QED
    BY <2>5 DEF LimbsInBits
<1>2. ASSUME NEW a \in Operands, NEW b \in Operands, NEW c \in Operands, StartMulAdd(a, b, c)
      PROVE  LimbsInBits
  BY <1>2, ProductFits DEF StartMulAdd, LimbsInBits
<1> QED
  BY <1>1, <1>2 DEF ScalarInit

(* At the numbers of the code every limb, of every operands and at every   *)
(* step, is within the 62 bits that `bits' allows it, so no sum or product *)
(* in sc.c leaves its int64_t.                                             *)
THEOREM LimbsFitInt64 ==
  ASSUME RealScalars
  PROVE  ScalarSpec => [](\A k \in Places : /\ -4611686018427387904 < limb[k]
                                            /\ limb[k] < 4611686018427387904)
<1>1. ScalarInit => LimbsInBits
  BY InitFits
<1>2. ScalarTypeOK /\ BitsInv /\ LimbsInBits /\ [ScalarNext]_scalarVars => LimbsInBits'
  BY StepFits
<1>3. ScalarTypeOK /\ BitsInv /\ [ScalarNext]_scalarVars => BitsInv'
  BY StepWithin
<1>4. ScalarTypeOK /\ BitsInv /\ LimbsInBits
        => \A k \in Places : /\ -4611686018427387904 < limb[k]
                             /\ limb[k] < 4611686018427387904
  <2> SUFFICES ASSUME ScalarTypeOK, BitsInv, LimbsInBits, NEW k \in Places
               PROVE  /\ -4611686018427387904 < limb[k] /\ limb[k] < 4611686018427387904
    OBVIOUS
  <2>1. bits[k] \in 0..62 /\ Fits(limb[k], bits[k])
    BY BitsAreLow DEF LimbsInBits
  <2>2. Fits(limb[k], 62)
    <3>1. bits[k] \in 0..127 /\ 62 \in bits[k]..127
      BY <2>1
    <3> QED
      BY <2>1, <3>1, FitsMore
  <2>3. TwoTo[40 + 20] = 1048576 * TwoTo[40] /\ TwoTo[60 + 1] = 2 * TwoTo[60]
        /\ TwoTo[61 + 1] = 2 * TwoTo[61]
    <3>1. 40 \in 0..107 /\ 60 \in 0..126 /\ 61 \in 0..126
      OBVIOUS
    <3> QED
      BY <3>1, TwosApart20, NextTwo
  <2> QED
    BY <2>2, <2>3, SomeTwos DEF Fits
<1> QED
  BY InitWithin, ScalarTypeCorrect, <1>1, <1>2, <1>3, <1>4, PTL DEF ScalarSpec

-----------------------------------------------------------------------------
(* What is stored is less than the group order.  The value of the limbs at *)
(* the numbers of the code, as a linear term of them.                      *)

Order252 == 7237005577332262213973186563042994240829374041602535252466099000494570602496 \* 2^252
OrderRest == 27742317777372353535851937790883648493                 \* L less that

Limbs6(x0, x1, x2, x3, x4, x5) ==
  x0 + LimbRange * (x1 + LimbRange * (x2 + LimbRange * (x3 + LimbRange
     * (x4 + LimbRange * x5))))

Limbs13(x) ==
  Limbs6(x[0], x[1], x[2], x[3], x[4],
         Limbs6(x[5], x[6], x[7], x[8], x[9],
                x[10] + LimbRange * (x[11] + LimbRange * x[12])))

LEMMA LimbsOfTail ==
  ASSUME RealScalars, NEW n \in {6, 13, 24}, NEW s, AreInt(s, n),
         NEW t, IsTail(t, s, n), NEW j \in 0..n-1
  PROVE  t[j] = s[j] + LimbRange * t[j + 1] /\ s[j] \in Int /\ t[j + 1] \in Int
<1>1. Radix = LimbRange
  BY DEF RealScalars, LimbRange
<1>2. t[j] = s[j] + Radix * t[j + 1] /\ j + 1 \in 0..n
  BY DEF IsTail
<1>3. t[j + 1] \in Int /\ s[j] \in Int
  BY <1>2 DEF IsTail, AreInt
<1> QED
  BY <1>1, <1>2, <1>3

LEMMA ValueOf13 ==
  ASSUME RealScalars, NEW s \in [Places -> Int], \A k \in 13..23 : s[k] = 0
  PROVE  Value(s, 24) = Limbs13(s)
<1>1. AreInt(s, 24) /\ 24 \in Nat
  BY DEF AreInt, Places
<1>2. PICK t : IsTail(t, s, 24) /\ t[0] = Value(s, 24)
  BY <1>1, ValueTail
<1>3. \A j \in 0..23 : t[j] = s[j] + LimbRange * t[j + 1] /\ s[j] \in Int /\ t[j + 1] \in Int
  BY <1>1, <1>2, LimbsOfTail
<1> DEFINE T == {k \in 0..11 : t[24 - k] = 0}
<1>4. 0 \in T
  BY <1>2 DEF IsTail
<1>5. ASSUME NEW k \in 0..11-1, k \in T PROVE k + 1 \in T
  <2>1. 24 - (k + 1) \in 0..23 /\ 24 - (k + 1) \in 13..23 /\ (24 - (k + 1)) + 1 = 24 - k
    OBVIOUS
  <2>2. t[24 - (k + 1)] = s[24 - (k + 1)] + LimbRange * t[24 - k]
    BY <1>3, <2>1
  <2>3. s[24 - (k + 1)] = 0 /\ t[24 - k] = 0 /\ k + 1 \in 0..11
    BY <1>5, <2>1
  <2>4. LimbRange * 0 = 0
    BY Ranges
  <2> QED
    BY <2>2, <2>3, <2>4
<1>6. t[13] = 0
  <2>1. 11 \in Nat /\ 11 \in 0..11 /\ 24 - 11 = 13
    OBVIOUS
  <2> HIDE DEF T
  <2>2. 0..11 \subseteq T
    BY <1>4, <1>5, <2>1, InductionUpTo
  <2>3. 11 \in T
    BY <2>1, <2>2
  <2> QED
    BY <2>1, <2>3 DEF T
<1>7. t[12] = s[12]
  <2>1. t[12] = s[12] + LimbRange * t[12 + 1] /\ s[12] \in Int
    BY <1>3
  <2>2. LimbRange * 0 = 0
    BY Ranges
  <2> QED
    BY <1>6, <2>1, <2>2
<1>8. t[10] = s[10] + LimbRange * (s[11] + LimbRange * s[12])
  <2>1. t[10] = s[10] + LimbRange * t[10 + 1] /\ t[11] = s[11] + LimbRange * t[11 + 1]
    BY <1>3
  <2> QED
    BY <1>7, <2>1
<1>9. t[5] = Limbs6(s[5], s[6], s[7], s[8], s[9], t[10])
  <2>1. /\ t[5] = s[5] + LimbRange * t[5 + 1] /\ t[6] = s[6] + LimbRange * t[6 + 1]
        /\ t[7] = s[7] + LimbRange * t[7 + 1] /\ t[8] = s[8] + LimbRange * t[8 + 1]
        /\ t[9] = s[9] + LimbRange * t[9 + 1]
    BY <1>3
  <2> QED
    BY <2>1 DEF Limbs6
<1>10. t[0] = Limbs6(s[0], s[1], s[2], s[3], s[4], t[5])
  <2>1. /\ t[0] = s[0] + LimbRange * t[0 + 1] /\ t[1] = s[1] + LimbRange * t[1 + 1]
        /\ t[2] = s[2] + LimbRange * t[2 + 1] /\ t[3] = s[3] + LimbRange * t[3 + 1]
        /\ t[4] = s[4] + LimbRange * t[4 + 1]
    BY <1>3
  <2> QED
    BY <2>1 DEF Limbs6
<1> QED
  BY <1>2, <1>8, <1>9, <1>10 DEF Limbs13

(* The gap is the group order.                                             *)
LEMMA GapIsOrder == ASSUME RealScalars PROVE Gap = -L
<1>1. AreInt(Multiplier, 6) /\ AreInt(OneAbove, 13) /\ 6 \in Nat /\ 13 \in Nat
  BY ScalarAssumption DEF AreInt, OneAbove
<1>2. PICK t : IsTail(t, Multiplier, 6) /\ t[0] = Value(Multiplier, 6)
  BY <1>1, ValueTail
<1>3. PICK u : IsTail(u, OneAbove, 13) /\ u[0] = Value(OneAbove, 13)
  BY <1>1, ValueTail
<1>4. Value(Multiplier, 6) = -OrderRest
  <2>1. \A j \in 0..5 : t[j] = Multiplier[j] + LimbRange * t[j + 1]
    BY <1>1, <1>2, LimbsOfTail
  <2>2. t[6] = 0
    BY <1>2 DEF IsTail
  <2>3. /\ Multiplier[0] = 666643 /\ Multiplier[1] = 470296 /\ Multiplier[2] = 654183
        /\ Multiplier[3] = -997805 /\ Multiplier[4] = 136657 /\ Multiplier[5] = -683901
    BY DEF RealScalars
  <2>4. /\ t[0] = Multiplier[0] + LimbRange * t[0 + 1] /\ t[1] = Multiplier[1] + LimbRange * t[1 + 1]
        /\ t[2] = Multiplier[2] + LimbRange * t[2 + 1] /\ t[3] = Multiplier[3] + LimbRange * t[3 + 1]
        /\ t[4] = Multiplier[4] + LimbRange * t[4 + 1] /\ t[5] = Multiplier[5] + LimbRange * t[5 + 1]
    BY <2>1
  <2>5. t[5] = -683901
    BY <2>2, <2>3, <2>4 DEF LimbRange
  <2>6. t[4] = -1434244213295
    BY <2>3, <2>4, <2>5 DEF LimbRange
  <2>7. t[3] = -3007828120401033645
    BY <2>3, <2>4, <2>6 DEF LimbRange
  <2>8. t[2] = -6307872758355268510024857
    BY <2>3, <2>4, <2>7 DEF LimbRange
  <2>9. t[1] = -13228567970930268066335648436968
    BY <2>3, <2>4, <2>8 DEF LimbRange
  <2>10. t[0] = -OrderRest
    BY <2>3, <2>4, <2>9 DEF LimbRange, OrderRest
  <2> QED
    BY <1>2, <2>10
<1>5. Value(OneAbove, 13) = Order252
  <2>1. \A j \in 0..12 : u[j] = OneAbove[j] + LimbRange * u[j + 1]
    BY <1>1, <1>3, LimbsOfTail
  <2>2. u[13] = 0 /\ OneAbove[12] = 1 /\ \A j \in 0..11 : OneAbove[j] = 0
    BY <1>3 DEF IsTail, OneAbove
  <2>3. /\ u[0] = 0 + LimbRange * u[0 + 1] /\ u[1] = 0 + LimbRange * u[1 + 1]
        /\ u[2] = 0 + LimbRange * u[2 + 1] /\ u[3] = 0 + LimbRange * u[3 + 1]
        /\ u[4] = 0 + LimbRange * u[4 + 1] /\ u[5] = 0 + LimbRange * u[5 + 1]
        /\ u[6] = 0 + LimbRange * u[6 + 1] /\ u[7] = 0 + LimbRange * u[7 + 1]
        /\ u[8] = 0 + LimbRange * u[8 + 1] /\ u[9] = 0 + LimbRange * u[9 + 1]
        /\ u[10] = 0 + LimbRange * u[10 + 1] /\ u[11] = 0 + LimbRange * u[11 + 1]
        /\ u[12] = 1 + LimbRange * u[12 + 1]
    BY <2>1, <2>2
  <2>4. u[12] = 1
    BY <2>2, <2>3 DEF LimbRange
  <2>5. u[6] = 85070591730234615865843651857942052864
    BY <2>3, <2>4 DEF LimbRange
  <2>6. u[0] = Order252
    BY <2>3, <2>5 DEF LimbRange, Order252
  <2> QED
    BY <1>3, <2>6
<1>6. L = Order252 + OrderRest
  BY DEF RealScalars, Order252, OrderRest
<1>7. Order252 \in Int /\ OrderRest \in Int
  BY DEF Order252, OrderRest
<1> QED
  BY <1>4, <1>5, <1>6, <1>7 DEF Gap

(* How large the value is, by the limbs.                                   *)
Between(x, m) == x \in Int /\ -m <= x /\ x <= m

Two17  == 131072
Two21  == 2097152
Two38  == 274877906944
Two40  == 1099511627776
Two42  == 4398046511104
Two127 == 170141183460469231731687303715884105728

Shift5  == 40564819207303340847894502572032          \* 2^105
Shift11 == 3450873173395281893717377931138512726225554486085193277581262111899648 \* 2^231

Low5(x0, x1, x2, x3, x4) ==
  x0 + LimbRange * (x1 + LimbRange * (x2 + LimbRange * (x3 + LimbRange * x4)))

IsBelow(x, m) == x \in Int /\ 0 <= x /\ x < m

Splits(x0, x1, x2, x3, x4, x5) ==
  Limbs6(x0, x1, x2, x3, x4, x5) = Low5(x0, x1, x2, x3, x4) + Shift5 * x5

LEMMA Limbs6Split ==
  ASSUME NEW x0 \in Int, NEW x1 \in Int, NEW x2 \in Int, NEW x3 \in Int, NEW x4 \in Int,
         NEW x5 \in Int
  PROVE  Splits(x0, x1, x2, x3, x4, x5)
  BY DEF Splits, Limbs6, Low5, LimbRange, Shift5

LEMMA Low5IsInt ==
  ASSUME NEW x0 \in Int, NEW x1 \in Int, NEW x2 \in Int, NEW x3 \in Int, NEW x4 \in Int
  PROVE  Low5(x0, x1, x2, x3, x4) \in Int
  BY DEF Low5, LimbRange

LEMMA Low5Cut ==
  ASSUME NEW x0, NEW x1, NEW x2, NEW x3, NEW x4,
         IsCut(x0), IsCut(x1), IsCut(x2), IsCut(x3), IsCut(x4)
  PROVE  IsBelow(Low5(x0, x1, x2, x3, x4), Shift5)
  BY DEF Low5, IsCut, LimbRange, Shift5, IsBelow

(* The limbs between the folds: the odd ones in 21 bits, the even ones     *)
(* larger.                                                                 *)
LEMMA LowestFive ==
  ASSUME NEW x0, NEW x1, NEW x2, NEW x3, NEW x4,
         Between(x0, Two42), Between(x1, Two21), Between(x2, Two42),
         Between(x3, Two21), Between(x4, Two42)
  PROVE  Between(Low5(x0, x1, x2, x3, x4), Two127)
  BY DEF Low5, Between, LimbRange, Two21, Two40, Two42, Two127

LEMMA NextFive ==
  ASSUME NEW x0, NEW x1, NEW x2, NEW x3, NEW x4,
         Between(x0, Two21), Between(x1, Two42), Between(x2, Two21),
         Between(x3, Two40), Between(x4, Two21)
  PROVE  Between(Low5(x0, x1, x2, x3, x4), Two127)
  BY DEF Low5, Between, LimbRange, Two21, Two40, Two42, Two127

LowFive(s)  == Low5(s[0], s[1], s[2], s[3], s[4])
HighFive(s) == Low5(s[5], s[6], s[7], s[8], s[9])

Together(u, v, x, y, z) == u + Shift5 * (v + Shift5 * x) + Shift11 * y + Order252 * z

Nested(u, v, x, y, z) ==
  u + Shift5 * (v + Shift5 * (x + LimbRange * (y + LimbRange * z)))

LEMMA TogetherIs ==
  ASSUME NEW u \in Int, NEW v \in Int, NEW x \in Int, NEW y \in Int, NEW z \in Int
  PROVE  Nested(u, v, x, y, z) = Together(u, v, x, y, z)
  BY DEF Nested, Together, LimbRange, Shift5, Shift11, Order252

LEMMA Limbs13Split ==
  ASSUME NEW s \in [Places -> Int]
  PROVE  /\ Limbs13(s) = Together(LowFive(s), HighFive(s), s[10], s[11], s[12])
         /\ LowFive(s) \in Int /\ HighFive(s) \in Int
         /\ s[10] \in Int /\ s[11] \in Int /\ s[12] \in Int
<1>1. /\ s[0] \in Int /\ s[1] \in Int /\ s[2] \in Int /\ s[3] \in Int /\ s[4] \in Int
      /\ s[5] \in Int /\ s[6] \in Int /\ s[7] \in Int /\ s[8] \in Int /\ s[9] \in Int
      /\ s[10] \in Int /\ s[11] \in Int /\ s[12] \in Int
  BY DEF Places
<1>2. LowFive(s) \in Int /\ HighFive(s) \in Int
  BY <1>1, Low5IsInt, Zenon DEF LowFive, HighFive
<1>3. PICK h \in Int : h = s[10] + LimbRange * (s[11] + LimbRange * s[12])
  BY <1>1, Ranges
<1>4. Splits(s[5], s[6], s[7], s[8], s[9], h)
  BY <1>1, Limbs6Split, Zenon
<1>5. PICK w \in Int : w = HighFive(s) + Shift5 * h
  BY <1>2 DEF Shift5
<1>6. Splits(s[0], s[1], s[2], s[3], s[4], w)
  BY <1>1, Limbs6Split, Zenon
<1>7. Limbs13(s) = LowFive(s) + Shift5 * w
  <2>1. Limbs6(s[5], s[6], s[7], s[8], s[9], h) = w
    BY <1>4, <1>5, Zenon DEF Splits, HighFive
  <2>2. Limbs6(s[0], s[1], s[2], s[3], s[4], w) = LowFive(s) + Shift5 * w
    BY <1>6, Zenon DEF Splits, LowFive
  <2> QED
    BY <1>3, <2>1, <2>2, Zenon DEF Limbs13
<1>8. Limbs13(s) = Nested(LowFive(s), HighFive(s), s[10], s[11], s[12])
  BY <1>3, <1>5, <1>7, Zenon DEF Nested
<1>9. Nested(LowFive(s), HighFive(s), s[10], s[11], s[12])
        = Together(LowFive(s), HighFive(s), s[10], s[11], s[12])
  <2>1. s[10] \in Int /\ s[11] \in Int /\ s[12] \in Int
    BY <1>1
  <2> QED
    BY <1>2, <2>1, TogetherIs
<1> QED
  BY <1>1, <1>2, <1>8, <1>9, Zenon

RealOrder == Order252 + OrderRest

IsNear(x) == x \in Int /\ -Order252 < x /\ x < Order252

LEMMA TogetherIsNear ==
  ASSUME NEW u, NEW v, NEW x, NEW y, NEW z,
         Between(u, Two127),
         Between(v, Two127),
         Between(x, Two38), IsRounded(y), Between(z, Two17)
  PROVE  IsNear(Together(u, v, x, y, z) - RealOrder * z)
  BY DEF Between, IsRounded, IsNear, RealOrder, Order252, OrderRest, Shift5, Shift11, Together,
         Two17, Two38, Two127

(* The values that can be left before limb 12 is folded in. *)
Settled(s) ==
  /\ \A k \in {0, 2, 4, 6} : Between(s[k], Two42)
  /\ \A k \in {1, 3, 5, 7, 9} : Between(s[k], Two21)
  /\ Between(s[8], Two40) /\ Between(s[10], Two38)
  /\ IsRounded(s[11]) /\ Between(s[12], Two17)

LEMMA FoldedIsNear ==
  ASSUME NEW s \in [Places -> Int], Settled(s)
  PROVE  IsNear(Limbs13(s) - RealOrder * s[12])
<1>1. Limbs13(s) = Together(LowFive(s), HighFive(s), s[10], s[11], s[12])
  BY Limbs13Split
<1>2. Between(LowFive(s), Two127)
  BY LowestFive DEF LowFive, Settled
<1>3. Between(HighFive(s), Two127)
  BY NextFive DEF HighFive, Settled
<1>4. Between(s[10], Two38) /\ IsRounded(s[11]) /\ Between(s[12], Two17)
  BY DEF Settled
<1>5. IsNear(Together(LowFive(s), HighFive(s), s[10], s[11], s[12]) - RealOrder * s[12])
  BY <1>2, <1>3, <1>4, TogetherIsNear
<1> QED
  BY <1>1, <1>5

(* With the lower limbs in their 21 bits the limb above is the quotient.   *)
LEMMA CutTogether ==
  ASSUME NEW u, NEW v, NEW x, IsBelow(u, Shift5), IsBelow(v, Shift5), IsCut(x)
  PROVE  IsBelow(u + Shift5 * (v + Shift5 * x), Shift11)
  BY DEF IsBelow, IsCut, Shift5, Shift11

LEMMA LimbsWhenCut ==
  ASSUME NEW s \in [Places -> Int], \A k \in 0..10 : IsCut(s[k])
  PROVE  \E r : IsBelow(r, Shift11) /\ Limbs13(s) = r + Shift11 * s[11] + Order252 * s[12]
<1>1. Limbs13(s) = Together(LowFive(s), HighFive(s), s[10], s[11], s[12])
  BY Limbs13Split
<1>2. IsBelow(LowFive(s), Shift5) /\ IsBelow(HighFive(s), Shift5) /\ IsCut(s[10])
  BY Low5Cut DEF LowFive, HighFive
<1>3. IsBelow(LowFive(s) + Shift5 * (HighFive(s) + Shift5 * s[10]), Shift11)
  BY <1>2, CutTogether, Zenon
<1> QED
  BY <1>1, <1>3, Zenon DEF Together

-----------------------------------------------------------------------------
(* The end of both programs, step by step.                                 *)

RunsAtEnd(p, op, k) ==
  /\ p = 35 => op = "round" /\ k = 11
  /\ p = 36 \/ p = 49 => op = "fold" /\ k = 12
  /\ p \in 37..48 => op = "floor" /\ k = p - 37
  /\ p \in 50..60 => op = "floor" /\ k = p - 50

LEMMA EndRuns ==
  ASSUME NEW p \in -22..60, NEW op, NEW k, StepAt(p) = Run(op, k)
  PROVE  RunsAtEnd(p, op, k)
<1>1. CASE p \in -22..34
  BY <1>1 DEF RunsAtEnd
<1>2. CASE p \in 35..35
  <2>1. op = "round" /\ k = 11
    BY <1>2 DEF StepAt, FirstStep, CommonStep, Run
  <2> QED
    BY <1>2, <2>1 DEF RunsAtEnd
<1>3. CASE p \in 36..36
  <2>1. op = "fold" /\ k = 12
    BY <1>3 DEF StepAt, FirstStep, CommonStep, Run
  <2> QED
    BY <1>3, <2>1 DEF RunsAtEnd
<1>4. CASE p \in 37..48
  <2>1. op = "floor" /\ k = p - 37
    BY <1>4 DEF StepAt, FirstStep, CommonStep, Run
  <2> QED
    BY <1>4, <2>1 DEF RunsAtEnd
<1>5. CASE p \in 49..49
  <2>1. op = "fold" /\ k = 12
    BY <1>5 DEF StepAt, FirstStep, CommonStep, Run
  <2> QED
    BY <1>5, <2>1 DEF RunsAtEnd
<1>6. CASE p \in 50..60
  <2>1. op = "floor" /\ k = p - 50
    BY <1>6 DEF StepAt, FirstStep, CommonStep, Run
  <2> QED
    BY <1>6, <2>1 DEF RunsAtEnd
<1> QED
  BY <1>1, <1>2, <1>3, <1>4, <1>5, <1>6

LEMMA StepIs ==
  ASSUME program \in {ReduceProgram, MulAddProgram}, pc \in 1..Len(program)+1, ScalarStep,
         NEW p, p = Place(program, pc)
  PROVE  /\ pc \in 1..Len(program) /\ p \in -22..60 /\ Place(program', pc') = p + 1
         /\ p = 35 => Round(11)
         /\ p = 36 \/ p = 49 => Fold(12)
         /\ p \in 37..48 => Floor(p - 37)
         /\ p \in 50..60 => Floor(p - 50)
<1>1. PICK k \in Places : Fold(k) \/ Round(k) \/ Floor(k)
  BY DEF ScalarStep
<1>2. PICK op \in Kinds : /\ At(op, k)
                          /\ op = "fold" => Fold(k)
                          /\ op = "round" => Round(k)
                          /\ op = "floor" => Floor(k)
  <2>1. CASE Fold(k)
    BY <2>1 DEF Fold, Kinds
  <2>2. CASE Round(k)
    BY <2>2 DEF Round, Kinds
  <2>3. CASE Floor(k)
    BY <2>3 DEF Floor, Kinds
  <2> QED
    BY <1>1, <2>1, <2>2, <2>3
<1>3. pc \in 1..Len(program) /\ p \in -22..60 /\ StepAt(p) = Run(op, k)
  BY <1>2, StepsAtPlaces
<1>4. Place(program', pc') = p + 1
  <2>1. pc' = pc + 1 /\ program' = program /\ Len(program) \in Int /\ pc \in Int
    BY ProgramLengths DEF ScalarStep
  <2> QED
    BY <2>1 DEF Place
<1>5. RunsAtEnd(p, op, k)
  BY <1>3, EndRuns
<1> QED
  BY <1>2, <1>3, <1>4, <1>5 DEF RunsAtEnd

LEMMA FitsBetween ==
  ASSUME NEW n \in 0..127, NEW b \in 0..n, NEW x, Fits(x, b)
  PROVE  Between(x, TwoTo[n])
<1>1. b \in 0..127 /\ n \in b..127
  OBVIOUS
<1>2. Fits(x, n)
  BY <1>1, FitsMore
<1>3. TwoTo[n] \in Nat
  BY <1>1, TwosGrow
<1> QED
  BY <1>2, <1>3 DEF Fits, Between

LEMMA NamedTwos ==
  TwoTo[17] = Two17 /\ TwoTo[21] = Two21 /\ TwoTo[38] = Two38 /\ TwoTo[40] = Two40 /\ TwoTo[42] = Two42
<1>1. TwoTo[40 + 1] = 2 * TwoTo[40] /\ TwoTo[41 + 1] = 2 * TwoTo[41]
  <2>1. 40 \in 0..126 /\ 41 \in 0..126
    OBVIOUS
  <2> QED
    BY <2>1, NextTwo
<1>2. TwoTo[38 + 1] = 2 * TwoTo[38] /\ TwoTo[39 + 1] = 2 * TwoTo[39] /\ TwoTo[38] \in Nat
      /\ TwoTo[39] \in Nat
  <2>1. 38 \in 0..126 /\ 39 \in 0..126
    OBVIOUS
  <2> QED
    BY <2>1, NextTwo
<1> QED
  BY <1>1, <1>2, SomeTwos DEF Two17, Two21, Two38, Two40, Two42

LEMMA SettledAt ==
  ASSUME BitsInv, LimbsInBits, Place(program, pc) = 36, IsRounded(limb[11])
  PROVE  Settled(limb)
<1>1. \A k \in Places : bits[k] \in 0..LastFold(k) /\ Fits(limb[k], bits[k])
  BY DEF BitsInv, Within, Limit, LimbsInBits
<1>2. ASSUME NEW k \in {0, 2, 4, 6} PROVE Between(limb[k], Two42)
  <2>1. bits[k] \in 0..42 /\ Fits(limb[k], bits[k])
    BY <1>1 DEF LastFold, Least, Places
  <2>2. 42 \in 0..127
    OBVIOUS
  <2> QED
    BY <2>1, <2>2, FitsBetween, NamedTwos
<1>3. ASSUME NEW k \in {1, 3, 5, 7, 9} PROVE Between(limb[k], Two21)
  <2>1. bits[k] \in 0..21 /\ Fits(limb[k], bits[k])
    BY <1>1 DEF LastFold, Least, Places
  <2>2. 21 \in 0..127
    OBVIOUS
  <2> QED
    BY <2>1, <2>2, FitsBetween, NamedTwos
<1>4. Between(limb[8], Two40)
  <2>1. bits[8] \in 0..40 /\ Fits(limb[8], bits[8])
    BY <1>1 DEF LastFold, Least, Places
  <2>2. 40 \in 0..127
    OBVIOUS
  <2> QED
    BY <2>1, <2>2, FitsBetween, NamedTwos
<1>5. Between(limb[10], Two38)
  <2>1. bits[10] \in 0..38 /\ Fits(limb[10], bits[10])
    BY <1>1 DEF LastFold, Least, Places
  <2>2. 38 \in 0..127
    OBVIOUS
  <2> QED
    BY <2>1, <2>2, FitsBetween, NamedTwos
<1>6. Between(limb[12], Two17)
  <2>1. bits[12] \in 0..17 /\ Fits(limb[12], bits[12])
    BY <1>1 DEF LastFold, Least, Places
  <2>2. 17 \in 0..127
    OBVIOUS
  <2> QED
    BY <2>1, <2>2, FitsBetween, NamedTwos
<1> QED
  BY <1>2, <1>3, <1>4, <1>5, <1>6 DEF Settled

LEMMA ZerosAbove ==
  ASSUME BitsInv, LimbsInBits, NEW p \in 36..61, p = Place(program, pc), NEW k \in 12..23,
         k = 12 => p \notin {36, 49}
  PROVE  limb[k] = 0
<1>1. k \in Places
  BY DEF Places
<1>2. bits[k] \in 0..Limit(p, k) /\ Fits(limb[k], bits[k])
  BY <1>1 DEF BitsInv, Within, LimbsInBits
<1>3. Limit(p, k) = 0
  BY DEF Limit, LastFold, FirstFloors, OneMoreFold, LastFloors
<1>4. bits[k] = 0
  BY <1>2, <1>3
<1> QED
  BY <1>2, <1>4, FitsNothing

LEMMA FoldTwelve ==
  ASSUME RealScalars, limb \in [Places -> Int], Fold(12)
  PROVE  Value(limb', 24) = Value(limb, 24) - RealOrder * limb[12] /\ Value(limb, 24) \in Int
<1>1. 12 \in 12..23 /\ limb[12] \in Int
  BY DEF Places
<1>2. FoldedIn(limb', limb, 12) /\ limb' \in [Places -> Int]
  BY <1>1, FoldFolds
<1>3. PICK q \in Int : Value(limb', 24) = Value(limb, 24) + limb[12] * Gap * q /\ q = 1
  BY <1>1, <1>2, ValueFolded
<1>4. Value(limb, 24) \in Int
  <2>1. AreInt(limb, 24) /\ 24 \in Nat
    BY DEF AreInt, Places
  <2> QED
    BY <2>1, ResidueIs
<1>5. Gap = -RealOrder
  <2>1. L = RealOrder
    BY DEF RealScalars, RealOrder, Order252, OrderRest
  <2> QED
    BY <2>1, GapIsOrder
<1>6. limb[12] * (-RealOrder) * 1 = -(RealOrder * limb[12])
  BY <1>1 DEF RealOrder, Order252, OrderRest
<1>7. PICK x \in Int : x = RealOrder * limb[12]
  BY <1>1 DEF RealOrder, Order252, OrderRest
<1> QED
  BY <1>3, <1>4, <1>5, <1>6, <1>7

(* Where the number is once the carries of the third pass are done: less   *)
(* than 2^252 apart from 0 after limb 12 is folded in, in 0..L-1 after it  *)
(* is once more; and the limbs that have been cut stay so.                 *)
RestAt(p, s) ==
  /\ p = 36 => IsRounded(s[11])
  /\ p \in 37..49 => IsNear(Value(s, 24)) /\ \A k \in 0..11 : k < p - 37 => IsCut(s[k])
  /\ p \in 50..61 => IsBelow(Value(s, 24), RealOrder) /\ \A k \in 0..10 : k < p - 50 => IsCut(s[k])

RestInv ==
  /\ RestAt(Place(program, pc), limb)
  /\ stored # -1 => pc = Len(program) + 1 /\ stored = residue

LEMMA FloorKeeps ==
  ASSUME RealScalars, limb \in [Places -> Int], bits \in [Places -> 0..62], LimbsInBits,
         NEW k \in 0..22, Floor(k)
  PROVE  /\ Value(limb', 24) = Value(limb, 24) /\ IsCut(limb'[k])
         /\ \A j \in 0..23 : j < k => limb'[j] = limb[j]
<1>1. IsCut(limb'[k])
  BY FloorFits
<1>2. k \in Places
  BY DEF Places
<1>3. Amount(k, 0) \in Int /\ limb[k] + 0 = limb[k]
  <2>1. limb[k] \in Int
    BY <1>2
  <2> QED
    BY <1>2, <2>1, AmountsAreInt
<1>4. Carry(k, Amount(k, 0), Larger(bits[k] - 21, 0) + 1)
  BY <1>3 DEF Floor, Amount
<1>5. CarriedOut(limb', limb, k, Amount(k, 0)) /\ limb' \in [Places -> Int]
  BY <1>3, <1>4, CarryCarries
<1>6. Value(limb', 24) = Value(limb, 24)
  BY <1>3, <1>5, ValueCarried
<1>7. \A j \in 0..23 : j < k => limb'[j] = limb[j]
  BY <1>5 DEF CarriedOut, Places
<1> QED
  BY <1>1, <1>6, <1>7

LEMMA NearSigned ==
  ASSUME NEW s \in [Places -> Int], \A k \in 0..11 : IsCut(s[k]), IsNear(Limbs13(s))
  PROVE  IsBelow(Limbs13(s) - RealOrder * s[12], RealOrder)
<1>1. PICK r : IsBelow(r, Shift11) /\ Limbs13(s) = r + Shift11 * s[11] + Order252 * s[12]
  BY LimbsWhenCut
<1>2. IsCut(s[11]) /\ s[12] \in Int
  BY DEF Places
<1>3. PICK y \in Int, z \in Int : y = s[11] /\ z = s[12] /\ IsCut(y)
  BY <1>2 DEF IsCut
<1>4. PICK v \in Int : v = r + Shift11 * y + Order252 * z /\ IsNear(v)
  BY <1>1, <1>3 DEF IsNear
<1>5. z \in {-1, 0}
  BY <1>1, <1>3, <1>4 DEF IsNear, IsBelow, IsCut, Shift11, Order252
<1>6. IsBelow(v - RealOrder * z, RealOrder)
  <2>1. CASE z = -1
    <3>1. v < 0
      BY <1>1, <1>3, <1>4, <2>1 DEF IsBelow, IsCut, Shift11, Order252
    <3> QED
      BY <1>4, <2>1, <3>1 DEF IsNear, IsBelow, RealOrder, Order252, OrderRest
  <2>2. CASE z = 0
    <3>1. 0 <= v
      BY <1>1, <1>3, <1>4, <2>2 DEF IsBelow, IsCut, Shift11, Order252
    <3> QED
      BY <1>4, <2>2, <3>1 DEF IsNear, IsBelow, RealOrder, Order252, OrderRest
  <2> QED
    BY <1>5, <2>1, <2>2
<1> QED
  BY <1>1, <1>3, <1>4, <1>6

LEMMA RestStep ==
  ASSUME RealScalars, ScalarTypeOK, BitsInv, LimbsInBits, RestInv, ScalarStep
  PROVE  RestInv'
<1>0. /\ limb \in [Places -> Int] /\ bits \in [Places -> Nat] /\ residue \in 0..L-1
      /\ program \in {ReduceProgram, MulAddProgram} /\ pc \in 1..Len(program)+1
  BY DEF ScalarTypeOK
<1>1. bits \in [Places -> 0..62]
  <2>1. \A k \in Places : bits[k] \in 0..62
    BY BitsAreLow
  <2> QED
    BY <1>0, <2>1
<1>2. PICK p : p = Place(program, pc)
  OBVIOUS
<1>3. /\ pc \in 1..Len(program) /\ p \in -22..60 /\ Place(program', pc') = p + 1
      /\ p = 35 => Round(11)
      /\ p = 36 \/ p = 49 => Fold(12)
      /\ p \in 37..48 => Floor(p - 37)
      /\ p \in 50..60 => Floor(p - 50)
  BY <1>0, <1>2, StepIs
<1>4. stored = -1 /\ stored' = stored
  <2>1. Len(program) \in Int
    BY <1>0, ProgramLengths
  <2> QED
    BY <1>3, <2>1 DEF RestInv, ScalarStep
<1>5. RestAt(p, limb)
  BY <1>2 DEF RestInv
<1>6. RestAt(p + 1, limb')
  <2>1. CASE p \in -22..34
    BY <2>1 DEF RestAt
  <2>2. CASE p = 35
    <3>1. 11 \in 0..22
      OBVIOUS
    <3>2. IsRounded(limb'[11])
      BY <1>0, <1>1, <1>3, <2>2, <3>1, RoundFits
    <3> QED
      BY <2>2, <3>2 DEF RestAt
  <2>3. CASE p = 36
    <3>1. Settled(limb)
      BY <1>2, <1>5, <2>3, SettledAt DEF RestAt
    <3>2. \A k \in 13..23 : limb[k] = 0
      BY <1>2, <2>3, ZerosAbove
    <3>3. Value(limb, 24) = Limbs13(limb)
      BY <1>0, <3>2, ValueOf13
    <3>4. Value(limb', 24) = Value(limb, 24) - RealOrder * limb[12]
      BY <1>0, <1>3, <2>3, FoldTwelve
    <3>5. IsNear(Value(limb', 24))
      BY <1>0, <3>1, <3>3, <3>4, FoldedIsNear
    <3> QED
      BY <2>3, <3>5 DEF RestAt
  <2>4. CASE p \in 37..48
    <3>1. p - 37 \in 0..22 /\ Floor(p - 37)
      BY <1>3, <2>4
    <3>2. /\ Value(limb', 24) = Value(limb, 24) /\ IsCut(limb'[p - 37])
          /\ \A j \in 0..23 : j < p - 37 => limb'[j] = limb[j]
      BY <1>0, <1>1, <3>1, FloorKeeps
    <3>3. IsNear(Value(limb, 24)) /\ \A k \in 0..11 : k < p - 37 => IsCut(limb[k])
      BY <1>5, <2>4 DEF RestAt
    <3>4. \A k \in 0..11 : k < (p + 1) - 37 => IsCut(limb'[k])
      BY <2>4, <3>2, <3>3
    <3>5. p + 1 \in 38..49
      BY <2>4
    <3> QED
      BY <3>2, <3>3, <3>4, <3>5 DEF RestAt
  <2>5. CASE p = 49
    <3>1. IsNear(Value(limb, 24)) /\ \A k \in 0..11 : IsCut(limb[k])
      BY <1>5, <2>5 DEF RestAt
    <3>2. \A k \in 13..23 : limb[k] = 0
      BY <1>2, <2>5, ZerosAbove
    <3>3. Value(limb, 24) = Limbs13(limb)
      BY <1>0, <3>2, ValueOf13
    <3>4. Value(limb', 24) = Value(limb, 24) - RealOrder * limb[12]
      BY <1>0, <1>3, <2>5, FoldTwelve
    <3>5. IsBelow(Value(limb', 24), RealOrder)
      BY <1>0, <3>1, <3>3, <3>4, NearSigned
    <3> QED
      BY <2>5, <3>5 DEF RestAt
  <2>6. CASE p \in 50..60
    <3>1. p - 50 \in 0..22 /\ Floor(p - 50)
      BY <1>3, <2>6
    <3>2. /\ Value(limb', 24) = Value(limb, 24) /\ IsCut(limb'[p - 50])
          /\ \A j \in 0..23 : j < p - 50 => limb'[j] = limb[j]
      BY <1>0, <1>1, <3>1, FloorKeeps
    <3>3. IsBelow(Value(limb, 24), RealOrder) /\ \A k \in 0..10 : k < p - 50 => IsCut(limb[k])
      BY <1>5, <2>6 DEF RestAt
    <3>4. \A k \in 0..10 : k < (p + 1) - 50 => IsCut(limb'[k])
      BY <2>6, <3>2, <3>3
    <3>5. p + 1 \in 51..61
      BY <2>6
    <3> QED
      BY <3>2, <3>3, <3>4, <3>5 DEF RestAt
  <2> QED
    BY <1>3, <2>1, <2>2, <2>3, <2>4, <2>5, <2>6
<1> QED
  BY <1>3, <1>4, <1>6 DEF RestInv

LEMMA ValueOf12 ==
  ASSUME NEW s \in [Places -> Int], \A k \in 12..23 : s[k] = 0
  PROVE  Value(s, 12) = Value(s, 24)
<1>1. AreInt(s, 24) /\ 24 \in Nat /\ AreInt(s, 12) /\ 12 \in Nat
  BY DEF AreInt, Places
<1>2. PICK t : IsTail(t, s, 24) /\ t[0] = Value(s, 24)
  BY <1>1, ValueTail
<1>3. PICK u : IsTail(u, s, 12) /\ u[0] = Value(s, 12)
  BY <1>1, ValueTail
<1>4. \A j \in 0..23 : t[j] = s[j] + Radix * t[j + 1]
  BY <1>2 DEF IsTail
<1>5. \A j \in 0..11 : u[j] = s[j] + Radix * u[j + 1]
  BY <1>3 DEF IsTail
<1> DEFINE T == {k \in 0..12 : t[24 - k] = 0}
           U == {k \in 0..12 : u[12 - k] = t[12 - k]}
<1>6. 0 \in T
  BY <1>2 DEF IsTail
<1>7. ASSUME NEW k \in 0..12-1, k \in T PROVE k + 1 \in T
  <2>1. 24 - (k + 1) \in 0..23 /\ 24 - (k + 1) \in 12..23 /\ (24 - (k + 1)) + 1 = 24 - k
    OBVIOUS
  <2>2. t[24 - (k + 1)] = s[24 - (k + 1)] + Radix * t[24 - k]
    BY <1>4, <2>1
  <2>3. s[24 - (k + 1)] = 0 /\ t[24 - k] = 0 /\ k + 1 \in 0..12
    BY <1>7, <2>1
  <2>4. Radix * 0 = 0
    BY Numbers
  <2> QED
    BY <2>2, <2>3, <2>4
<1>8. t[12] = 0
  <2>1. 12 \in Nat /\ 12 \in 0..12 /\ 24 - 12 = 12
    OBVIOUS
  <2> HIDE DEF T
  <2>2. 0..12 \subseteq T
    BY <1>6, <1>7, <2>1, InductionUpTo
  <2>3. 12 \in T
    BY <2>1, <2>2
  <2> QED
    BY <2>1, <2>3 DEF T
<1>9. 0 \in U
  BY <1>3, <1>8 DEF IsTail
<1>10. ASSUME NEW k \in 0..12-1, k \in U PROVE k + 1 \in U
  <2>1. 12 - (k + 1) \in 0..23 /\ 12 - (k + 1) \in 0..11 /\ (12 - (k + 1)) + 1 = 12 - k
        /\ k + 1 \in 0..12
    OBVIOUS
  <2>2. t[12 - (k + 1)] = s[12 - (k + 1)] + Radix * t[12 - k]
    BY <1>4, <2>1
  <2>3. u[12 - (k + 1)] = s[12 - (k + 1)] + Radix * u[12 - k]
    BY <1>5, <2>1
  <2>4. u[12 - k] = t[12 - k]
    BY <1>10
  <2>5. u[12 - (k + 1)] = t[12 - (k + 1)]
    BY <2>2, <2>3, <2>4
  <2> QED
    BY <2>1, <2>5
<1>11. u[0] = t[0]
  <2>1. 12 \in Nat /\ 12 \in 0..12 /\ 12 - 12 = 0
    OBVIOUS
  <2> HIDE DEF U
  <2>2. 0..12 \subseteq U
    BY <1>9, <1>10, <2>1, InductionUpTo
  <2>3. 12 \in U
    BY <2>1, <2>2
  <2> QED
    BY <2>1, <2>3 DEF U
<1> QED
  BY <1>2, <1>3, <1>11

LEMMA StoreRest ==
  ASSUME RealScalars, ScalarTypeOK, Congruent, BitsInv, LimbsInBits, RestInv, Store
  PROVE  RestInv'
<1>0. /\ limb \in [Places -> Int] /\ residue \in 0..L-1
      /\ program \in {ReduceProgram, MulAddProgram} /\ pc \in 1..Len(program)+1
  BY DEF ScalarTypeOK
<1>1. /\ pc = Len(program) + 1 /\ stored' = IF Apart THEN Value(limb, 12) ELSE -2
      /\ program' = program /\ limb' = limb /\ pc' = pc /\ residue' = residue
  BY DEF Store
<1>2. PICK p : p = 61 /\ p = Place(program, pc)
  <2>1. Len(program) \in Int
    BY <1>0, ProgramLengths
  <2> QED
    BY <1>1, <2>1 DEF Place
<1>3. IsBelow(Value(limb, 24), RealOrder) /\ \A k \in 0..10 : IsCut(limb[k])
  BY <1>2 DEF RestInv, RestAt
<1>4. \A k \in 12..23 : limb[k] = 0
  BY <1>2, ZerosAbove
<1>5. Value(limb, 24) = Limbs13(limb)
  <2>1. \A k \in 13..23 : limb[k] = 0
    BY <1>4
  <2> QED
    BY <1>0, <2>1, ValueOf13
<1>6. limb[11] >= 0
  <2>1. PICK r : IsBelow(r, Shift11) /\ Limbs13(limb) = r + Shift11 * limb[11] + Order252 * limb[12]
    BY <1>0, <1>3, LimbsWhenCut
  <2>0. 11 \in Places
    BY DEF Places
  <2>2. PICK y \in Int : y = limb[11]
    BY <1>0, <2>0
  <2>3. limb[12] = 0
    BY <1>4
  <2>4. Limbs13(limb) = r + Shift11 * y
    BY <2>1, <2>2, <2>3 DEF IsBelow, Shift11, Order252
  <2>5. 0 <= Limbs13(limb)
    BY <1>3, <1>5 DEF IsBelow
  <2>6. y >= 0
    BY <2>1, <2>4, <2>5 DEF IsBelow, Shift11
  <2> QED
    BY <2>2, <2>6
<1>7. Apart
  <2>1. ASSUME NEW k \in 0..10 PROVE limb[k] \in 0..Radix-1
    <3>1. IsCut(limb[k]) /\ Radix = LimbRange
      BY <1>3 DEF RealScalars, LimbRange
    <3>2. limb[k] \in Int /\ 0 <= limb[k] /\ limb[k] < Radix
      BY <3>1 DEF IsCut, LimbRange
    <3> QED
      BY <3>2, Numbers
  <2> QED
    BY <1>6, <2>1 DEF Apart
<1>8. stored' = Value(limb, 24)
  BY <1>0, <1>1, <1>4, <1>7, ValueOf12
<1>9. Value(limb, 24) = residue
  <2>1. AreInt(limb, 24) /\ 24 \in Nat
    BY <1>0 DEF AreInt, Places
  <2>2. residue = Value(limb, 24) % L
    BY <2>1, ResidueIs DEF Congruent
  <2>3. L = RealOrder
    BY DEF RealScalars, RealOrder, Order252, OrderRest
  <2>4. PICK v \in Int : v = Value(limb, 24) /\ 0 <= v /\ v < L
    BY <1>3, <2>3 DEF IsBelow
  <2>5. v % L = v
    BY <2>4, Numbers
  <2> QED
    BY <2>2, <2>4, <2>5
<1> QED
  BY <1>1, <1>2, <1>3, <1>8, <1>9 DEF RestInv, RestAt

(* What sc_reduce and sc_muladd store is the number asked for mod L, the   *)
(* one below L: for every 64 bytes and every three scalars (sc.c:35-347,   *)
(* 362-809).                                                               *)
THEOREM ReducedAlways ==
  ASSUME RealScalars
  PROVE  ScalarSpec => []Reduced
<1>1. ScalarInit => LimbsInBits
  BY InitFits
<1>2. ScalarTypeOK /\ BitsInv /\ LimbsInBits /\ [ScalarNext]_scalarVars => LimbsInBits'
  BY StepFits
<1>3. ScalarTypeOK /\ BitsInv /\ [ScalarNext]_scalarVars => BitsInv'
  BY StepWithin
<1>4. ScalarInit => RestInv
  <2> SUFFICES ASSUME ScalarInit PROVE RestInv
    OBVIOUS
  <2>1. program \in {ReduceProgram, MulAddProgram} /\ pc = 1 /\ stored = -1
    BY DEF ScalarInit, StartReduce, StartMulAdd
  <2>2. PICK n \in {60, 83} : Len(program) = n
    BY <2>1, ProgramLengths
  <2>3. Place(program, pc) \in {-22, 1}
    BY <2>1, <2>2 DEF Place
  <2>4. RestAt(Place(program, pc), limb)
    <3>1. PICK p \in {-22, 1} : p = Place(program, pc)
      BY <2>3
    <3>2. p # 36 /\ p \notin 37..49 /\ p \notin 50..61
      OBVIOUS
    <3> QED
      BY <3>1, <3>2 DEF RestAt
  <2> QED
    BY <2>1, <2>4 DEF RestInv
<1>5. ScalarTypeOK /\ Congruent /\ BitsInv /\ LimbsInBits /\ RestInv /\ [ScalarNext]_scalarVars
        => RestInv'
  <2> SUFFICES ASSUME ScalarTypeOK, Congruent, BitsInv, LimbsInBits, RestInv,
                      [ScalarNext]_scalarVars
               PROVE  RestInv'
    OBVIOUS
  <2>1. CASE UNCHANGED scalarVars
    BY <2>1 DEF scalarVars, RestInv
  <2> QED
    BY <2>1, RestStep, StoreRest DEF ScalarNext
<1>6. Congruent /\ RestInv => Reduced
  BY DEF RestInv, Reduced
<1> QED
  BY InitWithin, ScalarTypeCorrect, CongruentAlways, <1>1, <1>2, <1>3, <1>4, <1>5, <1>6, PTL
     DEF ScalarSpec

-----------------------------------------------------------------------------
(***************************************************************************)
(* FieldLimbs.                                                             *)
(***************************************************************************)

(* Half of each limb's size, and its size.                                 *)
HalfOf(i)  == IF i % 2 = 0 THEN 33554432 ELSE 16777216
Whole(i)  == IF i % 2 = 0 THEN 67108864 ELSE 33554432

(* 1.01 * 2^25 and 1.01 * 2^24: what fe.c promises of its results.         *)
Unit(i) == IF i % 2 = 0 THEN 33889976 ELSE 16944988

IsBetween(x, n) == -n <= x /\ x <= n

(* load_4 at s and at s + 16, load_3 elsewhere.                            *)
LoadLimit(i) == IF i \in {0, 5} THEN 4294967295 ELSE 16777215

(* The numbers of fe.c. *)
RealField ==
  /\ Size = [i \in Limbs |-> Whole(i)] /\ Excess = 19 /\ Small = 121666
  /\ Shift = [i \in Limbs |-> <<1, 64, 32, 8, 4, 1, 128, 32, 16, 4>>[i + 1]]
  /\ \A s \in Texts, i \in Limbs : s[i] \in Nat /\ s[i] <= LoadLimit(i)

-----------------------------------------------------------------------------
(* One carry.                                                              *)

After(i) == IF i = 9 THEN 0 ELSE i + 1
Times(i) == IF i = 9 THEN 19 ELSE 1

(* r is h with c carried out of limb i. *)
IsCarried(r, h, i, c) ==
  /\ r \in [Limbs -> Int]
  /\ r[i] = h[i] - c * Whole(i) /\ r[After(i)] = h[After(i)] + c * Times(i)
  /\ \A j \in Limbs \ {i, After(i)} : r[j] = h[j]

LEMMA RoundedCarries ==
  ASSUME RealField, NEW h \in [Limbs -> Int], NEW i \in Limbs
  PROVE  \E c \in Int : /\ IsCarried(Rounded(h, i), h, i, c)
                        /\ IsBetween(h[i] - c * Whole(i), HalfOf(i))
<1> DEFINE c == (h[i] + Size[i] \div 2) \div Size[i]
           r == Rounded(h, i)
<1>1. Size[i] = Whole(i) /\ Size[i] \div 2 = HalfOf(i)
  BY DEF RealField, Whole, HalfOf
<1>2. c \in Int /\ IsBetween(h[i] - c * Whole(i), HalfOf(i))
  BY <1>1 DEF Whole, HalfOf, IsBetween
<1>3. CASE i = 9
  <2>1. r = [h EXCEPT ![9] = @ - c * Size[9], ![0] = @ + c * 19]
    BY <1>3 DEF Rounded, RealField
  <2> HIDE DEF r, c
  <2>2. IsCarried(r, h, i, c)
    BY <1>1, <1>2, <1>3, <2>1 DEF IsCarried, After, Times, Limbs, Whole
  <2> QED
    BY <1>2, <2>2 DEF r
<1>4. CASE i # 9
  <2>1. r = [h EXCEPT ![i] = @ - c * Size[i], ![i + 1] = @ + c]
    BY <1>4 DEF Rounded
  <2> HIDE DEF r, c
  <2>2. IsCarried(r, h, i, c)
    BY <1>1, <1>2, <1>4, <2>1 DEF IsCarried, After, Times, Limbs, Whole
  <2> QED
    BY <1>2, <2>2 DEF r
<1> QED
  BY <1>3, <1>4

-----------------------------------------------------------------------------
(* The chain of carries after a product: what each limb is limited to when *)
(* n carries are left.                                                     *)

Raw    == 4000000000000000000  \* ten terms, doubled
Met    == 4000000274877906944  \* and a carry
Second == 274911461376         \* carried, and a carry
Back   == 8796126576640        \* the first limb and 19 times the last carry

ProductLimit(n, i) ==
  CASE i = 0 -> IF n = 12 THEN Raw ELSE IF n = 1 THEN Back ELSE HalfOf(0)
    [] i = 1 -> IF n = 12 THEN Raw ELSE IF n >= 10 THEN Met
                ELSE IF n >= 1 THEN HalfOf(1) ELSE Unit(1)
    [] i = 2 -> IF n >= 10 THEN Raw ELSE IF n >= 8 THEN Met ELSE HalfOf(2)
    [] i = 3 -> IF n >= 8 THEN Raw ELSE IF n >= 6 THEN Met ELSE HalfOf(3)
    [] i = 4 -> IF n >= 11 THEN Raw ELSE IF n \in 4..5 THEN Second ELSE HalfOf(4)
    [] i = 5 -> IF n >= 11 THEN Raw ELSE IF n >= 9 THEN Met
                ELSE IF n >= 4 THEN HalfOf(5) ELSE Unit(5)
    [] i = 6 -> IF n >= 9 THEN Raw ELSE IF n >= 7 THEN Met ELSE HalfOf(6)
    [] i = 7 -> IF n >= 7 THEN Raw ELSE IF n >= 5 THEN Met ELSE HalfOf(7)
    [] i = 8 -> IF n >= 5 THEN Raw ELSE IF n >= 3 THEN Met ELSE HalfOf(8)
    [] i = 9 -> IF n >= 3 THEN Raw ELSE IF n >= 2 THEN Met ELSE HalfOf(9)

WithinLimits(h, n) == \A i \in Limbs : IsBetween(h[i], ProductLimit(n, i))

LEMMA ProductCarry ==
  ASSUME RealField, NEW h \in [Limbs -> Int], NEW n \in 1..12, WithinLimits(h, n)
  PROVE  LET r == Rounded(h, ProductCarries[13 - n])
         IN r \in [Limbs -> Int] /\ WithinLimits(r, n - 1)
<1> DEFINE i == ProductCarries[13 - n]
           r == Rounded(h, i)
<1>1. i \in Limbs
  BY DEF ProductCarries, Limbs
<1>2. PICK c \in Int : IsCarried(r, h, i, c) /\ IsBetween(h[i] - c * Whole(i), HalfOf(i))
  BY <1>1, RoundedCarries
<1> HIDE DEF r
<1> SUFFICES r \in [Limbs -> Int] /\ WithinLimits(r, n - 1)
  BY DEF r
<1> USE DEF IsCarried, IsBetween, Limbs
<1>3. r \in [Limbs -> Int]
  BY <1>2
<1>4. \A j \in Limbs : h[j] \in Int /\ r[j] \in Int /\ IsBetween(h[j], ProductLimit(n, j))
  BY <1>3 DEF WithinLimits
<1> USE DEF Raw, Met, Second, Back, HalfOf, Whole, Unit, After, Times
<1>5. CASE n = 12
  <2>1. i = 0
    BY <1>5 DEF ProductCarries
  <2> QED
    BY <1>2, <1>3, <1>4, <1>5, <2>1 DEF ProductLimit, WithinLimits
<1>6. CASE n = 11
  <2>1. i = 4
    BY <1>6 DEF ProductCarries
  <2> QED
    BY <1>2, <1>3, <1>4, <1>6, <2>1 DEF ProductLimit, WithinLimits
<1>7. CASE n = 10
  <2>1. i = 1
    BY <1>7 DEF ProductCarries
  <2> QED
    BY <1>2, <1>3, <1>4, <1>7, <2>1 DEF ProductLimit, WithinLimits
<1>8. CASE n = 9
  <2>1. i = 5
    BY <1>8 DEF ProductCarries
  <2> QED
    BY <1>2, <1>3, <1>4, <1>8, <2>1 DEF ProductLimit, WithinLimits
<1>9. CASE n = 8
  <2>1. i = 2
    BY <1>9 DEF ProductCarries
  <2> QED
    BY <1>2, <1>3, <1>4, <1>9, <2>1 DEF ProductLimit, WithinLimits
<1>10. CASE n = 7
  <2>1. i = 6
    BY <1>10 DEF ProductCarries
  <2> QED
    BY <1>2, <1>3, <1>4, <1>10, <2>1 DEF ProductLimit, WithinLimits
<1>11. CASE n = 6
  <2>1. i = 3
    BY <1>11 DEF ProductCarries
  <2> QED
    BY <1>2, <1>3, <1>4, <1>11, <2>1 DEF ProductLimit, WithinLimits
<1>12. CASE n = 5
  <2>1. i = 7
    BY <1>12 DEF ProductCarries
  <2> QED
    BY <1>2, <1>3, <1>4, <1>12, <2>1 DEF ProductLimit, WithinLimits
<1>13. CASE n = 4
  <2>1. i = 4
    BY <1>13 DEF ProductCarries
  <2> QED
    BY <1>2, <1>3, <1>4, <1>13, <2>1 DEF ProductLimit, WithinLimits
<1>14. CASE n = 3
  <2>1. i = 8
    BY <1>14 DEF ProductCarries
  <2> QED
    BY <1>2, <1>3, <1>4, <1>14, <2>1 DEF ProductLimit, WithinLimits
<1>15. CASE n = 2
  <2>1. i = 9
    BY <1>15 DEF ProductCarries
  <2> QED
    BY <1>2, <1>3, <1>4, <1>15, <2>1 DEF ProductLimit, WithinLimits
<1>16. CASE n = 1
  <2>1. i = 0
    BY <1>16 DEF ProductCarries
  <2> QED
    BY <1>2, <1>3, <1>4, <1>16, <2>1 DEF ProductLimit, WithinLimits
<1> QED
  BY <1>5, <1>6, <1>7, <1>8, <1>9, <1>10, <1>11, <1>12, <1>13, <1>14, <1>15, <1>16

-----------------------------------------------------------------------------
(* The chain after a load or a product with a small number: each odd limb  *)
(* is carried before the even one below it.                                *)

Light   == 8796093022208  \* 2^43
Lighter == 8796109799424  \* and 19 times a carry

LinearLimit(n, i) ==
  CASE i = 0 -> IF n >= 10 THEN Light ELSE IF n >= 5 THEN Lighter ELSE HalfOf(0)
    [] i = 1 -> IF n >= 9 THEN Light ELSE IF n >= 5 THEN HalfOf(1) ELSE Unit(1)
    [] i = 2 -> IF n >= 9 THEN Light ELSE IF n >= 4 THEN Lighter ELSE HalfOf(2)
    [] i = 3 -> IF n >= 8 THEN Light ELSE IF n >= 4 THEN HalfOf(3) ELSE Unit(3)
    [] i = 4 -> IF n >= 8 THEN Light ELSE IF n >= 3 THEN Lighter ELSE HalfOf(4)
    [] i = 5 -> IF n >= 7 THEN Light ELSE IF n >= 3 THEN HalfOf(5) ELSE Unit(5)
    [] i = 6 -> IF n >= 7 THEN Light ELSE IF n >= 2 THEN Lighter ELSE HalfOf(6)
    [] i = 7 -> IF n >= 6 THEN Light ELSE IF n >= 2 THEN HalfOf(7) ELSE Unit(7)
    [] i = 8 -> IF n >= 6 THEN Light ELSE IF n >= 1 THEN Lighter ELSE HalfOf(8)
    [] i = 9 -> IF n >= 10 THEN Light ELSE IF n >= 1 THEN HalfOf(9) ELSE Unit(9)

WithinLinear(h, n) == \A i \in Limbs : IsBetween(h[i], LinearLimit(n, i))

LEMMA LinearCarry ==
  ASSUME RealField, NEW h \in [Limbs -> Int], NEW n \in 1..10, WithinLinear(h, n)
  PROVE  LET r == Rounded(h, LinearCarries[11 - n])
         IN r \in [Limbs -> Int] /\ WithinLinear(r, n - 1)
<1> DEFINE i == LinearCarries[11 - n]
           r == Rounded(h, i)
<1>1. i \in Limbs
  BY DEF LinearCarries, Limbs
<1>2. PICK c \in Int : IsCarried(r, h, i, c) /\ IsBetween(h[i] - c * Whole(i), HalfOf(i))
  BY <1>1, RoundedCarries
<1> HIDE DEF r
<1> SUFFICES r \in [Limbs -> Int] /\ WithinLinear(r, n - 1)
  BY DEF r
<1> USE DEF IsCarried, IsBetween, Limbs
<1>3. r \in [Limbs -> Int]
  BY <1>2
<1>4. \A j \in Limbs : h[j] \in Int /\ r[j] \in Int /\ IsBetween(h[j], LinearLimit(n, j))
  BY <1>3 DEF WithinLinear
<1> USE DEF Light, Lighter, HalfOf, Whole, Unit, After, Times
<1>5. CASE n = 10
  <2>1. i = 9
    BY <1>5 DEF LinearCarries
  <2> QED
    BY <1>2, <1>3, <1>4, <1>5, <2>1 DEF LinearLimit, WithinLinear
<1>6. CASE n = 9
  <2>1. i = 1
    BY <1>6 DEF LinearCarries
  <2> QED
    BY <1>2, <1>3, <1>4, <1>6, <2>1 DEF LinearLimit, WithinLinear
<1>7. CASE n = 8
  <2>1. i = 3
    BY <1>7 DEF LinearCarries
  <2> QED
    BY <1>2, <1>3, <1>4, <1>7, <2>1 DEF LinearLimit, WithinLinear
<1>8. CASE n = 7
  <2>1. i = 5
    BY <1>8 DEF LinearCarries
  <2> QED
    BY <1>2, <1>3, <1>4, <1>8, <2>1 DEF LinearLimit, WithinLinear
<1>9. CASE n = 6
  <2>1. i = 7
    BY <1>9 DEF LinearCarries
  <2> QED
    BY <1>2, <1>3, <1>4, <1>9, <2>1 DEF LinearLimit, WithinLinear
<1>10. CASE n = 5
  <2>1. i = 0
    BY <1>10 DEF LinearCarries
  <2> QED
    BY <1>2, <1>3, <1>4, <1>10, <2>1 DEF LinearLimit, WithinLinear
<1>11. CASE n = 4
  <2>1. i = 2
    BY <1>11 DEF LinearCarries
  <2> QED
    BY <1>2, <1>3, <1>4, <1>11, <2>1 DEF LinearLimit, WithinLinear
<1>12. CASE n = 3
  <2>1. i = 4
    BY <1>12 DEF LinearCarries
  <2> QED
    BY <1>2, <1>3, <1>4, <1>12, <2>1 DEF LinearLimit, WithinLinear
<1>13. CASE n = 2
  <2>1. i = 6
    BY <1>13 DEF LinearCarries
  <2> QED
    BY <1>2, <1>3, <1>4, <1>13, <2>1 DEF LinearLimit, WithinLinear
<1>14. CASE n = 1
  <2>1. i = 8
    BY <1>14 DEF LinearCarries
  <2> QED
    BY <1>2, <1>3, <1>4, <1>14, <2>1 DEF LinearLimit, WithinLinear
<1> QED
  BY <1>5, <1>6, <1>7, <1>8, <1>9, <1>10, <1>11, <1>12, <1>13, <1>14

-----------------------------------------------------------------------------
(* The sums of products.                                                   *)

Bounded(h, b) == h \in [Limbs -> Int] /\ \A i \in Limbs : IsBetween(h[i], b * Unit(i))

Term == 200000000000000000   \* more than 19 * (3 * 1.01 * 2^25)^2

LEMMA AbsProduct ==
  ASSUME NEW a \in Int, NEW b \in Int, NEW A \in Int, NEW B \in Int,
         IsBetween(a, A), IsBetween(b, B)
  PROVE  IsBetween(a * b, A * B)
<1> USE DEF IsBetween
<1>1. (A - a) * (B - b) >= 0 /\ (A + a) * (B + b) >= 0
  OBVIOUS
<1>2. (A - a) * (B + b) >= 0 /\ (A + a) * (B - b) >= 0
  OBVIOUS
<1> QED
  BY <1>1, <1>2

LEMMA TermBound ==
  ASSUME RealField, NEW f, NEW g, Bounded(f, 3), Bounded(g, 3),
         NEW i \in Limbs, NEW j \in Limbs
  PROVE  /\ Weight2(i, j) \in Int /\ f[i] \in Int /\ g[j] \in Int
         /\ IsBetween((f[i] * g[j]) * Weight2(i, j), Term)
<1>1. /\ f[i] \in Int /\ IsBetween(f[i], 3 * Unit(i))
      /\ g[j] \in Int /\ IsBetween(g[j], 3 * Unit(j))
  BY DEF Bounded
<1>2. Unit(i) \in {33889976, 16944988} /\ Unit(j) \in {33889976, 16944988}
  BY DEF Unit
<1> DEFINE p == f[i] * g[j]
<1>3. p \in Int /\ IsBetween(p, (3 * Unit(i)) * (3 * Unit(j)))
  <2> DEFINE A == 3 * Unit(i)
             B == 3 * Unit(j)
             x == f[i]
             y == g[j]
  <2>1. x \in Int /\ y \in Int /\ A \in Int /\ B \in Int /\ IsBetween(x, A) /\ IsBetween(y, B)
    BY <1>1, <1>2
  <2> HIDE DEF A, B, x, y
  <2>2. x * y \in Int /\ IsBetween(x * y, A * B)
    BY <2>1, AbsProduct
  <2> QED
    BY <2>2 DEF A, B, x, y, p
<1> HIDE DEF p
<1>4. CASE i % 2 = 1 /\ j % 2 = 1
  <2>1. IsBetween(p, 2584193564881296)
    BY <1>3, <1>4 DEF Unit, IsBetween
  <2> QED
    BY <1>1, <1>3, <1>4, <2>1 DEF Weight2, RealField, IsBetween, Term, p
<1>5. CASE ~(i % 2 = 1 /\ j % 2 = 1)
  <2>1. IsBetween(p, 10336774259525184)
    BY <1>3, <1>5 DEF Unit, IsBetween
  <2>2. Weight2(i, j) \in {1, 19}
    BY <1>5 DEF Weight2, RealField
  <2> QED
    BY <1>1, <1>3, <2>1, <2>2 DEF IsBetween, Term, p
<1> QED
  BY <1>4, <1>5

(* Each of the ten limbs of a product stays below the limit of one carry.  *)
LEMMA ProductBound ==
  ASSUME RealField, NEW f, NEW g, Bounded(f, 3), Bounded(g, 3)
  PROVE  /\ Product10(f, g) \in [Limbs -> Int]
         /\ \A k \in Limbs : IsBetween(Product10(f, g)[k], 2000000000000000000)
<1> DEFINE t(k, i) == LET j == (k - i) % 10 IN f[i] * g[j] * Weight2(i, j)
<1>1. ASSUME NEW k \in Limbs, NEW i \in Limbs
      PROVE  t(k, i) \in Int /\ IsBetween(t(k, i), Term)
  <2> DEFINE j == (k - i) % 10
  <2>1. j \in Limbs
    BY DEF Limbs
  <2> HIDE DEF j
  <2>2. f[i] * g[j] * Weight2(i, j) \in Int /\ IsBetween(f[i] * g[j] * Weight2(i, j), Term)
    BY <2>1, TermBound
  <2> QED
    BY <2>2 DEF j
<1>2. \A k \in Limbs : Product10(f, g)[k]
        = t(k, 0) + t(k, 1) + t(k, 2) + t(k, 3) + t(k, 4)
            + t(k, 5) + t(k, 6) + t(k, 7) + t(k, 8) + t(k, 9)
  BY DEF Product10, SumOver
<1>3. Product10(f, g) = [k \in Limbs |-> Product10(f, g)[k]]
  BY DEF Product10
<1> HIDE DEF t
<1>4. \A k \in Limbs : /\ Product10(f, g)[k] \in Int
                       /\ IsBetween(Product10(f, g)[k], 2000000000000000000)
  <2> SUFFICES ASSUME NEW k \in Limbs
               PROVE  /\ Product10(f, g)[k] \in Int
                      /\ IsBetween(Product10(f, g)[k], 2000000000000000000)
    OBVIOUS
  <2>1. \A i \in {0, 1, 2, 3, 4, 5, 6, 7, 8, 9} : t(k, i) \in Int /\ IsBetween(t(k, i), Term)
    BY <1>1 DEF Limbs
  <2>2. Product10(f, g)[k]
          = t(k, 0) + t(k, 1) + t(k, 2) + t(k, 3) + t(k, 4)
              + t(k, 5) + t(k, 6) + t(k, 7) + t(k, 8) + t(k, 9)
    BY <1>2
  <2> QED
    BY <2>1, <2>2 DEF IsBetween, Term
<1> QED
  BY <1>3, <1>4

(* A square takes half the products twice. *)
LEMMA SquareBound ==
  ASSUME RealField, NEW f, Bounded(f, 3)
  PROVE  /\ Square10(f) \in [Limbs -> Int]
         /\ \A k \in Limbs : IsBetween(Square10(f)[k], 2000000000000000000)
<1> DEFINE u(i, j) == IF i < j THEN 2 * f[i] * f[j] * Weight2(i, j)
                      ELSE IF i = j THEN f[i] * f[i] * Weight2(i, i) ELSE 0
           s(k, i) == u(i, (k - i) % 10)
           n(i, j) == IF i < j THEN 400000000000000000
                      ELSE IF i = j THEN 200000000000000000 ELSE 0
<1>1. ASSUME NEW i \in Limbs, NEW j \in Limbs
      PROVE  u(i, j) \in Int /\ IsBetween(u(i, j), n(i, j))
  <2>1. /\ f[i] \in Int /\ f[j] \in Int /\ Weight2(i, j) \in Int
        /\ IsBetween((f[i] * f[j]) * Weight2(i, j), Term)
    BY TermBound
  <2> DEFINE x == f[i]
             y == f[j]
             w == Weight2(i, j)
  <2>2. x \in Int /\ y \in Int /\ w \in Int /\ IsBetween((x * y) * w, Term)
    BY <2>1
  <2>3. u(i, j) = IF i < j THEN 2 * x * y * w ELSE IF i = j THEN x * y * w ELSE 0
    OBVIOUS
  <2> HIDE DEF x, y, w, u
  <2>4. 2 * x * y * w = 2 * ((x * y) * w) /\ (x * y) * w \in Int
    BY <2>2
  <2> QED
    BY <2>2, <2>3, <2>4 DEF IsBetween, Term
<1>2. \A k \in Limbs : Square10(f)[k]
        = s(k, 0) + s(k, 1) + s(k, 2) + s(k, 3) + s(k, 4)
            + s(k, 5) + s(k, 6) + s(k, 7) + s(k, 8) + s(k, 9)
  BY DEF Square10, SumOver
<1>3. Square10(f) = [k \in Limbs |-> Square10(f)[k]]
  BY DEF Square10
<1> HIDE DEF u
<1>4. ASSUME NEW k \in Limbs
      PROVE  Square10(f)[k] \in Int /\ IsBetween(Square10(f)[k], 2000000000000000000)
  <2>1. \A i \in {0, 1, 2, 3, 4, 5, 6, 7, 8, 9} :
          s(k, i) \in Int /\ IsBetween(s(k, i), n(i, (k - i) % 10))
    BY <1>1 DEF Limbs
  <2>2. Square10(f)[k]
          = s(k, 0) + s(k, 1) + s(k, 2) + s(k, 3) + s(k, 4)
              + s(k, 5) + s(k, 6) + s(k, 7) + s(k, 8) + s(k, 9)
    BY <1>2
  <2> HIDE DEF s
  <2>3. CASE k = 0 BY <2>1, <2>2, <2>3 DEF IsBetween
  <2>4. CASE k = 1 BY <2>1, <2>2, <2>4 DEF IsBetween
  <2>5. CASE k = 2 BY <2>1, <2>2, <2>5 DEF IsBetween
  <2>6. CASE k = 3 BY <2>1, <2>2, <2>6 DEF IsBetween
  <2>7. CASE k = 4 BY <2>1, <2>2, <2>7 DEF IsBetween
  <2>8. CASE k = 5 BY <2>1, <2>2, <2>8 DEF IsBetween
  <2>9. CASE k = 6 BY <2>1, <2>2, <2>9 DEF IsBetween
  <2>10. CASE k = 7 BY <2>1, <2>2, <2>10 DEF IsBetween
  <2>11. CASE k = 8 BY <2>1, <2>2, <2>11 DEF IsBetween
  <2>12. CASE k = 9 BY <2>1, <2>2, <2>12 DEF IsBetween
  <2> QED
    BY <2>3, <2>4, <2>5, <2>6, <2>7, <2>8, <2>9, <2>10, <2>11, <2>12 DEF Limbs
<1> QED
  BY <1>3, <1>4

-----------------------------------------------------------------------------
(* fe_tobytes: n limbs are still to be carried.                            *)

Digit(x, i) == x \in 0..Whole(i) - 1

WithinWrite(h, n) ==
  \A i \in Limbs : IF i < 10 - n THEN Digit(h[i], i)
                   ELSE IsBetween(h[i], 2 * Unit(i) + (IF i = 10 - n THEN 64 ELSE 0))

LEMMA WriteCarry ==
  ASSUME RealField, NEW h \in [Limbs -> Int], NEW n \in 1..10, WithinWrite(h, n)
  PROVE  LET r == Floored(h, FinalCarries[11 - n])
         IN r \in [Limbs -> Int] /\ WithinWrite(r, n - 1)
<1> DEFINE i == 10 - n
           c == h[i] \div Whole(i)
           r == Floored(h, i)
<1>1. FinalCarries[11 - n] = i /\ i \in Limbs
  BY DEF FinalCarries, Limbs
<1> SUFFICES r \in [Limbs -> Int] /\ WithinWrite(r, n - 1)
  BY <1>1
<1>2. Size[i] = Whole(i)
  BY <1>1 DEF RealField
<1>3. h[i] \in Int /\ IsBetween(h[i], 2 * Unit(i) + 64)
  BY <1>1 DEF WithinWrite, Limbs
<1>4. c \in -2..1 /\ Digit(h[i] - c * Whole(i), i)
  <2>1. CASE i % 2 = 0
    BY <1>3, <2>1 DEF IsBetween, Whole, Unit, Digit
  <2>2. CASE i % 2 # 0
    BY <1>3, <2>2 DEF IsBetween, Whole, Unit, Digit
  <2> QED
    BY <2>1, <2>2
<1>5. /\ r \in [Limbs -> Int] /\ r[i] = h[i] - c * Whole(i)
      /\ i # 9 => r[i + 1] = h[i + 1] + c
      /\ \A j \in Limbs \ {i, i + 1} : r[j] = h[j]
  <2> HIDE DEF r, i
  <2>1. CASE i = 9
    <3>1. r = [h EXCEPT ![9] = @ - c * Whole(9)]
      BY <1>2, <2>1 DEF Floored, r
    <3> HIDE DEF c
    <3> QED
      BY <1>1, <1>4, <2>1, <3>1 DEF Limbs, Whole
  <2>2. CASE i # 9
    <3>1. r = [h EXCEPT ![i] = @ - c * Whole(i), ![i + 1] = @ + c]
      BY <1>2, <2>2 DEF Floored, r
    <3> HIDE DEF c
    <3> QED
      BY <1>1, <1>4, <2>2, <3>1 DEF Limbs, Whole
  <2> QED
    BY <2>1, <2>2
<1> HIDE DEF r, c
<1>6. ASSUME NEW j \in Limbs
      PROVE  IF j < 11 - n THEN Digit(r[j], j)
             ELSE IsBetween(r[j], 2 * Unit(j) + (IF j = 11 - n THEN 64 ELSE 0))
  <2>1. CASE j < i
    BY <1>5, <2>1 DEF WithinWrite, Limbs
  <2>2. CASE j = i
    BY <1>4, <1>5, <2>2 DEF Limbs
  <2>3. CASE j = i + 1
    <3>1. IsBetween(h[j], 2 * Unit(j)) /\ h[j] \in Int /\ i # 9
      BY <2>3 DEF WithinWrite, Limbs, Unit
    <3> QED
      BY <1>4, <1>5, <2>3, <3>1 DEF IsBetween, Unit
  <2>4. CASE j > i + 1
    BY <1>5, <2>4 DEF WithinWrite, Limbs
  <2> QED
    BY <2>1, <2>2, <2>3, <2>4 DEF Limbs
<1> QED
  BY <1>5, <1>6 DEF WithinWrite

LEMMA QuotientBound ==
  ASSUME RealField, NEW h, Bounded(h, 2)
  PROVE  Quotient(h) \in -2..1
<1> DEFINE next(c, i) == (h[i] + c) \div Size[i]
           q == (19 * h[9] + 16777216) \div 33554432
<1>1. ASSUME NEW c \in -20..20, NEW i \in Limbs
      PROVE  next(c, i) \in -2..1
  <2>1. h[i] \in Int /\ IsBetween(h[i], 2 * Unit(i)) /\ Size[i] = Whole(i)
    BY DEF Bounded, RealField
  <2>2. CASE i % 2 = 0
    BY <2>1, <2>2 DEF IsBetween, Unit, Whole
  <2>3. CASE i % 2 # 0
    BY <2>1, <2>3 DEF IsBetween, Unit, Whole
  <2> QED
    BY <2>2, <2>3
<1>2. ASSUME NEW c \in -2..1, NEW i \in Limbs
      PROVE  next(c, i) \in -2..1
  <2>1. c \in -20..20
    OBVIOUS
  <2> QED
    BY <1>1, <2>1
<1>3. q \in -20..20
  <2>1. h[9] \in Int /\ IsBetween(h[9], 2 * 16944988)
    BY DEF Bounded, Unit, Limbs
  <2> QED
    BY <2>1 DEF IsBetween
<1>4. Quotient(h)
        = next(next(next(next(next(next(next(next(next(next(q, 0), 1), 2), 3), 4), 5), 6), 7), 8), 9)
  <2>1. Excess = 19 /\ Size[9] = 33554432 /\ Size[9] \div 2 = 16777216
    BY DEF RealField, Whole, Limbs
  <2> QED
    BY <2>1 DEF Quotient, CarryOut
<1> HIDE DEF next, q
<1>5. next(q, 0) \in -2..1
  BY <1>1, <1>3 DEF Limbs
<1>6. \A c \in -2..1 : \A i \in {1, 2, 3, 4, 5, 6, 7, 8, 9} : next(c, i) \in -2..1
  BY <1>2 DEF Limbs
<1>7. next(next(next(next(q, 0), 1), 2), 3) \in -2..1
  BY <1>5, <1>6
<1>8. next(next(next(next(next(next(next(q, 0), 1), 2), 3), 4), 5), 6) \in -2..1
  BY <1>6, <1>7
<1> QED
  BY <1>4, <1>6, <1>8

-----------------------------------------------------------------------------
(* The invariant.                                                          *)

IsElement(e) ==
  /\ e = Element(e.limbs, e.meaning, e.bound)
  /\ e.bound \in 1..Factor /\ Bounded(e.limbs, e.bound)

(* p is what is left of a list of n carries. *)
IsRest(p, carries, n) ==
  /\ p \in Seq(Limbs) /\ Len(p) <= n
  /\ \A j \in 1..Len(p) : p[j] = carries[n - Len(p) + j]

LimbInv ==
  /\ IsElement(regF) /\ IsElement(regG)
  /\ work = Element(work.limbs, work.meaning, 1)
  /\ work.limbs \in [Limbs -> Int]
  /\ doing \in {"idle", "load", "product", "linear", "write"}
  /\ doing = "idle" => pending = <<>> /\ Bounded(work.limbs, 1)
  /\ doing = "product" =>
       IsRest(pending, ProductCarries, 12) /\ WithinLimits(work.limbs, Len(pending))
  /\ doing \in {"load", "linear"} =>
       IsRest(pending, LinearCarries, 10) /\ WithinLinear(work.limbs, Len(pending))
  /\ doing = "write" =>
       IsRest(pending, FinalCarries, 10) /\ WithinWrite(work.limbs, Len(pending))

Int32(x) == -2147483648 <= x /\ x <= 2147483647
Int64(x) == -9223372036854775807 <= x /\ x <= 9223372036854775807

(* What the code computes with: the limbs of the operands times 19, or 38  *)
(* where two odd limbs meet, are int32; the sums and what a carry adds to  *)
(* or takes from them are int64; what fe_tobytes works with is int32.      *)
LimbsFit ==
  /\ \A i \in Limbs : \A x \in {regF.limbs[i], regG.limbs[i]} :
       Int32((IF i % 2 = 0 THEN 19 ELSE 38) * x)
  /\ \A i \in Limbs : /\ Int64(work.limbs[i] - Whole(i)) /\ Int64(work.limbs[i] + Whole(i))
                      /\ doing = "write" => Int32(work.limbs[i])
  /\ pending = <<>> /\ doing = "write" => \A i \in Limbs : Digit(work.limbs[i], i)
  /\ pending = <<>> /\ doing # "write" => Bounded(work.limbs, 1)

LEMMA SmallerBound ==
  ASSUME NEW h, NEW b \in 1..3, Bounded(h, b)
  PROVE  /\ Bounded(h, 3)
         /\ b <= 2 => Bounded(h, 2)
<1> SUFFICES ASSUME NEW i \in Limbs
             PROVE  IsBetween(h[i], 3 * Unit(i)) /\ (b <= 2 => IsBetween(h[i], 2 * Unit(i)))
  BY DEF Bounded
<1>1. h[i] \in Int /\ IsBetween(h[i], b * Unit(i)) /\ Unit(i) \in {33889976, 16944988}
  BY DEF Bounded, Unit
<1>2. b \in {1, 2, 3}
  OBVIOUS
<1> QED
  BY <1>1, <1>2 DEF IsBetween

LEMMA RestLength ==
  ASSUME NEW p, NEW carries, NEW n \in Nat, IsRest(p, carries, n)
  PROVE  p \in Seq(Limbs) /\ Len(p) \in 0..n
BY DEF IsRest

LEMMA ProductLimitsFit ==
  ASSUME NEW i \in Limbs, NEW n \in 0..12
  PROVE  /\ ProductLimit(n, i) \in Int /\ 0 <= ProductLimit(n, i) /\ ProductLimit(n, i) <= Met
         /\ n = 0 => ProductLimit(n, i) <= Unit(i)
<1> USE DEF ProductLimit, Raw, Met, Second, Back, HalfOf, Unit
<1>0. CASE i = 0 BY <1>0
<1>1. CASE i = 1 BY <1>1
<1>2. CASE i = 2 BY <1>2
<1>3. CASE i = 3 BY <1>3
<1>4. CASE i = 4 BY <1>4
<1>5. CASE i = 5 BY <1>5
<1>6. CASE i = 6 BY <1>6
<1>7. CASE i = 7 BY <1>7
<1>8. CASE i = 8 BY <1>8
<1>9. CASE i = 9 BY <1>9
<1> HIDE DEF ProductLimit, Raw, Met, Second, Back, HalfOf, Unit
<1> QED
  BY <1>0, <1>1, <1>2, <1>3, <1>4, <1>5, <1>6, <1>7, <1>8, <1>9 DEF Limbs

LEMMA LinearLimitsFit ==
  ASSUME NEW i \in Limbs, NEW n \in 0..12
  PROVE  /\ LinearLimit(n, i) \in Int /\ 0 <= LinearLimit(n, i) /\ LinearLimit(n, i) <= Met
         /\ n = 0 => LinearLimit(n, i) <= Unit(i)
<1> USE DEF LinearLimit, Light, Lighter, Met, HalfOf, Unit
<1>0. CASE i = 0 BY <1>0
<1>1. CASE i = 1 BY <1>1
<1>2. CASE i = 2 BY <1>2
<1>3. CASE i = 3 BY <1>3
<1>4. CASE i = 4 BY <1>4
<1>5. CASE i = 5 BY <1>5
<1>6. CASE i = 6 BY <1>6
<1>7. CASE i = 7 BY <1>7
<1>8. CASE i = 8 BY <1>8
<1>9. CASE i = 9 BY <1>9
<1> HIDE DEF LinearLimit, Light, Lighter, Met, HalfOf, Unit
<1> QED
  BY <1>0, <1>1, <1>2, <1>3, <1>4, <1>5, <1>6, <1>7, <1>8, <1>9 DEF Limbs

LEMMA WorkFits ==
  ASSUME RealField, LimbInv, NEW i \in Limbs
  PROVE  /\ IsBetween(work.limbs[i], Met)
         /\ pending = <<>> /\ doing # "write" => IsBetween(work.limbs[i], Unit(i))
         /\ doing = "write" => IsBetween(work.limbs[i], 70000000)
<1> DEFINE n == Len(pending)
           x == work.limbs[i]
<1>1. x \in Int /\ Unit(i) \in {33889976, 16944988} /\ Whole(i) \in {67108864, 33554432}
      /\ (pending = <<>> => n = 0)
  BY DEF LimbInv, Unit, Whole
<1> USE DEF IsBetween
<1>2. CASE doing = "idle"
  BY <1>1, <1>2 DEF LimbInv, Bounded, Met
<1>3. CASE doing = "product"
  <2>0. n \in 0..12
    BY <1>3, RestLength DEF LimbInv
  <2>1. IsBetween(x, ProductLimit(n, i))
    BY <1>3 DEF LimbInv, WithinLimits
  <2> HIDE DEF n, x
  <2>2. /\ ProductLimit(n, i) \in Int /\ ProductLimit(n, i) <= Met
        /\ n = 0 => ProductLimit(n, i) <= Unit(i)
    BY <2>0, ProductLimitsFit
  <2>3. IsBetween(x, Met) /\ (n = 0 => IsBetween(x, Unit(i)))
    BY <1>1, <2>1, <2>2 DEF Met
  <2> QED
    BY <1>1, <1>3, <2>3 DEF x
<1>4. CASE doing \in {"load", "linear"}
  <2>0. n \in 0..12
    <3>1. n \in 0..10
      BY <1>4, RestLength DEF LimbInv
    <3> QED
      BY <3>1
  <2>1. IsBetween(x, LinearLimit(n, i))
    BY <1>4 DEF LimbInv, WithinLinear
  <2> HIDE DEF n, x
  <2>2. /\ LinearLimit(n, i) \in Int /\ LinearLimit(n, i) <= Met
        /\ n = 0 => LinearLimit(n, i) <= Unit(i)
    BY <2>0, LinearLimitsFit
  <2>3. IsBetween(x, Met) /\ (n = 0 => IsBetween(x, Unit(i)))
    BY <1>1, <2>1, <2>2 DEF Met
  <2> QED
    BY <1>1, <1>4, <2>3 DEF x
<1>5. CASE doing = "write"
  <2>1. n \in 0..10 /\ WithinWrite(work.limbs, n)
    BY <1>5, RestLength DEF LimbInv
  <2>2. IsBetween(x, 70000000)
    <3>1. IF i < 10 - n THEN Digit(x, i)
          ELSE IsBetween(x, 2 * Unit(i) + (IF i = 10 - n THEN 64 ELSE 0))
      BY <2>1 DEF WithinWrite
    <3> HIDE DEF n, x
    <3>2. CASE i < 10 - n
      BY <1>1, <3>1, <3>2 DEF Digit
    <3>3. CASE ~(i < 10 - n)
      BY <1>1, <3>1, <3>3
    <3> QED
      BY <3>2, <3>3
  <2> QED
    BY <1>1, <1>5, <2>2 DEF Met
<1> QED
  BY <1>2, <1>3, <1>4, <1>5 DEF LimbInv

LEMMA InvFits == ASSUME RealField, LimbInv PROVE LimbsFit
<1>1. ASSUME NEW e \in {regF, regG}, NEW i \in Limbs
      PROVE  Int32((IF i % 2 = 0 THEN 19 ELSE 38) * e.limbs[i])
  <2>1. e.bound \in 1..3 /\ Bounded(e.limbs, e.bound)
    BY DEF LimbInv, IsElement, Factor
  <2>2. e.limbs[i] \in Int /\ IsBetween(e.limbs[i], 3 * Unit(i))
    BY <2>1, SmallerBound DEF Bounded
  <2>3. CASE i % 2 = 0
    BY <2>2, <2>3 DEF IsBetween, Unit, Int32
  <2>4. CASE i % 2 # 0
    BY <2>2, <2>4 DEF IsBetween, Unit, Int32
  <2> QED
    BY <2>3, <2>4
<1>2. ASSUME NEW i \in Limbs
      PROVE  /\ Int64(work.limbs[i] - Whole(i)) /\ Int64(work.limbs[i] + Whole(i))
             /\ doing = "write" => Int32(work.limbs[i])
  <2>1. work.limbs[i] \in Int /\ Whole(i) \in {67108864, 33554432}
    BY DEF LimbInv, Whole
  <2> QED
    BY <2>1, WorkFits DEF IsBetween, Met, Int64, Int32
<1>3. ASSUME pending = <<>>, doing = "write", NEW i \in Limbs
      PROVE  Digit(work.limbs[i], i)
  <2>1. WithinWrite(work.limbs, 0)
    BY <1>3 DEF LimbInv
  <2> QED
    BY <2>1 DEF WithinWrite, Limbs
<1>4. ASSUME pending = <<>>, doing # "write"
      PROVE  Bounded(work.limbs, 1)
  <2>1. \A i \in Limbs : IsBetween(work.limbs[i], Unit(i)) /\ 1 * Unit(i) = Unit(i)
    BY <1>4, WorkFits DEF Unit
  <2> QED
    BY <2>1 DEF Bounded, LimbInv
<1> QED
  BY <1>1, <1>2, <1>3, <1>4 DEF LimbsFit

-----------------------------------------------------------------------------
(* The steps.                                                              *)

LEMMA Elements ==
  ASSUME NEW h, NEW m, NEW b
  PROVE  LET e == Element(h, m, b)
         IN /\ e.limbs = h /\ e.meaning = m /\ e.bound = b
            /\ e = Element(e.limbs, e.meaning, e.bound)
BY DEF Element

LEMMA InitLimbs == ASSUME RealField, FieldInit PROVE LimbInv
<1>1. ASSUME NEW n \in 0..1 PROVE Bounded(Constant(n), 1)
  <2>1. \A i \in Limbs : Constant(n)[i] \in 0..1 /\ Unit(i) \in {33889976, 16944988}
    BY DEF Constant, Unit
  <2>2. Constant(n) \in [Limbs -> Int]
    BY DEF Constant
  <2>3. \A i \in Limbs : IsBetween(Constant(n)[i], 1 * Unit(i))
    BY <2>1 DEF IsBetween
  <2> QED
    BY <2>2, <2>3 DEF Bounded
<1>2. IsElement(regF) /\ IsElement(regG)
  BY <1>1, Elements DEF FieldInit, IsElement, Factor
<1>3. /\ work = Element(work.limbs, work.meaning, 1) /\ Bounded(work.limbs, 1)
  BY <1>1, Elements DEF FieldInit
<1> QED
  BY <1>2, <1>3 DEF FieldInit, LimbInv, Bounded

LEMMA DirectInv ==
  ASSUME LimbInv, NEW h, NEW m, NEW b \in 1..3, Bounded(h, b), Direct(h, m, b)
  PROVE  LimbInv'
<1>1. IsElement(regF')
  BY Elements DEF Direct, IsElement, Factor
<1>2. UNCHANGED <<regG, work, doing, pending>>
  BY DEF Direct
<1> QED
  BY <1>1, <1>2 DEF LimbInv

LEMMA RestOfAll ==
  /\ IsRest(ProductCarries, ProductCarries, 12) /\ Len(ProductCarries) = 12
  /\ IsRest(LinearCarries, LinearCarries, 10) /\ Len(LinearCarries) = 10
  /\ IsRest(FinalCarries, FinalCarries, 10) /\ Len(FinalCarries) = 10
BY DEF IsRest, ProductCarries, LinearCarries, FinalCarries, Limbs

LEMMA RawWithin ==
  ASSUME NEW h \in [Limbs -> Int]
  PROVE  /\ (\A i \in Limbs : IsBetween(h[i], Raw)) => WithinLimits(h, 12)
         /\ (\A i \in Limbs : IsBetween(h[i], Light)) => WithinLinear(h, 10)
<1>1. \A i \in Limbs : ProductLimit(12, i) = Raw
  BY DEF ProductLimit, Limbs
<1>2. \A i \in Limbs : LinearLimit(10, i) = Light
  BY DEF LinearLimit, Limbs
<1> QED
  BY <1>1, <1>2 DEF WithinLimits, WithinLinear

LEMMA BeginProductInv ==
  ASSUME LimbInv, NEW h \in [Limbs -> Int], NEW m, \A i \in Limbs : IsBetween(h[i], Raw),
         Begin(h, m, "product", ProductCarries)
  PROVE  LimbInv'
<1>1. work' = Element(h, m, 1) /\ doing' = "product" /\ pending' = ProductCarries
      /\ UNCHANGED <<regF, regG>>
  BY DEF Begin
<1>2. work' = Element(work'.limbs, work'.meaning, 1) /\ work'.limbs = h
  BY <1>1, Elements
<1> QED
  BY <1>1, <1>2, RawWithin, RestOfAll DEF LimbInv

LEMMA BeginLinearInv ==
  ASSUME LimbInv, NEW h \in [Limbs -> Int], NEW m, NEW what \in {"load", "linear"},
         \A i \in Limbs : IsBetween(h[i], Light), Begin(h, m, what, LinearCarries)
  PROVE  LimbInv'
<1>1. work' = Element(h, m, 1) /\ doing' = what /\ pending' = LinearCarries
      /\ UNCHANGED <<regF, regG>>
  BY DEF Begin
<1>2. work' = Element(work'.limbs, work'.meaning, 1) /\ work'.limbs = h
  BY <1>1, Elements
<1> QED
  BY <1>1, <1>2, RawWithin, RestOfAll DEF LimbInv

(* Sums, differences and opposites of limbs. *)
LEMMA SumBounded ==
  ASSUME NEW f, NEW g, NEW a \in 1..3, NEW b \in 1..3, Bounded(f, a), Bounded(g, b)
  PROVE  /\ Bounded(Sum(f, g), a + b) /\ Bounded(Difference(f, g), a + b)
         /\ Bounded(Opposite(f), a)
<1>1. ASSUME NEW i \in Limbs
      PROVE  /\ f[i] \in Int /\ g[i] \in Int
             /\ IsBetween(f[i] + g[i], (a + b) * Unit(i))
             /\ IsBetween(f[i] - g[i], (a + b) * Unit(i))
             /\ IsBetween(-f[i], a * Unit(i))
  <2>1. /\ f[i] \in Int /\ IsBetween(f[i], a * Unit(i))
        /\ g[i] \in Int /\ IsBetween(g[i], b * Unit(i)) /\ Unit(i) \in Int
    BY DEF Bounded, Unit
  <2>2. (a + b) * Unit(i) = a * Unit(i) + b * Unit(i) /\ a * Unit(i) \in Int /\ b * Unit(i) \in Int
    BY <2>1
  <2> QED
    BY <2>1, <2>2 DEF IsBetween
<1>2. Sum(f, g) \in [Limbs -> Int] /\ \A i \in Limbs : Sum(f, g)[i] = f[i] + g[i]
  BY <1>1 DEF Sum
<1>3. Difference(f, g) \in [Limbs -> Int] /\ \A i \in Limbs : Difference(f, g)[i] = f[i] - g[i]
  BY <1>1 DEF Difference
<1>4. Opposite(f) \in [Limbs -> Int] /\ \A i \in Limbs : Opposite(f)[i] = -f[i]
  BY <1>1 DEF Opposite
<1>5. Bounded(Sum(f, g), a + b)
  BY <1>1, <1>2 DEF Bounded
<1>6. Bounded(Difference(f, g), a + b)
  BY <1>1, <1>3 DEF Bounded
<1>7. Bounded(Opposite(f), a)
  BY <1>1, <1>4 DEF Bounded
<1> QED
  BY <1>5, <1>6, <1>7

LEMMA OperandsOK ==
  ASSUME LimbInv
  PROVE  /\ regF.bound \in 1..3 /\ Bounded(regF.limbs, regF.bound) /\ Bounded(regF.limbs, 3)
         /\ regG.bound \in 1..3 /\ Bounded(regG.limbs, regG.bound) /\ Bounded(regG.limbs, 3)
         /\ regF.bound <= 2 => Bounded(regF.limbs, 2)
BY SmallerBound DEF LimbInv, IsElement, Factor

LEMMA AddSubNegInv ==
  ASSUME LimbInv, FeAddLimbs \/ FeSubLimbs \/ FeNegLimbs
  PROVE  LimbInv'
<1> DEFINE f == regF.limbs
           g == regG.limbs
           a == regF.bound
           b == regG.bound
<1>1. a \in 1..3 /\ b \in 1..3 /\ Bounded(f, a) /\ Bounded(g, b)
  BY OperandsOK
<1>2. /\ Bounded(Sum(f, g), a + b) /\ Bounded(Difference(f, g), a + b)
      /\ Bounded(Opposite(f), a)
  BY <1>1, SumBounded
<1>3. CASE FeAddLimbs
  <2>1. PICK m : Direct(Sum(f, g), m, a + b)
    BY <1>3 DEF FeAddLimbs, Each
  <2>2. a + b \in 1..3
    BY <1>1, <2>1 DEF Direct, Factor
  <2> QED
    BY <1>2, <2>1, <2>2, DirectInv
<1>4. CASE FeSubLimbs
  <2>1. PICK m : Direct(Difference(f, g), m, a + b)
    BY <1>4 DEF FeSubLimbs, Each
  <2>2. a + b \in 1..3
    BY <1>1, <2>1 DEF Direct, Factor
  <2> QED
    BY <1>2, <2>1, <2>2, DirectInv
<1>5. CASE FeNegLimbs
  <2>1. PICK m : Direct(Opposite(f), m, a)
    BY <1>5 DEF FeNegLimbs, Each
  <2> QED
    BY <1>1, <1>2, <2>1, DirectInv
<1> QED
  BY <1>3, <1>4, <1>5

LEMMA MoveInv ==
  ASSUME LimbInv, FeCSwap \/ \E b \in 0..1 : FeCMov(b)
  PROVE  LimbInv'
<1>1. CASE FeCSwap
  BY <1>1 DEF FeCSwap, Call, LimbInv
<1>2. ASSUME NEW b \in 0..1, FeCMov(b)
      PROVE  LimbInv'
  <2>1. PICK e \in {regF, regG} : Direct(e.limbs, e.meaning, e.bound)
    BY <1>2 DEF FeCMov
  <2>2. e.bound \in 1..3 /\ Bounded(e.limbs, e.bound)
    BY <2>1, OperandsOK
  <2> QED
    BY <2>1, <2>2, DirectInv
<1> QED
  BY <1>1, <1>2

LEMMA ProductInv ==
  ASSUME RealField, LimbInv, FeMulLimbs \/ FeSqLimbs \/ FeSq2Limbs
  PROVE  LimbInv'
<1> DEFINE f == regF.limbs
           g == regG.limbs
<1>1. /\ Product10(f, g) \in [Limbs -> Int] /\ Square10(f) \in [Limbs -> Int]
      /\ \A k \in Limbs : /\ IsBetween(Product10(f, g)[k], 2000000000000000000)
                          /\ IsBetween(Square10(f)[k], 2000000000000000000)
  BY OperandsOK, ProductBound, SquareBound
<1>2. /\ Scaled10(Square10(f), 2) \in [Limbs -> Int]
      /\ \A k \in Limbs : /\ IsBetween(Product10(f, g)[k], Raw)
                          /\ IsBetween(Square10(f)[k], Raw)
                          /\ IsBetween(Scaled10(Square10(f), 2)[k], Raw)
  <2> DEFINE s == Square10(f)
             p == Product10(f, g)
  <2> HIDE DEF s, p
  <2>1. \A k \in Limbs : /\ s[k] \in Int /\ IsBetween(s[k], 2000000000000000000)
                         /\ p[k] \in Int /\ IsBetween(p[k], 2000000000000000000)
    BY <1>1 DEF s, p
  <2>2. \A k \in Limbs : /\ Scaled10(s, 2)[k] = s[k] * 2
                         /\ IsBetween(s[k], Raw) /\ IsBetween(p[k], Raw) /\ IsBetween(s[k] * 2, Raw)
    BY <2>1 DEF Scaled10, IsBetween, Raw
  <2>3. Scaled10(s, 2) \in [Limbs -> Int]
    BY <2>1 DEF Scaled10
  <2> QED
    BY <2>2, <2>3 DEF s, p
<1>3. \/ \E m : Begin(Product10(f, g), m, "product", ProductCarries)
      \/ \E m : Begin(Square10(f), m, "product", ProductCarries)
      \/ \E m : Begin(Scaled10(Square10(f), 2), m, "product", ProductCarries)
  BY DEF FeMulLimbs, FeSqLimbs, FeSq2Limbs, Each
<1> QED
  BY <1>1, <1>2, <1>3, BeginProductInv

LEMMA LoadBound ==
  ASSUME RealField, NEW s \in Texts, NEW i \in Limbs
  PROVE  Loaded(s)[i] \in Int /\ IsBetween(Loaded(s)[i], Light)
<1> DEFINE x == IF i = 9 THEN WithoutTopBit(s[9]) ELSE s[i]
<1>1. s[i] \in Nat /\ s[i] <= LoadLimit(i)
  BY DEF RealField
<1>2. Loaded(s)[i] = x * Shift[i]
  BY DEF Loaded
<1>3. Shift[i] \in 1..128 /\ (i \in {0, 5} => Shift[i] = 1)
  BY DEF RealField, Limbs
<1>4. x \in Nat /\ x <= LoadLimit(i)
  <2>1. CASE i = 9
    <3>1. Size[9] = 33554432 /\ Shift[9] = 4
      BY DEF RealField, Whole, Limbs
    <3>2. x = s[9] % 8388608
      BY <2>1, <3>1 DEF WithoutTopBit
    <3> HIDE DEF x
    <3> QED
      BY <1>1, <2>1, <3>2 DEF LoadLimit
  <2>2. CASE i # 9
    BY <1>1, <2>2
  <2> QED
    BY <2>1, <2>2
<1> HIDE DEF x
<1>5. CASE i \in {0, 5}
  BY <1>2, <1>3, <1>4, <1>5 DEF LoadLimit, IsBetween, Light
<1>6. CASE i \notin {0, 5}
  <2> DEFINE n == Shift[i]
  <2> HIDE DEF n
  <2>1. x \in Nat /\ x <= 16777215 /\ n \in Nat /\ n <= 128 /\ Loaded(s)[i] = x * n
    BY <1>2, <1>3, <1>4, <1>6 DEF LoadLimit, n
  <2>2. IsBetween(x * n, 16777215 * 128)
    BY <2>1, AbsProduct DEF IsBetween
  <2>3. x * n \in Int
    BY <2>1
  <2> QED
    BY <2>1, <2>2, <2>3 DEF IsBetween, Light
<1> QED
  BY <1>5, <1>6

LEMMA LinearInv ==
  ASSUME RealField, LimbInv, FeMul121666 \/ \E s \in Texts : FeFromBytes(s)
  PROVE  LimbInv'
<1>1. CASE FeMul121666
  <2> DEFINE h == Scaled10(regF.limbs, Small)
  <2>1. PICK m : Begin(h, m, "linear", LinearCarries)
    BY <1>1 DEF FeMul121666, Each
  <2>2. Bounded(regF.limbs, 2)
    BY <1>1, OperandsOK DEF FeMul121666, Writable
  <2>3. ASSUME NEW i \in Limbs
        PROVE  h[i] \in Int /\ IsBetween(h[i], Light)
    <3>1. /\ regF.limbs[i] \in Int /\ IsBetween(regF.limbs[i], 2 * Unit(i))
          /\ Unit(i) \in {33889976, 16944988}
      BY <2>2 DEF Bounded, Unit
    <3>2. h[i] = regF.limbs[i] * 121666
      BY DEF Scaled10, RealField
    <3> QED
      BY <3>1, <3>2 DEF IsBetween, Light
  <2>4. h \in [Limbs -> Int]
    BY <2>3 DEF Scaled10
  <2> QED
    BY <2>1, <2>3, <2>4, BeginLinearInv
<1>2. ASSUME NEW s \in Texts, FeFromBytes(s)
      PROVE  LimbInv'
  <2> DEFINE h == Loaded(s)
  <2>1. PICK m : Begin(h, m, "load", LinearCarries)
    BY <1>2 DEF FeFromBytes
  <2>2. ASSUME NEW i \in Limbs
        PROVE  h[i] \in Int /\ IsBetween(h[i], Light)
    BY LoadBound
  <2>3. h \in [Limbs -> Int]
    <3>1. h = [i \in Limbs |-> h[i]]
      BY DEF Loaded
    <3> HIDE DEF h
    <3> QED
      BY <2>2, <3>1
  <2> QED
    BY <2>1, <2>2, <2>3, BeginLinearInv
<1> QED
  BY <1>1, <1>2

LEMMA ToBytesInv ==
  ASSUME RealField, LimbInv, FeToBytes
  PROVE  LimbInv'
<1> DEFINE f == regF.limbs
           q == Quotient(f)
           h == [f EXCEPT ![0] = @ + Excess * q]
<1>1. /\ work' = Element(h, regF.meaning, 1) /\ doing' = "write" /\ pending' = FinalCarries
      /\ UNCHANGED <<regF, regG>>
  BY DEF FeToBytes
<1>2. Bounded(f, 2)
  BY OperandsOK DEF FeToBytes, Writable
<1>3. q \in -2..1
  BY <1>2, QuotientBound
<1> HIDE DEF q
<1>4. /\ h \in [Limbs -> Int] /\ h[0] = f[0] + 19 * q
      /\ \A i \in Limbs \ {0} : h[i] = f[i]
  BY <1>2, <1>3 DEF Bounded, RealField, Limbs
<1> HIDE DEF h
<1>5. WithinWrite(h, 10)
  <2> SUFFICES ASSUME NEW i \in Limbs
               PROVE  IsBetween(h[i], 2 * Unit(i) + (IF i = 0 THEN 64 ELSE 0))
    BY DEF WithinWrite, Limbs
  <2>1. f[i] \in Int /\ IsBetween(f[i], 2 * Unit(i)) /\ Unit(i) \in {33889976, 16944988}
    BY <1>2 DEF Bounded, Unit
  <2> QED
    BY <1>3, <1>4, <2>1 DEF IsBetween
<1>6. work' = Element(work'.limbs, work'.meaning, 1) /\ work'.limbs = h
  BY <1>1, Elements
<1> QED
  BY <1>1, <1>4, <1>5, <1>6, RestOfAll DEF LimbInv

LEMMA RestTail ==
  ASSUME NEW p, NEW carries, NEW n \in Nat, IsRest(p, carries, n), p # <<>>
  PROVE  /\ Len(p) \in 1..n /\ Head(p) = carries[n + 1 - Len(p)]
         /\ IsRest(Tail(p), carries, n) /\ Len(Tail(p)) = Len(p) - 1
<1>1. p \in Seq(Limbs) /\ Len(p) \in 1..n
  BY DEF IsRest
<1>2. Head(p) = p[1] /\ p[1] = carries[n - Len(p) + 1]
  BY <1>1 DEF IsRest
<1>3. n - Len(p) + 1 = n + 1 - Len(p)
  BY <1>1
<1>4. Tail(p) \in Seq(Limbs) /\ Len(Tail(p)) = Len(p) - 1
  BY <1>1
<1>5. ASSUME NEW j \in 1..Len(Tail(p))
      PROVE  Tail(p)[j] = carries[n - Len(Tail(p)) + j]
  <2>1. Tail(p)[j] = p[j + 1] /\ j + 1 \in 1..Len(p)
    BY <1>1, <1>4
  <2>2. n - Len(p) + (j + 1) = n - Len(Tail(p)) + j
    BY <1>1, <1>4
  <2> QED
    BY <2>1, <2>2 DEF IsRest
<1>6. Len(Tail(p)) <= n
  BY <1>1, <1>4
<1> QED
  BY <1>1, <1>2, <1>3, <1>4, <1>5, <1>6 DEF IsRest

LEMMA CarryInv ==
  ASSUME RealField, LimbInv, CarryStep
  PROVE  LimbInv'
<1> DEFINE h == work.limbs
           n == Len(pending)
           r == IF doing = "write" THEN Floored(h, Head(pending)) ELSE Rounded(h, Head(pending))
<1>1. /\ pending # <<>> /\ pending' = Tail(pending)
      /\ work' = [work EXCEPT !.limbs = r] /\ UNCHANGED <<regF, regG, doing>>
  BY DEF CarryStep
<1>2. work' = Element(work'.limbs, work'.meaning, 1) /\ work'.limbs = r
  BY <1>1 DEF LimbInv, Element
<1>3. h \in [Limbs -> Int]
  BY DEF LimbInv
<1>4. CASE doing = "product"
  <2>1. IsRest(pending, ProductCarries, 12) /\ WithinLimits(h, n)
    BY <1>4 DEF LimbInv
  <2>2. /\ n \in 1..12 /\ Head(pending) = ProductCarries[13 - n]
        /\ IsRest(Tail(pending), ProductCarries, 12) /\ Len(Tail(pending)) = n - 1
    <3>1. /\ n \in 1..12 /\ Head(pending) = ProductCarries[12 + 1 - n]
          /\ IsRest(Tail(pending), ProductCarries, 12) /\ Len(Tail(pending)) = n - 1
      BY <1>1, <2>1, RestTail, Zenon
    <3>2. 12 + 1 - n = 13 - n
      BY <3>1
    <3> QED
      BY <3>1, <3>2, Zenon
  <2>3. r \in [Limbs -> Int] /\ WithinLimits(r, n - 1)
    BY <1>3, <1>4, <2>1, <2>2, ProductCarry
  <2> QED
    BY <1>1, <1>2, <1>4, <2>2, <2>3 DEF LimbInv
<1>5. CASE doing \in {"load", "linear"}
  <2>1. IsRest(pending, LinearCarries, 10) /\ WithinLinear(h, n)
    BY <1>5 DEF LimbInv
  <2>2. /\ n \in 1..10 /\ Head(pending) = LinearCarries[11 - n]
        /\ IsRest(Tail(pending), LinearCarries, 10) /\ Len(Tail(pending)) = n - 1
    <3>1. /\ n \in 1..10 /\ Head(pending) = LinearCarries[10 + 1 - n]
          /\ IsRest(Tail(pending), LinearCarries, 10) /\ Len(Tail(pending)) = n - 1
      BY <1>1, <2>1, RestTail, Zenon
    <3>2. 10 + 1 - n = 11 - n
      BY <3>1
    <3> QED
      BY <3>1, <3>2, Zenon
  <2>3. r \in [Limbs -> Int] /\ WithinLinear(r, n - 1)
    BY <1>3, <1>5, <2>1, <2>2, LinearCarry
  <2> QED
    BY <1>1, <1>2, <1>5, <2>2, <2>3 DEF LimbInv
<1>6. CASE doing = "write"
  <2>1. IsRest(pending, FinalCarries, 10) /\ WithinWrite(h, n)
    BY <1>6 DEF LimbInv
  <2>2. /\ n \in 1..10 /\ Head(pending) = FinalCarries[11 - n]
        /\ IsRest(Tail(pending), FinalCarries, 10) /\ Len(Tail(pending)) = n - 1
    <3>1. /\ n \in 1..10 /\ Head(pending) = FinalCarries[10 + 1 - n]
          /\ IsRest(Tail(pending), FinalCarries, 10) /\ Len(Tail(pending)) = n - 1
      BY <1>1, <2>1, RestTail, Zenon
    <3>2. 10 + 1 - n = 11 - n
      BY <3>1
    <3> QED
      BY <3>1, <3>2, Zenon
  <2>3. r \in [Limbs -> Int] /\ WithinWrite(r, n - 1)
    BY <1>3, <1>6, <2>1, <2>2, WriteCarry
  <2> QED
    BY <1>1, <1>2, <1>6, <2>2, <2>3 DEF LimbInv
<1> QED
  BY <1>1, <1>4, <1>5, <1>6 DEF LimbInv

LEMMA ReturnInv ==
  ASSUME RealField, LimbInv, Return
  PROVE  LimbInv'
<1>1. Bounded(work.limbs, 1)
  BY InvFits DEF LimbsFit, Return
<1>2. IsElement(work)
  <2>1. work.bound = 1
    BY Elements DEF LimbInv
  <2> QED
    BY <1>1, <2>1 DEF LimbInv, IsElement, Factor
<1> QED
  BY <1>1, <1>2 DEF LimbInv, Return

LEMMA LimbInvKept ==
  ASSUME RealField, LimbInv, [FieldNext]_fieldVars
  PROVE  LimbInv'
<1>1. CASE UNCHANGED fieldVars
  BY <1>1 DEF fieldVars, LimbInv
<1>2. CASE FieldNext
  BY <1>2, AddSubNegInv, MoveInv, ProductInv, LinearInv, ToBytesInv, CarryInv, ReturnInv
     DEF FieldNext
<1> QED
  BY <1>1, <1>2

(* Whatever functions are called, in whatever order, as long as their      *)
(* preconditions are kept: no operand, no multiple of one and no sum of    *)
(* products leaves its C type, where overflow would be undefined, and each *)
(* function keeps its postcondition (fe.c:35-1491).                        *)
THEOREM LimbsFitAlways == ASSUME RealField PROVE FieldSpec => []LimbsFit
<1>1. FieldInit => LimbInv
  BY InitLimbs
<1>2. LimbInv /\ [FieldNext]_fieldVars => LimbInv'
  BY LimbInvKept
<1>3. LimbInv => LimbsFit
  BY InvFits
<1> QED
  BY <1>1, <1>2, <1>3, PTL DEF FieldSpec


-----------------------------------------------------------------------------
(* The number ten limbs stand for, and what it means that fe.c computes    *)
(* mod 2^255 - 19.                                                         *)

Modulus == 57896044618658097711785492504343953926634992332820282019728792003956564819949

NumberOf(h) ==
    h[0] + 67108864 * h[1]
  + 2251799813685248 * h[2]
  + 151115727451828646838272 * h[3]
  + 5070602400912917605986812821504 * h[4]
  + 340282366920938463463374607431768211456 * h[5]
  + 11417981541647679048466287755595961091061972992 * h[6]
  + 766247770432944429179173513575154591809369561091801088 * h[7]
  + 25711008708143844408671393477458601640355247900524685364822016 * h[8]
  + 1725436586697640946858688965569256363112777243042596638790631055949824 * h[9]

SameResidue(x, y) == \E k \in Int : x - y = k * Modulus

LEMMA ValueInt ==
  ASSUME NEW h \in [Limbs -> Int]
  PROVE  NumberOf(h) \in Int
BY DEF NumberOf, Limbs

(* A carry keeps the number: what leaves the last limb is 2^255 times its  *)
(* carry, and 19 times its carry comes back.                               *)
LEMMA CarryKeeps ==
  ASSUME NEW r, NEW h \in [Limbs -> Int], NEW i \in Limbs, NEW c \in Int, IsCarried(r, h, i, c)
  PROVE  NumberOf(r) = NumberOf(h) - (IF i = 9 THEN c * Modulus ELSE 0)
<1> USE DEF IsCarried, Limbs, After, Times, Whole, NumberOf, Modulus
<1>0. CASE i = 0 BY <1>0
<1>1. CASE i = 1 BY <1>1
<1>2. CASE i = 2 BY <1>2
<1>3. CASE i = 3 BY <1>3
<1>4. CASE i = 4 BY <1>4
<1>5. CASE i = 5 BY <1>5
<1>6. CASE i = 6 BY <1>6
<1>7. CASE i = 7 BY <1>7
<1>8. CASE i = 8 BY <1>8
<1>9. CASE i = 9 BY <1>9
<1> HIDE DEF IsCarried, After, Times, Whole, NumberOf, Modulus
<1> QED
  BY <1>0, <1>1, <1>2, <1>3, <1>4, <1>5, <1>6, <1>7, <1>8, <1>9

(* The part of a product that limb i of the first factor, x, contributes. *)
Row(i, x, g) == [k \in Limbs |-> LET j == (k - i) % 10 IN x * g[j] * Weight2(i, j)]

(* 2 to the bits below limb i. *)
PlaceSize(i) ==
  CASE i = 0 -> 1
    [] i = 1 -> 67108864
    [] i = 2 -> 2251799813685248
    [] i = 3 -> 151115727451828646838272
    [] i = 4 -> 5070602400912917605986812821504
    [] i = 5 -> 340282366920938463463374607431768211456
    [] i = 6 -> 11417981541647679048466287755595961091061972992
    [] i = 7 -> 766247770432944429179173513575154591809369561091801088
    [] i = 8 -> 25711008708143844408671393477458601640355247900524685364822016
    [] i = 9 -> 1725436586697640946858688965569256363112777243042596638790631055949824

LEMMA RowKeeps ==
  ASSUME Excess = 19, NEW i \in Limbs, NEW x \in Int, NEW g \in [Limbs -> Int]
  PROVE  /\ Row(i, x, g) \in [Limbs -> Int]
         /\ SameResidue(PlaceSize(i) * (x * NumberOf(g)), NumberOf(Row(i, x, g)))
<1> DEFINE r == Row(i, x, g)
           p0 == x * g[0]
           p1 == x * g[1]
           p2 == x * g[2]
           p3 == x * g[3]
           p4 == x * g[4]
           p5 == x * g[5]
           p6 == x * g[6]
           p7 == x * g[7]
           p8 == x * g[8]
           p9 == x * g[9]
<1>1. /\ p0 \in Int /\ p1 \in Int /\ p2 \in Int /\ p3 \in Int /\ p4 \in Int
      /\ p5 \in Int /\ p6 \in Int /\ p7 \in Int /\ p8 \in Int /\ p9 \in Int
  BY DEF Limbs
<1>2. x * NumberOf(g) = p0 + 67108864 * p1 + 2251799813685248 * p2
                     + 151115727451828646838272 * p3
                     + 5070602400912917605986812821504 * p4
                     + 340282366920938463463374607431768211456 * p5
                     + 11417981541647679048466287755595961091061972992 * p6
                     + 766247770432944429179173513575154591809369561091801088 * p7
                     + 25711008708143844408671393477458601640355247900524685364822016 * p8
                     + 1725436586697640946858688965569256363112777243042596638790631055949824 * p9
  <2> DEFINE g0 == g[0]
             g1 == g[1]
             g2 == g[2]
             g3 == g[3]
             g4 == g[4]
             g5 == g[5]
             g6 == g[6]
             g7 == g[7]
             g8 == g[8]
             g9 == g[9]
  <2>1. /\ g0 \in Int /\ g1 \in Int /\ g2 \in Int /\ g3 \in Int /\ g4 \in Int
        /\ g5 \in Int /\ g6 \in Int /\ g7 \in Int /\ g8 \in Int /\ g9 \in Int
    BY DEF Limbs
  <2>2. NumberOf(g) = g0 + 67108864 * g1 + 2251799813685248 * g2
                   + 151115727451828646838272 * g3
                   + 5070602400912917605986812821504 * g4
                   + 340282366920938463463374607431768211456 * g5
                   + 11417981541647679048466287755595961091061972992 * g6
                   + 766247770432944429179173513575154591809369561091801088 * g7
                   + 25711008708143844408671393477458601640355247900524685364822016 * g8
                   + 1725436586697640946858688965569256363112777243042596638790631055949824 * g9
    BY DEF NumberOf
  <2>3. /\ p0 = x * g0 /\ p1 = x * g1 /\ p2 = x * g2 /\ p3 = x * g3 /\ p4 = x * g4
        /\ p5 = x * g5 /\ p6 = x * g6 /\ p7 = x * g7 /\ p8 = x * g8 /\ p9 = x * g9
    OBVIOUS
  <2> HIDE DEF g0, g1, g2, g3, g4, g5, g6, g7, g8, g9, p0, p1, p2, p3, p4, p5, p6, p7, p8, p9
  <2>4. x * (g0 + 67108864 * g1 + 2251799813685248 * g2
             + 151115727451828646838272 * g3
             + 5070602400912917605986812821504 * g4
             + 340282366920938463463374607431768211456 * g5
             + 11417981541647679048466287755595961091061972992 * g6
             + 766247770432944429179173513575154591809369561091801088 * g7
             + 25711008708143844408671393477458601640355247900524685364822016 * g8
             + 1725436586697640946858688965569256363112777243042596638790631055949824 * g9)
          = (x * g0) + 67108864 * (x * g1) + 2251799813685248 * (x * g2)
            + 151115727451828646838272 * (x * g3)
            + 5070602400912917605986812821504 * (x * g4)
            + 340282366920938463463374607431768211456 * (x * g5)
            + 11417981541647679048466287755595961091061972992 * (x * g6)
            + 766247770432944429179173513575154591809369561091801088 * (x * g7)
            + 25711008708143844408671393477458601640355247900524685364822016 * (x * g8)
            + 1725436586697640946858688965569256363112777243042596638790631055949824 * (x * g9)
    BY <2>1
  <2> QED
    BY <2>2, <2>3, <2>4
<1>3. r \in [Limbs -> Int]
  <2>1. \A k \in Limbs : (k - i) % 10 \in Limbs
    BY DEF Limbs
  <2>2. \A j, k \in Limbs : Weight2(j, k) \in Int
    BY DEF Weight2
  <2>3. \A k \in Limbs : x * g[(k - i) % 10] * Weight2(i, (k - i) % 10) \in Int
    BY <2>1, <2>2
  <2> QED
    BY <2>3 DEF Row
<1>4. ASSUME NEW j \in Limbs
      PROVE  r[(i + j) % 10] = (x * g[j]) * Weight2(i, j)
  <2>1. (i + j) % 10 \in Limbs /\ (((i + j) % 10) - i) % 10 = j
    BY DEF Limbs
  <2> QED
    BY <2>1 DEF Row
<1>5. /\ r[(i + 0) % 10] = p0 * Weight2(i, 0) /\ r[(i + 1) % 10] = p1 * Weight2(i, 1)
      /\ r[(i + 2) % 10] = p2 * Weight2(i, 2) /\ r[(i + 3) % 10] = p3 * Weight2(i, 3)
      /\ r[(i + 4) % 10] = p4 * Weight2(i, 4) /\ r[(i + 5) % 10] = p5 * Weight2(i, 5)
      /\ r[(i + 6) % 10] = p6 * Weight2(i, 6) /\ r[(i + 7) % 10] = p7 * Weight2(i, 7)
      /\ r[(i + 8) % 10] = p8 * Weight2(i, 8) /\ r[(i + 9) % 10] = p9 * Weight2(i, 9)
  BY <1>4 DEF Limbs
<1> HIDE DEF r, p0, p1, p2, p3, p4, p5, p6, p7, p8, p9
<1>6. NumberOf(r) = r[0] + 67108864 * r[1] + 2251799813685248 * r[2]
                 + 151115727451828646838272 * r[3]
                 + 5070602400912917605986812821504 * r[4]
                 + 340282366920938463463374607431768211456 * r[5]
                 + 11417981541647679048466287755595961091061972992 * r[6]
                 + 766247770432944429179173513575154591809369561091801088 * r[7]
                 + 25711008708143844408671393477458601640355247900524685364822016 * r[8]
                 + 1725436586697640946858688965569256363112777243042596638790631055949824 * r[9]
  BY DEF NumberOf
<1> SUFFICES \E k \in Int : PlaceSize(i) * (x * NumberOf(g)) - NumberOf(r) = k * Modulus
  BY <1>3 DEF r, SameResidue
<1>7. CASE i = 0
  <2>1. /\ Weight2(i, 0) = 1 /\ Weight2(i, 1) = 1 /\ Weight2(i, 2) = 1
        /\ Weight2(i, 3) = 1 /\ Weight2(i, 4) = 1 /\ Weight2(i, 5) = 1
        /\ Weight2(i, 6) = 1 /\ Weight2(i, 7) = 1 /\ Weight2(i, 8) = 1
        /\ Weight2(i, 9) = 1
    BY <1>7 DEF Weight2
  <2>2. /\ r[0] = p0 /\ r[1] = p1 /\ r[2] = p2 /\ r[3] = p3
        /\ r[4] = p4 /\ r[5] = p5 /\ r[6] = p6 /\ r[7] = p7
        /\ r[8] = p8 /\ r[9] = p9
    BY <1>1, <1>5, <1>7, <2>1
  <2> DEFINE m == 0
  <2>3. PlaceSize(i) = 1
    BY <1>7 DEF PlaceSize
  <2>4. m \in Int /\ PlaceSize(i) * (x * NumberOf(g)) - NumberOf(r) = m * Modulus
    BY <1>1, <1>2, <1>6, <2>2, <2>3 DEF Modulus
  <2> QED
    BY <2>4
<1>8. CASE i = 1
  <2>1. /\ Weight2(i, 0) = 1 /\ Weight2(i, 1) = 2 /\ Weight2(i, 2) = 1
        /\ Weight2(i, 3) = 2 /\ Weight2(i, 4) = 1 /\ Weight2(i, 5) = 2
        /\ Weight2(i, 6) = 1 /\ Weight2(i, 7) = 2 /\ Weight2(i, 8) = 1
        /\ Weight2(i, 9) = 38
    BY <1>8 DEF Weight2
  <2>2. /\ r[0] = 38 * p9 /\ r[1] = p0 /\ r[2] = 2 * p1 /\ r[3] = p2
        /\ r[4] = 2 * p3 /\ r[5] = p4 /\ r[6] = 2 * p5 /\ r[7] = p6
        /\ r[8] = 2 * p7 /\ r[9] = p8
    BY <1>1, <1>5, <1>8, <2>1
  <2> DEFINE m == 2 * p9
  <2>3. PlaceSize(i) = 67108864
    BY <1>8 DEF PlaceSize
  <2>4. m \in Int /\ PlaceSize(i) * (x * NumberOf(g)) - NumberOf(r) = m * Modulus
    BY <1>1, <1>2, <1>6, <2>2, <2>3 DEF Modulus
  <2> QED
    BY <2>4
<1>9. CASE i = 2
  <2>1. /\ Weight2(i, 0) = 1 /\ Weight2(i, 1) = 1 /\ Weight2(i, 2) = 1
        /\ Weight2(i, 3) = 1 /\ Weight2(i, 4) = 1 /\ Weight2(i, 5) = 1
        /\ Weight2(i, 6) = 1 /\ Weight2(i, 7) = 1 /\ Weight2(i, 8) = 19
        /\ Weight2(i, 9) = 19
    BY <1>9 DEF Weight2
  <2>2. /\ r[0] = 19 * p8 /\ r[1] = 19 * p9 /\ r[2] = p0 /\ r[3] = p1
        /\ r[4] = p2 /\ r[5] = p3 /\ r[6] = p4 /\ r[7] = p5
        /\ r[8] = p6 /\ r[9] = p7
    BY <1>1, <1>5, <1>9, <2>1
  <2> DEFINE m == p8 + 67108864 * p9
  <2>3. PlaceSize(i) = 2251799813685248
    BY <1>9 DEF PlaceSize
  <2>4. m \in Int /\ PlaceSize(i) * (x * NumberOf(g)) - NumberOf(r) = m * Modulus
    BY <1>1, <1>2, <1>6, <2>2, <2>3 DEF Modulus
  <2> QED
    BY <2>4
<1>10. CASE i = 3
  <2>1. /\ Weight2(i, 0) = 1 /\ Weight2(i, 1) = 2 /\ Weight2(i, 2) = 1
        /\ Weight2(i, 3) = 2 /\ Weight2(i, 4) = 1 /\ Weight2(i, 5) = 2
        /\ Weight2(i, 6) = 1 /\ Weight2(i, 7) = 38 /\ Weight2(i, 8) = 19
        /\ Weight2(i, 9) = 38
    BY <1>10 DEF Weight2
  <2>2. /\ r[0] = 38 * p7 /\ r[1] = 19 * p8 /\ r[2] = 38 * p9 /\ r[3] = p0
        /\ r[4] = 2 * p1 /\ r[5] = p2 /\ r[6] = 2 * p3 /\ r[7] = p4
        /\ r[8] = 2 * p5 /\ r[9] = p6
    BY <1>1, <1>5, <1>10, <2>1
  <2> DEFINE m == 2 * p7 + 67108864 * p8 + 4503599627370496 * p9
  <2>3. PlaceSize(i) = 151115727451828646838272
    BY <1>10 DEF PlaceSize
  <2>4. m \in Int /\ PlaceSize(i) * (x * NumberOf(g)) - NumberOf(r) = m * Modulus
    BY <1>1, <1>2, <1>6, <2>2, <2>3 DEF Modulus
  <2> QED
    BY <2>4
<1>11. CASE i = 4
  <2>1. /\ Weight2(i, 0) = 1 /\ Weight2(i, 1) = 1 /\ Weight2(i, 2) = 1
        /\ Weight2(i, 3) = 1 /\ Weight2(i, 4) = 1 /\ Weight2(i, 5) = 1
        /\ Weight2(i, 6) = 19 /\ Weight2(i, 7) = 19 /\ Weight2(i, 8) = 19
        /\ Weight2(i, 9) = 19
    BY <1>11 DEF Weight2
  <2>2. /\ r[0] = 19 * p6 /\ r[1] = 19 * p7 /\ r[2] = 19 * p8 /\ r[3] = 19 * p9
        /\ r[4] = p0 /\ r[5] = p1 /\ r[6] = p2 /\ r[7] = p3
        /\ r[8] = p4 /\ r[9] = p5
    BY <1>1, <1>5, <1>11, <2>1
  <2> DEFINE m == p6 + 67108864 * p7 + 2251799813685248 * p8
                + 151115727451828646838272 * p9
  <2>3. PlaceSize(i) = 5070602400912917605986812821504
    BY <1>11 DEF PlaceSize
  <2>4. m \in Int /\ PlaceSize(i) * (x * NumberOf(g)) - NumberOf(r) = m * Modulus
    BY <1>1, <1>2, <1>6, <2>2, <2>3 DEF Modulus
  <2> QED
    BY <2>4
<1>12. CASE i = 5
  <2>1. /\ Weight2(i, 0) = 1 /\ Weight2(i, 1) = 2 /\ Weight2(i, 2) = 1
        /\ Weight2(i, 3) = 2 /\ Weight2(i, 4) = 1 /\ Weight2(i, 5) = 38
        /\ Weight2(i, 6) = 19 /\ Weight2(i, 7) = 38 /\ Weight2(i, 8) = 19
        /\ Weight2(i, 9) = 38
    BY <1>12 DEF Weight2
  <2>2. /\ r[0] = 38 * p5 /\ r[1] = 19 * p6 /\ r[2] = 38 * p7 /\ r[3] = 19 * p8
        /\ r[4] = 38 * p9 /\ r[5] = p0 /\ r[6] = 2 * p1 /\ r[7] = p2
        /\ r[8] = 2 * p3 /\ r[9] = p4
    BY <1>1, <1>5, <1>12, <2>1
  <2> DEFINE m == 2 * p5 + 67108864 * p6 + 4503599627370496 * p7
                + 151115727451828646838272 * p8
                + 10141204801825835211973625643008 * p9
  <2>3. PlaceSize(i) = 340282366920938463463374607431768211456
    BY <1>12 DEF PlaceSize
  <2>4. m \in Int /\ PlaceSize(i) * (x * NumberOf(g)) - NumberOf(r) = m * Modulus
    BY <1>1, <1>2, <1>6, <2>2, <2>3 DEF Modulus
  <2> QED
    BY <2>4
<1>13. CASE i = 6
  <2>1. /\ Weight2(i, 0) = 1 /\ Weight2(i, 1) = 1 /\ Weight2(i, 2) = 1
        /\ Weight2(i, 3) = 1 /\ Weight2(i, 4) = 19 /\ Weight2(i, 5) = 19
        /\ Weight2(i, 6) = 19 /\ Weight2(i, 7) = 19 /\ Weight2(i, 8) = 19
        /\ Weight2(i, 9) = 19
    BY <1>13 DEF Weight2
  <2>2. /\ r[0] = 19 * p4 /\ r[1] = 19 * p5 /\ r[2] = 19 * p6 /\ r[3] = 19 * p7
        /\ r[4] = 19 * p8 /\ r[5] = 19 * p9 /\ r[6] = p0 /\ r[7] = p1
        /\ r[8] = p2 /\ r[9] = p3
    BY <1>1, <1>5, <1>13, <2>1
  <2> DEFINE m == p4 + 67108864 * p5 + 2251799813685248 * p6
                + 151115727451828646838272 * p7
                + 5070602400912917605986812821504 * p8
                + 340282366920938463463374607431768211456 * p9
  <2>3. PlaceSize(i) = 11417981541647679048466287755595961091061972992
    BY <1>13 DEF PlaceSize
  <2>4. m \in Int /\ PlaceSize(i) * (x * NumberOf(g)) - NumberOf(r) = m * Modulus
    BY <1>1, <1>2, <1>6, <2>2, <2>3 DEF Modulus
  <2> QED
    BY <2>4
<1>14. CASE i = 7
  <2>1. /\ Weight2(i, 0) = 1 /\ Weight2(i, 1) = 2 /\ Weight2(i, 2) = 1
        /\ Weight2(i, 3) = 38 /\ Weight2(i, 4) = 19 /\ Weight2(i, 5) = 38
        /\ Weight2(i, 6) = 19 /\ Weight2(i, 7) = 38 /\ Weight2(i, 8) = 19
        /\ Weight2(i, 9) = 38
    BY <1>14 DEF Weight2
  <2>2. /\ r[0] = 38 * p3 /\ r[1] = 19 * p4 /\ r[2] = 38 * p5 /\ r[3] = 19 * p6
        /\ r[4] = 38 * p7 /\ r[5] = 19 * p8 /\ r[6] = 38 * p9 /\ r[7] = p0
        /\ r[8] = 2 * p1 /\ r[9] = p2
    BY <1>1, <1>5, <1>14, <2>1
  <2> DEFINE m == 2 * p3 + 67108864 * p4 + 4503599627370496 * p5
                + 151115727451828646838272 * p6
                + 10141204801825835211973625643008 * p7
                + 340282366920938463463374607431768211456 * p8
                + 22835963083295358096932575511191922182123945984 * p9
  <2>3. PlaceSize(i) = 766247770432944429179173513575154591809369561091801088
    BY <1>14 DEF PlaceSize
  <2>4. m \in Int /\ PlaceSize(i) * (x * NumberOf(g)) - NumberOf(r) = m * Modulus
    BY <1>1, <1>2, <1>6, <2>2, <2>3 DEF Modulus
  <2> QED
    BY <2>4
<1>15. CASE i = 8
  <2>1. /\ Weight2(i, 0) = 1 /\ Weight2(i, 1) = 1 /\ Weight2(i, 2) = 19
        /\ Weight2(i, 3) = 19 /\ Weight2(i, 4) = 19 /\ Weight2(i, 5) = 19
        /\ Weight2(i, 6) = 19 /\ Weight2(i, 7) = 19 /\ Weight2(i, 8) = 19
        /\ Weight2(i, 9) = 19
    BY <1>15 DEF Weight2
  <2>2. /\ r[0] = 19 * p2 /\ r[1] = 19 * p3 /\ r[2] = 19 * p4 /\ r[3] = 19 * p5
        /\ r[4] = 19 * p6 /\ r[5] = 19 * p7 /\ r[6] = 19 * p8 /\ r[7] = 19 * p9
        /\ r[8] = p0 /\ r[9] = p1
    BY <1>1, <1>5, <1>15, <2>1
  <2> DEFINE m == p2 + 67108864 * p3 + 2251799813685248 * p4
                + 151115727451828646838272 * p5
                + 5070602400912917605986812821504 * p6
                + 340282366920938463463374607431768211456 * p7
                + 11417981541647679048466287755595961091061972992 * p8
                + 766247770432944429179173513575154591809369561091801088 * p9
  <2>3. PlaceSize(i) = 25711008708143844408671393477458601640355247900524685364822016
    BY <1>15 DEF PlaceSize
  <2>4. m \in Int /\ PlaceSize(i) * (x * NumberOf(g)) - NumberOf(r) = m * Modulus
    BY <1>1, <1>2, <1>6, <2>2, <2>3 DEF Modulus
  <2> QED
    BY <2>4
<1>16. CASE i = 9
  <2>1. /\ Weight2(i, 0) = 1 /\ Weight2(i, 1) = 38 /\ Weight2(i, 2) = 19
        /\ Weight2(i, 3) = 38 /\ Weight2(i, 4) = 19 /\ Weight2(i, 5) = 38
        /\ Weight2(i, 6) = 19 /\ Weight2(i, 7) = 38 /\ Weight2(i, 8) = 19
        /\ Weight2(i, 9) = 38
    BY <1>16 DEF Weight2
  <2>2. /\ r[0] = 38 * p1 /\ r[1] = 19 * p2 /\ r[2] = 38 * p3 /\ r[3] = 19 * p4
        /\ r[4] = 38 * p5 /\ r[5] = 19 * p6 /\ r[6] = 38 * p7 /\ r[7] = 19 * p8
        /\ r[8] = 38 * p9 /\ r[9] = p0
    BY <1>1, <1>5, <1>16, <2>1
  <2> DEFINE m == 2 * p1 + 67108864 * p2 + 4503599627370496 * p3
                + 151115727451828646838272 * p4
                + 10141204801825835211973625643008 * p5
                + 340282366920938463463374607431768211456 * p6
                + 22835963083295358096932575511191922182123945984 * p7
                + 766247770432944429179173513575154591809369561091801088 * p8
                + 51422017416287688817342786954917203280710495801049370729644032 * p9
  <2>3. PlaceSize(i) = 1725436586697640946858688965569256363112777243042596638790631055949824
    BY <1>16 DEF PlaceSize
  <2>4. m \in Int /\ PlaceSize(i) * (x * NumberOf(g)) - NumberOf(r) = m * Modulus
    BY <1>1, <1>2, <1>6, <2>2, <2>3 DEF Modulus
  <2> QED
    BY <2>4
<1> QED
  BY <1>7, <1>8, <1>9, <1>10, <1>11, <1>12, <1>13, <1>14, <1>15, <1>16 DEF Limbs

LEMMA ValueSum ==
  ASSUME NEW f \in [Limbs -> Int], NEW g \in [Limbs -> Int]
  PROVE  Sum(f, g) \in [Limbs -> Int] /\ NumberOf(Sum(f, g)) = NumberOf(f) + NumberOf(g)
<1> DEFINE h == Sum(f, g)
           a0 == f[0]
           a1 == f[1]
           a2 == f[2]
           a3 == f[3]
           a4 == f[4]
           a5 == f[5]
           a6 == f[6]
           a7 == f[7]
           a8 == f[8]
           a9 == f[9]
           b0 == g[0]
           b1 == g[1]
           b2 == g[2]
           b3 == g[3]
           b4 == g[4]
           b5 == g[5]
           b6 == g[6]
           b7 == g[7]
           b8 == g[8]
           b9 == g[9]
<1>1. h \in [Limbs -> Int] /\ \A k \in Limbs : h[k] = f[k] + g[k]
  BY DEF Sum
<1>2. /\ a0 \in Int /\ a1 \in Int /\ a2 \in Int /\ a3 \in Int /\ a4 \in Int
      /\ a5 \in Int /\ a6 \in Int /\ a7 \in Int /\ a8 \in Int /\ a9 \in Int
      /\ b0 \in Int /\ b1 \in Int /\ b2 \in Int /\ b3 \in Int /\ b4 \in Int
      /\ b5 \in Int /\ b6 \in Int /\ b7 \in Int /\ b8 \in Int /\ b9 \in Int
  BY DEF Limbs
<1>3. /\ h[0] = a0 + b0 /\ h[1] = a1 + b1 /\ h[2] = a2 + b2
      /\ h[3] = a3 + b3 /\ h[4] = a4 + b4 /\ h[5] = a5 + b5
      /\ h[6] = a6 + b6 /\ h[7] = a7 + b7 /\ h[8] = a8 + b8
      /\ h[9] = a9 + b9
  BY <1>1 DEF Limbs
<1>4. /\ NumberOf(f) = a0 + 67108864 * a1 + 2251799813685248 * a2
                    + 151115727451828646838272 * a3
                    + 5070602400912917605986812821504 * a4
                    + 340282366920938463463374607431768211456 * a5
                    + 11417981541647679048466287755595961091061972992 * a6
                    + 766247770432944429179173513575154591809369561091801088 * a7
                    + 25711008708143844408671393477458601640355247900524685364822016 * a8
                    + 1725436586697640946858688965569256363112777243042596638790631055949824 * a9
      /\ NumberOf(g) = b0 + 67108864 * b1 + 2251799813685248 * b2
                    + 151115727451828646838272 * b3
                    + 5070602400912917605986812821504 * b4
                    + 340282366920938463463374607431768211456 * b5
                    + 11417981541647679048466287755595961091061972992 * b6
                    + 766247770432944429179173513575154591809369561091801088 * b7
                    + 25711008708143844408671393477458601640355247900524685364822016 * b8
                    + 1725436586697640946858688965569256363112777243042596638790631055949824 * b9
      /\ NumberOf(h) = h[0] + 67108864 * h[1] + 2251799813685248 * h[2]
                    + 151115727451828646838272 * h[3]
                    + 5070602400912917605986812821504 * h[4]
                    + 340282366920938463463374607431768211456 * h[5]
                    + 11417981541647679048466287755595961091061972992 * h[6]
                    + 766247770432944429179173513575154591809369561091801088 * h[7]
                    + 25711008708143844408671393477458601640355247900524685364822016 * h[8]
                    + 1725436586697640946858688965569256363112777243042596638790631055949824 * h[9]
  BY DEF NumberOf
<1> HIDE DEF h, a0, a1, a2, a3, a4, a5, a6, a7, a8, a9, b0, b1, b2, b3, b4, b5, b6, b7, b8, b9
<1>5. NumberOf(h) = NumberOf(f) + NumberOf(g)
  BY <1>2, <1>3, <1>4
<1> QED
  BY <1>1, <1>5 DEF h

(* fe_mul: the ten sums are the limbs of the product mod 2^255 - 19, for   *)
(* all operands (fe.c:556-700).                                            *)
THEOREM ProductIsProduct ==
  ASSUME Excess = 19, NEW f \in [Limbs -> Int], NEW g \in [Limbs -> Int]
  PROVE  SameResidue(NumberOf(f) * NumberOf(g), NumberOf(Product10(f, g)))
<1> DEFINE r0 == Row(0, f[0], g)
           r1 == Row(1, f[1], g)
           r2 == Row(2, f[2], g)
           r3 == Row(3, f[3], g)
           r4 == Row(4, f[4], g)
           r5 == Row(5, f[5], g)
           r6 == Row(6, f[6], g)
           r7 == Row(7, f[7], g)
           r8 == Row(8, f[8], g)
           r9 == Row(9, f[9], g)
           V == NumberOf(g)
<1>1. V \in Int
  BY ValueInt
<1>2. /\ r0 \in [Limbs -> Int] /\ r1 \in [Limbs -> Int] /\ r2 \in [Limbs -> Int]
      /\ r3 \in [Limbs -> Int] /\ r4 \in [Limbs -> Int] /\ r5 \in [Limbs -> Int]
      /\ r6 \in [Limbs -> Int] /\ r7 \in [Limbs -> Int] /\ r8 \in [Limbs -> Int]
      /\ r9 \in [Limbs -> Int]
      /\ SameResidue(PlaceSize(0) * (f[0] * V), NumberOf(r0))
      /\ SameResidue(PlaceSize(1) * (f[1] * V), NumberOf(r1))
      /\ SameResidue(PlaceSize(2) * (f[2] * V), NumberOf(r2))
      /\ SameResidue(PlaceSize(3) * (f[3] * V), NumberOf(r3))
      /\ SameResidue(PlaceSize(4) * (f[4] * V), NumberOf(r4))
      /\ SameResidue(PlaceSize(5) * (f[5] * V), NumberOf(r5))
      /\ SameResidue(PlaceSize(6) * (f[6] * V), NumberOf(r6))
      /\ SameResidue(PlaceSize(7) * (f[7] * V), NumberOf(r7))
      /\ SameResidue(PlaceSize(8) * (f[8] * V), NumberOf(r8))
      /\ SameResidue(PlaceSize(9) * (f[9] * V), NumberOf(r9))
  BY RowKeeps DEF Limbs
<1> DEFINE t(k, i) == LET j == (k - i) % 10 IN f[i] * g[j] * Weight2(i, j)
<1>3. \A k \in Limbs : Product10(f, g)[k]
        = r0[k] + r1[k] + r2[k] + r3[k] + r4[k] + r5[k] + r6[k] + r7[k] + r8[k] + r9[k]
  <2>1. \A k \in Limbs : Product10(f, g)[k]
          = t(k, 0) + t(k, 1) + t(k, 2) + t(k, 3) + t(k, 4)
              + t(k, 5) + t(k, 6) + t(k, 7) + t(k, 8) + t(k, 9)
    BY DEF Product10, SumOver
  <2>2. \A k, i \in Limbs : Row(i, f[i], g)[k] = t(k, i)
    BY DEF Row
  <2> HIDE DEF t
  <2>3. \A k \in Limbs :
          /\ r0[k] = t(k, 0) /\ r1[k] = t(k, 1) /\ r2[k] = t(k, 2) /\ r3[k] = t(k, 3)
          /\ r4[k] = t(k, 4) /\ r5[k] = t(k, 5) /\ r6[k] = t(k, 6) /\ r7[k] = t(k, 7)
          /\ r8[k] = t(k, 8) /\ r9[k] = t(k, 9)
    BY <2>2 DEF Limbs
  <2> QED
    BY <2>1, <2>3
<1>4. Product10(f, g) = [k \in Limbs |-> Product10(f, g)[k]]
  BY DEF Product10
<1> HIDE DEF r0, r1, r2, r3, r4, r5, r6, r7, r8, r9
<1>5. NumberOf(Product10(f, g))
        = NumberOf(r0) + NumberOf(r1) + NumberOf(r2) + NumberOf(r3) + NumberOf(r4) + NumberOf(r5)
          + NumberOf(r6) + NumberOf(r7) + NumberOf(r8) + NumberOf(r9)
  <2> DEFINE s8 == Sum(r8, r9)
             s7 == Sum(r7, s8)
             s6 == Sum(r6, s7)
             s5 == Sum(r5, s6)
             s4 == Sum(r4, s5)
             s3 == Sum(r3, s4)
             s2 == Sum(r2, s3)
             s1 == Sum(r1, s2)
             s0 == Sum(r0, s1)
  <2>1. s8 \in [Limbs -> Int] /\ NumberOf(s8) = NumberOf(r8) + NumberOf(r9)
    BY <1>2, ValueSum
  <2> HIDE DEF s8
  <2>2. s7 \in [Limbs -> Int] /\ NumberOf(s7) = NumberOf(r7) + NumberOf(s8)
    BY <1>2, <2>1, ValueSum
  <2> HIDE DEF s7
  <2>3. s6 \in [Limbs -> Int] /\ NumberOf(s6) = NumberOf(r6) + NumberOf(s7)
    BY <1>2, <2>2, ValueSum
  <2> HIDE DEF s6
  <2>4. s5 \in [Limbs -> Int] /\ NumberOf(s5) = NumberOf(r5) + NumberOf(s6)
    BY <1>2, <2>3, ValueSum
  <2> HIDE DEF s5
  <2>5. s4 \in [Limbs -> Int] /\ NumberOf(s4) = NumberOf(r4) + NumberOf(s5)
    BY <1>2, <2>4, ValueSum
  <2> HIDE DEF s4
  <2>6. s3 \in [Limbs -> Int] /\ NumberOf(s3) = NumberOf(r3) + NumberOf(s4)
    BY <1>2, <2>5, ValueSum
  <2> HIDE DEF s3
  <2>7. s2 \in [Limbs -> Int] /\ NumberOf(s2) = NumberOf(r2) + NumberOf(s3)
    BY <1>2, <2>6, ValueSum
  <2> HIDE DEF s2
  <2>8. s1 \in [Limbs -> Int] /\ NumberOf(s1) = NumberOf(r1) + NumberOf(s2)
    BY <1>2, <2>7, ValueSum
  <2> HIDE DEF s1
  <2>9. s0 \in [Limbs -> Int] /\ NumberOf(s0) = NumberOf(r0) + NumberOf(s1)
    BY <1>2, <2>8, ValueSum
  <2> HIDE DEF s0
  <2>10. /\ NumberOf(r0) \in Int /\ NumberOf(r1) \in Int /\ NumberOf(r2) \in Int
         /\ NumberOf(r3) \in Int /\ NumberOf(r4) \in Int /\ NumberOf(r5) \in Int
         /\ NumberOf(r6) \in Int /\ NumberOf(r7) \in Int /\ NumberOf(r8) \in Int
         /\ NumberOf(r9) \in Int
    BY <1>2, ValueInt
  <2>11. Product10(f, g) = s0
    <3>1. \A k \in Limbs : Product10(f, g)[k] = s0[k]
      BY <1>2, <1>3 DEF Sum, s0, s1, s2, s3, s4, s5, s6, s7, s8
    <3>2. s0 = [k \in Limbs |-> s0[k]]
      BY <2>9
    <3> QED
      BY <1>4, <3>1, <3>2
  <2> QED
    BY <2>1, <2>2, <2>3, <2>4, <2>5, <2>6, <2>7, <2>8, <2>9, <2>10, <2>11
<1> DEFINE f0 == f[0]
           f1 == f[1]
           f2 == f[2]
           f3 == f[3]
           f4 == f[4]
           f5 == f[5]
           f6 == f[6]
           f7 == f[7]
           f8 == f[8]
           f9 == f[9]
           v0 == NumberOf(r0)
           v1 == NumberOf(r1)
           v2 == NumberOf(r2)
           v3 == NumberOf(r3)
           v4 == NumberOf(r4)
           v5 == NumberOf(r5)
           v6 == NumberOf(r6)
           v7 == NumberOf(r7)
           v8 == NumberOf(r8)
           v9 == NumberOf(r9)
<1>6. /\ f0 \in Int /\ f1 \in Int /\ f2 \in Int /\ f3 \in Int /\ f4 \in Int
      /\ f5 \in Int /\ f6 \in Int /\ f7 \in Int /\ f8 \in Int /\ f9 \in Int
  BY DEF Limbs
<1>7. NumberOf(f) = f0 + 67108864 * f1 + 2251799813685248 * f2
                 + 151115727451828646838272 * f3
                 + 5070602400912917605986812821504 * f4
                 + 340282366920938463463374607431768211456 * f5
                 + 11417981541647679048466287755595961091061972992 * f6
                 + 766247770432944429179173513575154591809369561091801088 * f7
                 + 25711008708143844408671393477458601640355247900524685364822016 * f8
                 + 1725436586697640946858688965569256363112777243042596638790631055949824 * f9
  BY DEF NumberOf
<1>8. /\ v0 \in Int /\ v1 \in Int /\ v2 \in Int /\ v3 \in Int /\ v4 \in Int
      /\ v5 \in Int /\ v6 \in Int /\ v7 \in Int /\ v8 \in Int /\ v9 \in Int
  BY <1>2, ValueInt
<1>9. /\ SameResidue((f0 * V), v0)
      /\ SameResidue(67108864 * (f1 * V), v1)
      /\ SameResidue(2251799813685248 * (f2 * V), v2)
      /\ SameResidue(151115727451828646838272 * (f3 * V), v3)
      /\ SameResidue(5070602400912917605986812821504 * (f4 * V), v4)
      /\ SameResidue(340282366920938463463374607431768211456 * (f5 * V), v5)
      /\ SameResidue(11417981541647679048466287755595961091061972992 * (f6 * V), v6)
      /\ SameResidue(766247770432944429179173513575154591809369561091801088 * (f7 * V), v7)
      /\ SameResidue(25711008708143844408671393477458601640355247900524685364822016 * (f8 * V), v8)
      /\ SameResidue(1725436586697640946858688965569256363112777243042596638790631055949824 * (f9 * V), v9)
  <2>1. /\ PlaceSize(0) = 1
        /\ PlaceSize(1) = 67108864
        /\ PlaceSize(2) = 2251799813685248
        /\ PlaceSize(3) = 151115727451828646838272
        /\ PlaceSize(4) = 5070602400912917605986812821504
        /\ PlaceSize(5) = 340282366920938463463374607431768211456
        /\ PlaceSize(6) = 11417981541647679048466287755595961091061972992
        /\ PlaceSize(7) = 766247770432944429179173513575154591809369561091801088
        /\ PlaceSize(8) = 25711008708143844408671393477458601640355247900524685364822016
        /\ PlaceSize(9) = 1725436586697640946858688965569256363112777243042596638790631055949824
    BY DEF PlaceSize
  <2>2. 1 * (f0 * V) = f0 * V
    BY <1>1, <1>6
  <2> QED
    BY <1>2, <2>1, <2>2
<1>10. NumberOf(Product10(f, g)) = v0 + v1 + v2 + v3 + v4 + v5 + v6 + v7 + v8 + v9
  BY <1>5
<1> HIDE DEF V, f0, f1, f2, f3, f4, f5, f6, f7, f8, f9, v0, v1, v2, v3, v4, v5, v6, v7, v8, v9
<1>11. NumberOf(f) * V = (f0 * V) + 67108864 * (f1 * V)
                     + 2251799813685248 * (f2 * V)
                     + 151115727451828646838272 * (f3 * V)
                     + 5070602400912917605986812821504 * (f4 * V)
                     + 340282366920938463463374607431768211456 * (f5 * V)
                     + 11417981541647679048466287755595961091061972992 * (f6 * V)
                     + 766247770432944429179173513575154591809369561091801088 * (f7 * V)
                     + 25711008708143844408671393477458601640355247900524685364822016 * (f8 * V)
                     + 1725436586697640946858688965569256363112777243042596638790631055949824 * (f9 * V)
  <2>1. (f0 + 67108864 * f1 + 2251799813685248 * f2
         + 151115727451828646838272 * f3 + 5070602400912917605986812821504 * f4
         + 340282366920938463463374607431768211456 * f5
         + 11417981541647679048466287755595961091061972992 * f6
         + 766247770432944429179173513575154591809369561091801088 * f7
         + 25711008708143844408671393477458601640355247900524685364822016 * f8
         + 1725436586697640946858688965569256363112777243042596638790631055949824 * f9) * V
          = (f0 * V) + 67108864 * (f1 * V) + 2251799813685248 * (f2 * V)
            + 151115727451828646838272 * (f3 * V)
            + 5070602400912917605986812821504 * (f4 * V)
            + 340282366920938463463374607431768211456 * (f5 * V)
            + 11417981541647679048466287755595961091061972992 * (f6 * V)
            + 766247770432944429179173513575154591809369561091801088 * (f7 * V)
            + 25711008708143844408671393477458601640355247900524685364822016 * (f8 * V)
            + 1725436586697640946858688965569256363112777243042596638790631055949824 * (f9 * V)
    BY <1>1, <1>6
  <2> QED
    BY <1>7, <2>1
<1> SUFFICES \E k \in Int : NumberOf(f) * V - NumberOf(Product10(f, g)) = k * Modulus
  BY DEF SameResidue, V
<1>12. PICK k0 \in Int : (f0 * V) - v0 = k0 * Modulus
  BY <1>9 DEF SameResidue
<1>13. PICK k1 \in Int : 67108864 * (f1 * V) - v1 = k1 * Modulus
  BY <1>9 DEF SameResidue
<1>14. PICK k2 \in Int : 2251799813685248 * (f2 * V) - v2 = k2 * Modulus
  BY <1>9 DEF SameResidue
<1>15. PICK k3 \in Int : 151115727451828646838272 * (f3 * V) - v3 = k3 * Modulus
  BY <1>9 DEF SameResidue
<1>16. PICK k4 \in Int : 5070602400912917605986812821504 * (f4 * V) - v4 = k4 * Modulus
  BY <1>9 DEF SameResidue
<1>17. PICK k5 \in Int : 340282366920938463463374607431768211456 * (f5 * V) - v5 = k5 * Modulus
  BY <1>9 DEF SameResidue
<1>18. PICK k6 \in Int : 11417981541647679048466287755595961091061972992 * (f6 * V) - v6 = k6 * Modulus
  BY <1>9 DEF SameResidue
<1>19. PICK k7 \in Int : 766247770432944429179173513575154591809369561091801088 * (f7 * V) - v7 = k7 * Modulus
  BY <1>9 DEF SameResidue
<1>20. PICK k8 \in Int : 25711008708143844408671393477458601640355247900524685364822016 * (f8 * V) - v8 = k8 * Modulus
  BY <1>9 DEF SameResidue
<1>21. PICK k9 \in Int : 1725436586697640946858688965569256363112777243042596638790631055949824 * (f9 * V) - v9 = k9 * Modulus
  BY <1>9 DEF SameResidue
<1> DEFINE k == k0 + k1 + k2 + k3 + k4 + k5 + k6 + k7 + k8 + k9
<1>22. k \in Int /\ NumberOf(f) * V - NumberOf(Product10(f, g)) = k * Modulus
  BY <1>1, <1>6, <1>8, <1>10, <1>11, <1>12, <1>13, <1>14, <1>15, <1>16, <1>17, <1>18, <1>19,
     <1>20, <1>21 DEF Modulus
<1> QED
  BY <1>22

(* The products a square takes once and doubles are those it leaves out.   *)
LEMMA SquareIsProduct ==
  ASSUME RealField, NEW f \in [Limbs -> Int]
  PROVE  Square10(f) = Product10(f, f)
<1> DEFINE q(i, j) == f[i] * f[j] * Weight2(i, j)
           u(i, j) == IF i < j THEN 2 * f[i] * f[j] * Weight2(i, j)
                      ELSE IF i = j THEN f[i] * f[i] * Weight2(i, i) ELSE 0
           o(k, i) == IF i <= k THEN k - i ELSE k + 10 - i
           s(k, i) == u(i, (k - i) % 10)
           t(k, i) == LET j == (k - i) % 10 IN f[i] * f[j] * Weight2(i, j)
<1>1. ASSUME NEW i \in Limbs, NEW j \in Limbs
      PROVE  /\ q(i, j) \in Int /\ q(i, j) = q(j, i)
             /\ u(i, j) = IF i < j THEN 2 * q(i, j) ELSE IF i = j THEN q(i, j) ELSE 0
  <2> DEFINE x == f[i]
             y == f[j]
             w == Weight2(i, j)
  <2>1. x \in Int /\ y \in Int
    OBVIOUS
  <2>2. w \in Int /\ Weight2(j, i) = w
    BY DEF Weight2, RealField, Limbs
  <2>3. /\ q(i, j) = x * y * w /\ q(j, i) = y * x * w
        /\ u(i, j) = IF i < j THEN 2 * x * y * w ELSE IF i = j THEN x * y * w ELSE 0
    BY <2>2
  <2> HIDE DEF x, y, w, q, u
  <2>4. x * y * w = y * x * w /\ 2 * x * y * w = 2 * (x * y * w) /\ x * y * w \in Int
    BY <2>1, <2>2
  <2> QED
    BY <2>3, <2>4
<1>2. \A k \in Limbs : Square10(f)[k]
        = u(0, o(k, 0)) + u(1, o(k, 1)) + u(2, o(k, 2)) + u(3, o(k, 3)) + u(4, o(k, 4))
            + u(5, o(k, 5)) + u(6, o(k, 6)) + u(7, o(k, 7)) + u(8, o(k, 8)) + u(9, o(k, 9))
  <2>1. \A k \in Limbs : Square10(f)[k]
          = s(k, 0) + s(k, 1) + s(k, 2) + s(k, 3) + s(k, 4)
              + s(k, 5) + s(k, 6) + s(k, 7) + s(k, 8) + s(k, 9)
    BY DEF Square10, SumOver
  <2>2. \A k, i \in Limbs : s(k, i) = u(i, o(k, i))
    <3>1. \A k, i \in Limbs : ((k - i) % 10) = o(k, i)
      BY DEF Limbs
    <3> QED
      BY <3>1
  <2> HIDE DEF s, u, o
  <2>3. \A k \in Limbs :
          /\ s(k, 0) = u(0, o(k, 0)) /\ s(k, 1) = u(1, o(k, 1)) /\ s(k, 2) = u(2, o(k, 2))
          /\ s(k, 3) = u(3, o(k, 3)) /\ s(k, 4) = u(4, o(k, 4)) /\ s(k, 5) = u(5, o(k, 5))
          /\ s(k, 6) = u(6, o(k, 6)) /\ s(k, 7) = u(7, o(k, 7)) /\ s(k, 8) = u(8, o(k, 8))
          /\ s(k, 9) = u(9, o(k, 9))
    BY <2>2 DEF Limbs
  <2> QED
    BY <2>1, <2>3
<1>3. \A k \in Limbs : Product10(f, f)[k]
        = q(0, o(k, 0)) + q(1, o(k, 1)) + q(2, o(k, 2)) + q(3, o(k, 3)) + q(4, o(k, 4))
            + q(5, o(k, 5)) + q(6, o(k, 6)) + q(7, o(k, 7)) + q(8, o(k, 8)) + q(9, o(k, 9))
  <2>1. \A k \in Limbs : Product10(f, f)[k]
          = t(k, 0) + t(k, 1) + t(k, 2) + t(k, 3) + t(k, 4)
              + t(k, 5) + t(k, 6) + t(k, 7) + t(k, 8) + t(k, 9)
    BY DEF Product10, SumOver
  <2>2. \A k, i \in Limbs : t(k, i) = q(i, o(k, i))
    <3>1. \A k, i \in Limbs : ((k - i) % 10) = o(k, i)
      BY DEF Limbs
    <3> QED
      BY <3>1
  <2> HIDE DEF t, q, o
  <2>3. \A k \in Limbs :
          /\ t(k, 0) = q(0, o(k, 0)) /\ t(k, 1) = q(1, o(k, 1)) /\ t(k, 2) = q(2, o(k, 2))
          /\ t(k, 3) = q(3, o(k, 3)) /\ t(k, 4) = q(4, o(k, 4)) /\ t(k, 5) = q(5, o(k, 5))
          /\ t(k, 6) = q(6, o(k, 6)) /\ t(k, 7) = q(7, o(k, 7)) /\ t(k, 8) = q(8, o(k, 8))
          /\ t(k, 9) = q(9, o(k, 9))
    BY <2>2 DEF Limbs
  <2> QED
    BY <2>1, <2>3
<1>5. Square10(f) = [k \in Limbs |-> Square10(f)[k]]
  BY DEF Square10
<1>6. Product10(f, f) = [k \in Limbs |-> Product10(f, f)[k]]
  BY DEF Product10
<1> HIDE DEF q, u
<1>7. Square10(f)[0] = Product10(f, f)[0]
  <2>1. Square10(f)[0]
          = u(0, 0) + u(1, 9) + u(2, 8) + u(3, 7) + u(4, 6)
            + u(5, 5) + u(6, 4) + u(7, 3) + u(8, 2) + u(9, 1)
    BY <1>2 DEF Limbs
  <2>2. Product10(f, f)[0]
          = q(0, 0) + q(1, 9) + q(2, 8) + q(3, 7) + q(4, 6)
            + q(5, 5) + q(6, 4) + q(7, 3) + q(8, 2) + q(9, 1)
    BY <1>3 DEF Limbs
  <2>3. /\ q(0, 0) \in Int /\ q(1, 9) \in Int /\ q(2, 8) \in Int /\ q(3, 7) \in Int
        /\ q(4, 6) \in Int /\ q(5, 5) \in Int
        /\ q(9, 1) = q(1, 9) /\ q(8, 2) = q(2, 8) /\ q(7, 3) = q(3, 7) /\ q(6, 4) = q(4, 6)
    BY <1>1 DEF Limbs
  <2>4. /\ u(1, 9) = 2 * q(1, 9) /\ u(2, 8) = 2 * q(2, 8) /\ u(3, 7) = 2 * q(3, 7)
        /\ u(4, 6) = 2 * q(4, 6)
        /\ u(0, 0) = q(0, 0) /\ u(5, 5) = q(5, 5)
        /\ u(6, 4) = 0 /\ u(7, 3) = 0 /\ u(8, 2) = 0 /\ u(9, 1) = 0
    BY <1>1 DEF Limbs
  <2> QED
    BY <2>1, <2>2, <2>3, <2>4
<1>8. Square10(f)[1] = Product10(f, f)[1]
  <2>1. Square10(f)[1]
          = u(0, 1) + u(1, 0) + u(2, 9) + u(3, 8) + u(4, 7)
            + u(5, 6) + u(6, 5) + u(7, 4) + u(8, 3) + u(9, 2)
    BY <1>2 DEF Limbs
  <2>2. Product10(f, f)[1]
          = q(0, 1) + q(1, 0) + q(2, 9) + q(3, 8) + q(4, 7)
            + q(5, 6) + q(6, 5) + q(7, 4) + q(8, 3) + q(9, 2)
    BY <1>3 DEF Limbs
  <2>3. /\ q(0, 1) \in Int /\ q(2, 9) \in Int /\ q(3, 8) \in Int /\ q(4, 7) \in Int
        /\ q(5, 6) \in Int
        /\ q(1, 0) = q(0, 1) /\ q(9, 2) = q(2, 9) /\ q(8, 3) = q(3, 8) /\ q(7, 4) = q(4, 7)
        /\ q(6, 5) = q(5, 6)
    BY <1>1 DEF Limbs
  <2>4. /\ u(0, 1) = 2 * q(0, 1) /\ u(2, 9) = 2 * q(2, 9) /\ u(3, 8) = 2 * q(3, 8)
        /\ u(4, 7) = 2 * q(4, 7) /\ u(5, 6) = 2 * q(5, 6)
        /\ u(1, 0) = 0 /\ u(6, 5) = 0 /\ u(7, 4) = 0 /\ u(8, 3) = 0
        /\ u(9, 2) = 0
    BY <1>1 DEF Limbs
  <2> QED
    BY <2>1, <2>2, <2>3, <2>4
<1>9. Square10(f)[2] = Product10(f, f)[2]
  <2>1. Square10(f)[2]
          = u(0, 2) + u(1, 1) + u(2, 0) + u(3, 9) + u(4, 8)
            + u(5, 7) + u(6, 6) + u(7, 5) + u(8, 4) + u(9, 3)
    BY <1>2 DEF Limbs
  <2>2. Product10(f, f)[2]
          = q(0, 2) + q(1, 1) + q(2, 0) + q(3, 9) + q(4, 8)
            + q(5, 7) + q(6, 6) + q(7, 5) + q(8, 4) + q(9, 3)
    BY <1>3 DEF Limbs
  <2>3. /\ q(0, 2) \in Int /\ q(1, 1) \in Int /\ q(3, 9) \in Int /\ q(4, 8) \in Int
        /\ q(5, 7) \in Int /\ q(6, 6) \in Int
        /\ q(2, 0) = q(0, 2) /\ q(9, 3) = q(3, 9) /\ q(8, 4) = q(4, 8) /\ q(7, 5) = q(5, 7)
    BY <1>1 DEF Limbs
  <2>4. /\ u(0, 2) = 2 * q(0, 2) /\ u(3, 9) = 2 * q(3, 9) /\ u(4, 8) = 2 * q(4, 8)
        /\ u(5, 7) = 2 * q(5, 7)
        /\ u(1, 1) = q(1, 1) /\ u(6, 6) = q(6, 6)
        /\ u(2, 0) = 0 /\ u(7, 5) = 0 /\ u(8, 4) = 0 /\ u(9, 3) = 0
    BY <1>1 DEF Limbs
  <2> QED
    BY <2>1, <2>2, <2>3, <2>4
<1>10. Square10(f)[3] = Product10(f, f)[3]
  <2>1. Square10(f)[3]
          = u(0, 3) + u(1, 2) + u(2, 1) + u(3, 0) + u(4, 9)
            + u(5, 8) + u(6, 7) + u(7, 6) + u(8, 5) + u(9, 4)
    BY <1>2 DEF Limbs
  <2>2. Product10(f, f)[3]
          = q(0, 3) + q(1, 2) + q(2, 1) + q(3, 0) + q(4, 9)
            + q(5, 8) + q(6, 7) + q(7, 6) + q(8, 5) + q(9, 4)
    BY <1>3 DEF Limbs
  <2>3. /\ q(0, 3) \in Int /\ q(1, 2) \in Int /\ q(4, 9) \in Int /\ q(5, 8) \in Int
        /\ q(6, 7) \in Int
        /\ q(3, 0) = q(0, 3) /\ q(2, 1) = q(1, 2) /\ q(9, 4) = q(4, 9) /\ q(8, 5) = q(5, 8)
        /\ q(7, 6) = q(6, 7)
    BY <1>1 DEF Limbs
  <2>4. /\ u(0, 3) = 2 * q(0, 3) /\ u(1, 2) = 2 * q(1, 2) /\ u(4, 9) = 2 * q(4, 9)
        /\ u(5, 8) = 2 * q(5, 8) /\ u(6, 7) = 2 * q(6, 7)
        /\ u(2, 1) = 0 /\ u(3, 0) = 0 /\ u(7, 6) = 0 /\ u(8, 5) = 0
        /\ u(9, 4) = 0
    BY <1>1 DEF Limbs
  <2> QED
    BY <2>1, <2>2, <2>3, <2>4
<1>11. Square10(f)[4] = Product10(f, f)[4]
  <2>1. Square10(f)[4]
          = u(0, 4) + u(1, 3) + u(2, 2) + u(3, 1) + u(4, 0)
            + u(5, 9) + u(6, 8) + u(7, 7) + u(8, 6) + u(9, 5)
    BY <1>2 DEF Limbs
  <2>2. Product10(f, f)[4]
          = q(0, 4) + q(1, 3) + q(2, 2) + q(3, 1) + q(4, 0)
            + q(5, 9) + q(6, 8) + q(7, 7) + q(8, 6) + q(9, 5)
    BY <1>3 DEF Limbs
  <2>3. /\ q(0, 4) \in Int /\ q(1, 3) \in Int /\ q(2, 2) \in Int /\ q(5, 9) \in Int
        /\ q(6, 8) \in Int /\ q(7, 7) \in Int
        /\ q(4, 0) = q(0, 4) /\ q(3, 1) = q(1, 3) /\ q(9, 5) = q(5, 9) /\ q(8, 6) = q(6, 8)
    BY <1>1 DEF Limbs
  <2>4. /\ u(0, 4) = 2 * q(0, 4) /\ u(1, 3) = 2 * q(1, 3) /\ u(5, 9) = 2 * q(5, 9)
        /\ u(6, 8) = 2 * q(6, 8)
        /\ u(2, 2) = q(2, 2) /\ u(7, 7) = q(7, 7)
        /\ u(3, 1) = 0 /\ u(4, 0) = 0 /\ u(8, 6) = 0 /\ u(9, 5) = 0
    BY <1>1 DEF Limbs
  <2> QED
    BY <2>1, <2>2, <2>3, <2>4
<1>12. Square10(f)[5] = Product10(f, f)[5]
  <2>1. Square10(f)[5]
          = u(0, 5) + u(1, 4) + u(2, 3) + u(3, 2) + u(4, 1)
            + u(5, 0) + u(6, 9) + u(7, 8) + u(8, 7) + u(9, 6)
    BY <1>2 DEF Limbs
  <2>2. Product10(f, f)[5]
          = q(0, 5) + q(1, 4) + q(2, 3) + q(3, 2) + q(4, 1)
            + q(5, 0) + q(6, 9) + q(7, 8) + q(8, 7) + q(9, 6)
    BY <1>3 DEF Limbs
  <2>3. /\ q(0, 5) \in Int /\ q(1, 4) \in Int /\ q(2, 3) \in Int /\ q(6, 9) \in Int
        /\ q(7, 8) \in Int
        /\ q(5, 0) = q(0, 5) /\ q(4, 1) = q(1, 4) /\ q(3, 2) = q(2, 3) /\ q(9, 6) = q(6, 9)
        /\ q(8, 7) = q(7, 8)
    BY <1>1 DEF Limbs
  <2>4. /\ u(0, 5) = 2 * q(0, 5) /\ u(1, 4) = 2 * q(1, 4) /\ u(2, 3) = 2 * q(2, 3)
        /\ u(6, 9) = 2 * q(6, 9) /\ u(7, 8) = 2 * q(7, 8)
        /\ u(3, 2) = 0 /\ u(4, 1) = 0 /\ u(5, 0) = 0 /\ u(8, 7) = 0
        /\ u(9, 6) = 0
    BY <1>1 DEF Limbs
  <2> QED
    BY <2>1, <2>2, <2>3, <2>4
<1>13. Square10(f)[6] = Product10(f, f)[6]
  <2>1. Square10(f)[6]
          = u(0, 6) + u(1, 5) + u(2, 4) + u(3, 3) + u(4, 2)
            + u(5, 1) + u(6, 0) + u(7, 9) + u(8, 8) + u(9, 7)
    BY <1>2 DEF Limbs
  <2>2. Product10(f, f)[6]
          = q(0, 6) + q(1, 5) + q(2, 4) + q(3, 3) + q(4, 2)
            + q(5, 1) + q(6, 0) + q(7, 9) + q(8, 8) + q(9, 7)
    BY <1>3 DEF Limbs
  <2>3. /\ q(0, 6) \in Int /\ q(1, 5) \in Int /\ q(2, 4) \in Int /\ q(3, 3) \in Int
        /\ q(7, 9) \in Int /\ q(8, 8) \in Int
        /\ q(6, 0) = q(0, 6) /\ q(5, 1) = q(1, 5) /\ q(4, 2) = q(2, 4) /\ q(9, 7) = q(7, 9)
    BY <1>1 DEF Limbs
  <2>4. /\ u(0, 6) = 2 * q(0, 6) /\ u(1, 5) = 2 * q(1, 5) /\ u(2, 4) = 2 * q(2, 4)
        /\ u(7, 9) = 2 * q(7, 9)
        /\ u(3, 3) = q(3, 3) /\ u(8, 8) = q(8, 8)
        /\ u(4, 2) = 0 /\ u(5, 1) = 0 /\ u(6, 0) = 0 /\ u(9, 7) = 0
    BY <1>1 DEF Limbs
  <2> QED
    BY <2>1, <2>2, <2>3, <2>4
<1>14. Square10(f)[7] = Product10(f, f)[7]
  <2>1. Square10(f)[7]
          = u(0, 7) + u(1, 6) + u(2, 5) + u(3, 4) + u(4, 3)
            + u(5, 2) + u(6, 1) + u(7, 0) + u(8, 9) + u(9, 8)
    BY <1>2 DEF Limbs
  <2>2. Product10(f, f)[7]
          = q(0, 7) + q(1, 6) + q(2, 5) + q(3, 4) + q(4, 3)
            + q(5, 2) + q(6, 1) + q(7, 0) + q(8, 9) + q(9, 8)
    BY <1>3 DEF Limbs
  <2>3. /\ q(0, 7) \in Int /\ q(1, 6) \in Int /\ q(2, 5) \in Int /\ q(3, 4) \in Int
        /\ q(8, 9) \in Int
        /\ q(7, 0) = q(0, 7) /\ q(6, 1) = q(1, 6) /\ q(5, 2) = q(2, 5) /\ q(4, 3) = q(3, 4)
        /\ q(9, 8) = q(8, 9)
    BY <1>1 DEF Limbs
  <2>4. /\ u(0, 7) = 2 * q(0, 7) /\ u(1, 6) = 2 * q(1, 6) /\ u(2, 5) = 2 * q(2, 5)
        /\ u(3, 4) = 2 * q(3, 4) /\ u(8, 9) = 2 * q(8, 9)
        /\ u(4, 3) = 0 /\ u(5, 2) = 0 /\ u(6, 1) = 0 /\ u(7, 0) = 0
        /\ u(9, 8) = 0
    BY <1>1 DEF Limbs
  <2> QED
    BY <2>1, <2>2, <2>3, <2>4
<1>15. Square10(f)[8] = Product10(f, f)[8]
  <2>1. Square10(f)[8]
          = u(0, 8) + u(1, 7) + u(2, 6) + u(3, 5) + u(4, 4)
            + u(5, 3) + u(6, 2) + u(7, 1) + u(8, 0) + u(9, 9)
    BY <1>2 DEF Limbs
  <2>2. Product10(f, f)[8]
          = q(0, 8) + q(1, 7) + q(2, 6) + q(3, 5) + q(4, 4)
            + q(5, 3) + q(6, 2) + q(7, 1) + q(8, 0) + q(9, 9)
    BY <1>3 DEF Limbs
  <2>3. /\ q(0, 8) \in Int /\ q(1, 7) \in Int /\ q(2, 6) \in Int /\ q(3, 5) \in Int
        /\ q(4, 4) \in Int /\ q(9, 9) \in Int
        /\ q(8, 0) = q(0, 8) /\ q(7, 1) = q(1, 7) /\ q(6, 2) = q(2, 6) /\ q(5, 3) = q(3, 5)
    BY <1>1 DEF Limbs
  <2>4. /\ u(0, 8) = 2 * q(0, 8) /\ u(1, 7) = 2 * q(1, 7) /\ u(2, 6) = 2 * q(2, 6)
        /\ u(3, 5) = 2 * q(3, 5)
        /\ u(4, 4) = q(4, 4) /\ u(9, 9) = q(9, 9)
        /\ u(5, 3) = 0 /\ u(6, 2) = 0 /\ u(7, 1) = 0 /\ u(8, 0) = 0
    BY <1>1 DEF Limbs
  <2> QED
    BY <2>1, <2>2, <2>3, <2>4
<1>16. Square10(f)[9] = Product10(f, f)[9]
  <2>1. Square10(f)[9]
          = u(0, 9) + u(1, 8) + u(2, 7) + u(3, 6) + u(4, 5)
            + u(5, 4) + u(6, 3) + u(7, 2) + u(8, 1) + u(9, 0)
    BY <1>2 DEF Limbs
  <2>2. Product10(f, f)[9]
          = q(0, 9) + q(1, 8) + q(2, 7) + q(3, 6) + q(4, 5)
            + q(5, 4) + q(6, 3) + q(7, 2) + q(8, 1) + q(9, 0)
    BY <1>3 DEF Limbs
  <2>3. /\ q(0, 9) \in Int /\ q(1, 8) \in Int /\ q(2, 7) \in Int /\ q(3, 6) \in Int
        /\ q(4, 5) \in Int
        /\ q(9, 0) = q(0, 9) /\ q(8, 1) = q(1, 8) /\ q(7, 2) = q(2, 7) /\ q(6, 3) = q(3, 6)
        /\ q(5, 4) = q(4, 5)
    BY <1>1 DEF Limbs
  <2>4. /\ u(0, 9) = 2 * q(0, 9) /\ u(1, 8) = 2 * q(1, 8) /\ u(2, 7) = 2 * q(2, 7)
        /\ u(3, 6) = 2 * q(3, 6) /\ u(4, 5) = 2 * q(4, 5)
        /\ u(5, 4) = 0 /\ u(6, 3) = 0 /\ u(7, 2) = 0 /\ u(8, 1) = 0
        /\ u(9, 0) = 0
    BY <1>1 DEF Limbs
  <2> QED
    BY <2>1, <2>2, <2>3, <2>4
<1>17. \A k \in Limbs : Square10(f)[k] = Product10(f, f)[k]
  BY <1>7, <1>8, <1>9, <1>10, <1>11, <1>12, <1>13, <1>14, <1>15, <1>16 DEF Limbs
<1> QED
  BY <1>5, <1>6, <1>17

(* fe_sq: the sums that take each product of two different limbs once, and *)
(* double it, are the limbs of the square (fe.c:982-1070).                 *)
THEOREM SquareIsSquare ==
  ASSUME RealField, NEW f \in [Limbs -> Int]
  PROVE  SameResidue(NumberOf(f) * NumberOf(f), NumberOf(Square10(f)))
BY SquareIsProduct, ProductIsProduct DEF RealField

LEMMA ValueScaled ==
  ASSUME NEW h \in [Limbs -> Int], NEW n \in Int
  PROVE  Scaled10(h, n) \in [Limbs -> Int] /\ NumberOf(Scaled10(h, n)) = NumberOf(h) * n
<1> DEFINE r == Scaled10(h, n)
           a0 == h[0]
           a1 == h[1]
           a2 == h[2]
           a3 == h[3]
           a4 == h[4]
           a5 == h[5]
           a6 == h[6]
           a7 == h[7]
           a8 == h[8]
           a9 == h[9]
<1>1. r \in [Limbs -> Int] /\ \A k \in Limbs : r[k] = h[k] * n
  BY DEF Scaled10
<1>2. /\ a0 \in Int /\ a1 \in Int /\ a2 \in Int /\ a3 \in Int /\ a4 \in Int
      /\ a5 \in Int /\ a6 \in Int /\ a7 \in Int /\ a8 \in Int /\ a9 \in Int
  BY DEF Limbs
<1>3. /\ r[0] = a0 * n /\ r[1] = a1 * n /\ r[2] = a2 * n
      /\ r[3] = a3 * n /\ r[4] = a4 * n /\ r[5] = a5 * n
      /\ r[6] = a6 * n /\ r[7] = a7 * n /\ r[8] = a8 * n
      /\ r[9] = a9 * n
  BY <1>1 DEF Limbs
<1>4. /\ NumberOf(h) = a0 + 67108864 * a1 + 2251799813685248 * a2
                    + 151115727451828646838272 * a3
                    + 5070602400912917605986812821504 * a4
                    + 340282366920938463463374607431768211456 * a5
                    + 11417981541647679048466287755595961091061972992 * a6
                    + 766247770432944429179173513575154591809369561091801088 * a7
                    + 25711008708143844408671393477458601640355247900524685364822016 * a8
                    + 1725436586697640946858688965569256363112777243042596638790631055949824 * a9
      /\ NumberOf(r) = r[0] + 67108864 * r[1] + 2251799813685248 * r[2]
                    + 151115727451828646838272 * r[3]
                    + 5070602400912917605986812821504 * r[4]
                    + 340282366920938463463374607431768211456 * r[5]
                    + 11417981541647679048466287755595961091061972992 * r[6]
                    + 766247770432944429179173513575154591809369561091801088 * r[7]
                    + 25711008708143844408671393477458601640355247900524685364822016 * r[8]
                    + 1725436586697640946858688965569256363112777243042596638790631055949824 * r[9]
  BY DEF NumberOf
<1> HIDE DEF r, a0, a1, a2, a3, a4, a5, a6, a7, a8, a9
<1>5. NumberOf(r) = NumberOf(h) * n
  BY <1>2, <1>3, <1>4
<1> QED
  BY <1>1, <1>5 DEF r

LEMMA ValueDifference ==
  ASSUME NEW f \in [Limbs -> Int], NEW g \in [Limbs -> Int]
  PROVE  NumberOf(Difference(f, g)) = NumberOf(f) - NumberOf(g)
<1> DEFINE d == Difference(f, g)
<1>1. d \in [Limbs -> Int] /\ f = Sum(d, g)
  <2>1. d \in [Limbs -> Int]
    BY DEF Difference
  <2>2. \A k \in Limbs : f[k] = d[k] + g[k]
    BY DEF Difference
  <2>3. f = [k \in Limbs |-> f[k]]
    OBVIOUS
  <2> HIDE DEF d
  <2> QED
    BY <2>1, <2>2, <2>3 DEF Sum
<1> HIDE DEF d
<1>2. NumberOf(f) = NumberOf(d) + NumberOf(g)
  BY <1>1, ValueSum
<1>3. NumberOf(f) \in Int /\ NumberOf(d) \in Int /\ NumberOf(g) \in Int
  BY <1>1, ValueInt
<1> QED
  BY <1>2, <1>3 DEF d

(* The number 32 bytes stand for, by the loads at 0, 4, 7, ... 29. *)
TextValue(s) ==
  s[0] + 4294967296 * s[1] + 72057594037927936 * s[2]
    + 1208925819614629174706176 * s[3] + 20282409603651670423947251286016 * s[4]
    + 340282366920938463463374607431768211456 * s[5]
    + 1461501637330902918203684832716283019655932542976 * s[6]
    + 24519928653854221733733552434404946937899825954937634816 * s[7]
    + 411376139330301510538742295639337626245683966408394965837152256 * s[8]
    + 6901746346790563787434755862277025452451108972170386555162524223799296 * (s[9] % 8388608)

LEMMA ValueLoaded ==
  ASSUME RealField, NEW s \in Texts
  PROVE  NumberOf(Loaded(s)) = TextValue(s)
<1> DEFINE r == Loaded(s)
           x == s[9] % 8388608
<1>1. \A i \in Limbs : s[i] \in Nat
  BY DEF RealField
<1>2. Size[9] = 33554432 /\ Shift[9] = 4
  BY DEF RealField, Whole, Limbs
<1>3. WithoutTopBit(s[9]) = x
  BY <1>2 DEF WithoutTopBit
<1>4. /\ r[0] = s[0] * 1 /\ r[1] = s[1] * 64 /\ r[2] = s[2] * 32
      /\ r[3] = s[3] * 8 /\ r[4] = s[4] * 4 /\ r[5] = s[5] * 1
      /\ r[6] = s[6] * 128 /\ r[7] = s[7] * 32 /\ r[8] = s[8] * 16
      /\ r[9] = x * 4
  BY <1>3 DEF Loaded, RealField, Limbs
<1>5. /\ s[0] \in Int /\ s[1] \in Int /\ s[2] \in Int /\ s[3] \in Int /\ s[4] \in Int
      /\ s[5] \in Int /\ s[6] \in Int /\ s[7] \in Int /\ s[8] \in Int /\ x \in Int
  BY <1>1 DEF Limbs
<1> HIDE DEF r, x
<1>6. NumberOf(r) = TextValue(s)
  BY <1>4, <1>5 DEF NumberOf, TextValue, x
<1> QED
  BY <1>6 DEF r

-----------------------------------------------------------------------------
(* The numbers mod a factor of the modulus.                                *)

(* The factors are any numbers the modulus is a multiple of, itself among  *)
(* them if one likes.                                                      *)
RealFactors == \A m \in Factors : m \in Nat \ {0} /\ Modulus % m = 0

(* x above a limb of the given size. *)
Above(x, size, r) == x * size + r

LEMMA FoldUp ==
  ASSUME NEW m \in Nat \ {0}, NEW x \in Int, NEW s \in Int, NEW y \in Int
  PROVE  Above(x, s, y) \in Int /\ Above(x % m, s, y) % m = Above(x, s, y) % m
<1>1. (s * (x % m) + y) % m = (s * x + y) % m
  BY ModProduct
<1>2. (x % m) \in Int
  BY ModSplits
<1> DEFINE r == x % m
<1> HIDE DEF r
<1>3. s * r = r * s /\ s * x = x * s /\ x * s + y \in Int
  BY <1>2 DEF r
<1> QED
  BY <1>1, <1>3 DEF r, Above

LEMMA ModIsValue ==
  ASSUME RealField, NEW h \in [Limbs -> Int], NEW m \in Nat \ {0}
  PROVE  Mod(h, m) = NumberOf(h) % m
<1> DEFINE on(high, i) == Above(high, Size[i], h[i]) % m
           x9 == h[9]
           x8 == Above(x9, Size[8], h[8])
           x7 == Above(x8, Size[7], h[7])
           x6 == Above(x7, Size[6], h[6])
           x5 == Above(x6, Size[5], h[5])
           x4 == Above(x5, Size[4], h[4])
           x3 == Above(x4, Size[3], h[3])
           x2 == Above(x3, Size[2], h[2])
           x1 == Above(x2, Size[1], h[1])
           x0 == Above(x1, Size[0], h[0])
<1>1. /\ \A i \in Limbs : h[i] \in Int /\ Size[i] \in Int
      /\ Mod(h, m) = on(on(on(on(on(on(on(on(on(x9 % m, 8), 7), 6), 5), 4), 3), 2), 1), 0)
  BY DEF Mod, Above, RealField, Whole
<1>2. /\ Size[0] = 67108864 /\ Size[1] = 33554432 /\ Size[2] = 67108864
      /\ Size[3] = 33554432 /\ Size[4] = 67108864 /\ Size[5] = 33554432
      /\ Size[6] = 67108864 /\ Size[7] = 33554432 /\ Size[8] = 67108864
  BY DEF RealField, Whole, Limbs
<1>3. x0 = NumberOf(h)
  <2> DEFINE a0 == h[0]
             a1 == h[1]
             a2 == h[2]
             a3 == h[3]
             a4 == h[4]
             a5 == h[5]
             a6 == h[6]
             a7 == h[7]
             a8 == h[8]
             a9 == h[9]
  <2>1. /\ a0 \in Int /\ a1 \in Int /\ a2 \in Int /\ a3 \in Int /\ a4 \in Int
        /\ a5 \in Int /\ a6 \in Int /\ a7 \in Int /\ a8 \in Int /\ a9 \in Int
    BY <1>1 DEF Limbs
  <2> HIDE DEF x0, x1, x2, x3, x4, x5, x6, x7, x8
  <2>2. /\ x8 = a9 * 67108864 + a8 /\ x7 = x8 * 33554432 + a7
        /\ x6 = x7 * 67108864 + a6 /\ x5 = x6 * 33554432 + a5
        /\ x4 = x5 * 67108864 + a4 /\ x3 = x4 * 33554432 + a3
        /\ x2 = x3 * 67108864 + a2 /\ x1 = x2 * 33554432 + a1
        /\ x0 = x1 * 67108864 + a0
    <3>1. x8 = a9 * 67108864 + a8
      BY <1>2 DEF Above, x8
    <3>2. x7 = x8 * 33554432 + a7
      BY <1>2 DEF Above, x7
    <3>3. x6 = x7 * 67108864 + a6
      BY <1>2 DEF Above, x6
    <3>4. x5 = x6 * 33554432 + a5
      BY <1>2 DEF Above, x5
    <3>5. x4 = x5 * 67108864 + a4
      BY <1>2 DEF Above, x4
    <3>6. x3 = x4 * 33554432 + a3
      BY <1>2 DEF Above, x3
    <3>7. x2 = x3 * 67108864 + a2
      BY <1>2 DEF Above, x2
    <3>8. x1 = x2 * 33554432 + a1
      BY <1>2 DEF Above, x1
    <3>9. x0 = x1 * 67108864 + a0
      BY <1>2 DEF Above, x0
    <3> QED
      BY <3>1, <3>2, <3>3, <3>4, <3>5, <3>6, <3>7, <3>8, <3>9
  <2>3. NumberOf(h)
          = a0 + 67108864 * a1 + 2251799813685248 * a2 + 151115727451828646838272 * a3
            + 5070602400912917605986812821504 * a4 + 340282366920938463463374607431768211456 * a5
            + 11417981541647679048466287755595961091061972992 * a6
            + 766247770432944429179173513575154591809369561091801088 * a7
            + 25711008708143844408671393477458601640355247900524685364822016 * a8
            + 1725436586697640946858688965569256363112777243042596638790631055949824 * a9
    BY DEF NumberOf
  <2> HIDE DEF a0, a1, a2, a3, a4, a5, a6, a7, a8, a9
  <2>4. x8 = a8 + 67108864 * a9
    BY <2>1, <2>2
  <2>5. x7 = a7 + 33554432 * a8 + 2251799813685248 * a9
    BY <2>1, <2>2, <2>4
  <2>6. x6 = a6 + 67108864 * a7 + 2251799813685248 * a8 + 151115727451828646838272 * a9
    BY <2>1, <2>2, <2>5
  <2>7. x5 = a5 + 33554432 * a6 + 2251799813685248 * a7 + 75557863725914323419136 * a8
            + 5070602400912917605986812821504 * a9
    BY <2>1, <2>2, <2>6
  <2>8. x4 = a4 + 67108864 * a5 + 2251799813685248 * a6 + 151115727451828646838272 * a7
            + 5070602400912917605986812821504 * a8 + 340282366920938463463374607431768211456 * a9
    BY <2>1, <2>2, <2>7
  <2>9. x3 = a3 + 33554432 * a4 + 2251799813685248 * a5 + 75557863725914323419136 * a6
            + 5070602400912917605986812821504 * a7 + 170141183460469231731687303715884105728 * a8
            + 11417981541647679048466287755595961091061972992 * a9
    BY <2>1, <2>2, <2>8
  <2>10. x2 = a2 + 67108864 * a3 + 2251799813685248 * a4 + 151115727451828646838272 * a5
            + 5070602400912917605986812821504 * a6 + 340282366920938463463374607431768211456 * a7
            + 11417981541647679048466287755595961091061972992 * a8
            + 766247770432944429179173513575154591809369561091801088 * a9
    BY <2>1, <2>2, <2>9
  <2>11. x1 = a1 + 33554432 * a2 + 2251799813685248 * a3 + 75557863725914323419136 * a4
            + 5070602400912917605986812821504 * a5 + 170141183460469231731687303715884105728 * a6
            + 11417981541647679048466287755595961091061972992 * a7
            + 383123885216472214589586756787577295904684780545900544 * a8
            + 25711008708143844408671393477458601640355247900524685364822016 * a9
    BY <2>1, <2>2, <2>10
  <2>12. x0 = a0 + 67108864 * a1 + 2251799813685248 * a2 + 151115727451828646838272 * a3
            + 5070602400912917605986812821504 * a4 + 340282366920938463463374607431768211456 * a5
            + 11417981541647679048466287755595961091061972992 * a6
            + 766247770432944429179173513575154591809369561091801088 * a7
            + 25711008708143844408671393477458601640355247900524685364822016 * a8
            + 1725436586697640946858688965569256363112777243042596638790631055949824 * a9
    BY <2>1, <2>2, <2>11
  <2> QED
    BY <2>3, <2>12
<1>4. ASSUME NEW i \in Limbs, NEW x \in Int
      PROVE  Above(x, Size[i], h[i]) \in Int /\ on(x % m, i) = Above(x, Size[i], h[i]) % m
  BY <1>1, FoldUp, Zenon
<1>5. 0 \in Limbs /\ 1 \in Limbs /\ 2 \in Limbs /\ 3 \in Limbs /\ 4 \in Limbs
      /\ 5 \in Limbs /\ 6 \in Limbs /\ 7 \in Limbs /\ 8 \in Limbs /\ 9 \in Limbs
  BY DEF Limbs
<1> HIDE DEF on, x0, x1, x2, x3, x4, x5, x6, x7, x8
<1>6. x9 \in Int
  BY <1>1, <1>5
<1> HIDE DEF x9
<1>7. x8 \in Int /\ on(x9 % m, 8) = x8 % m
  BY <1>4, <1>5, <1>6, Zenon DEF x8
<1>8. x7 \in Int /\ on(x8 % m, 7) = x7 % m
  BY <1>4, <1>5, <1>7, Zenon DEF x7
<1>9. x6 \in Int /\ on(x7 % m, 6) = x6 % m
  BY <1>4, <1>5, <1>8, Zenon DEF x6
<1>10. x5 \in Int /\ on(x6 % m, 5) = x5 % m
  BY <1>4, <1>5, <1>9, Zenon DEF x5
<1>11. x4 \in Int /\ on(x5 % m, 4) = x4 % m
  BY <1>4, <1>5, <1>10, Zenon DEF x4
<1>12. x3 \in Int /\ on(x4 % m, 3) = x3 % m
  BY <1>4, <1>5, <1>11, Zenon DEF x3
<1>13. x2 \in Int /\ on(x3 % m, 2) = x2 % m
  BY <1>4, <1>5, <1>12, Zenon DEF x2
<1>14. x1 \in Int /\ on(x2 % m, 1) = x1 % m
  BY <1>4, <1>5, <1>13, Zenon DEF x1
<1>15. x0 \in Int /\ on(x1 % m, 0) = x0 % m
  BY <1>4, <1>5, <1>14, Zenon DEF x0
<1>16. Mod(h, m) = x0 % m
  BY <1>1, <1>7, <1>8, <1>9, <1>10, <1>11, <1>12, <1>13, <1>14, <1>15, Zenon
<1> QED
  BY <1>3, <1>16, Zenon

(* The number a text stands for, mod a factor. *)
LEMMA TextMeaningIsValue ==
  ASSUME RealField, RealFactors, NEW s \in Texts
  PROVE  TextMeaning(s) = [m \in Factors |-> TextValue(s) % m]
<1> DEFINE top == s[9] % 8388608
           on(m, high, i) == (high * LoadSize(i) + s[i]) % m
           all(m) == on(m, on(m, on(m, on(m, on(m, on(m, on(m, on(m, on(m,
                       top % m, 8), 7), 6), 5), 4), 3), 2), 1), 0)
           x9 == top
           x8 == Above(x9, LoadSize(8), s[8])
           x7 == Above(x8, LoadSize(7), s[7])
           x6 == Above(x7, LoadSize(6), s[6])
           x5 == Above(x6, LoadSize(5), s[5])
           x4 == Above(x5, LoadSize(4), s[4])
           x3 == Above(x4, LoadSize(3), s[3])
           x2 == Above(x3, LoadSize(2), s[2])
           x1 == Above(x2, LoadSize(1), s[1])
           x0 == Above(x1, LoadSize(0), s[0])
<1>1. /\ \A i \in Limbs : s[i] \in Int
      /\ top \in Int
  BY DEF RealField, Limbs
<1>2. TextMeaning(s) = [m \in Factors |-> all(m)]
  <2>1. Size[9] = 33554432 /\ Shift[9] = 4
    BY DEF RealField, Whole, Limbs
  <2>2. WithoutTopBit(s[9]) = top
    BY <2>1 DEF WithoutTopBit
  <2> QED
    BY <2>2 DEF TextMeaning, Each
<1>3. /\ LoadSize(0) = 4294967296 /\ LoadSize(1) = 16777216 /\ LoadSize(2) = 16777216
      /\ LoadSize(3) = 16777216 /\ LoadSize(4) = 16777216 /\ LoadSize(5) = 4294967296
      /\ LoadSize(6) = 16777216 /\ LoadSize(7) = 16777216 /\ LoadSize(8) = 16777216
  <2>1. /\ Size[0] = 67108864 /\ Size[1] = 33554432 /\ Size[2] = 67108864
        /\ Size[3] = 33554432 /\ Size[4] = 67108864 /\ Size[5] = 33554432
        /\ Size[6] = 67108864 /\ Size[7] = 33554432 /\ Size[8] = 67108864
    BY DEF RealField, Whole, Limbs
  <2>2. /\ Shift[0] = 1 /\ Shift[1] = 64 /\ Shift[2] = 32 /\ Shift[3] = 8 /\ Shift[4] = 4
        /\ Shift[5] = 1 /\ Shift[6] = 128 /\ Shift[7] = 32 /\ Shift[8] = 16 /\ Shift[9] = 4
    BY DEF RealField, Limbs
  <2> QED
    BY <2>1, <2>2 DEF LoadSize
<1>4. x0 = TextValue(s)
  <2> DEFINE a0 == s[0]
             a1 == s[1]
             a2 == s[2]
             a3 == s[3]
             a4 == s[4]
             a5 == s[5]
             a6 == s[6]
             a7 == s[7]
             a8 == s[8]
             a9 == top
  <2>1. /\ a0 \in Int /\ a1 \in Int /\ a2 \in Int /\ a3 \in Int /\ a4 \in Int
        /\ a5 \in Int /\ a6 \in Int /\ a7 \in Int /\ a8 \in Int /\ a9 \in Int
    BY <1>1 DEF Limbs
  <2> HIDE DEF x0, x1, x2, x3, x4, x5, x6, x7, x8
  <2>2. /\ x8 = a9 * 16777216 + a8 /\ x7 = x8 * 16777216 + a7
        /\ x6 = x7 * 16777216 + a6 /\ x5 = x6 * 4294967296 + a5
        /\ x4 = x5 * 16777216 + a4 /\ x3 = x4 * 16777216 + a3
        /\ x2 = x3 * 16777216 + a2 /\ x1 = x2 * 16777216 + a1
        /\ x0 = x1 * 4294967296 + a0
    <3>1. x8 = a9 * 16777216 + a8
      BY <1>3 DEF Above, x8
    <3>2. x7 = x8 * 16777216 + a7
      BY <1>3 DEF Above, x7
    <3>3. x6 = x7 * 16777216 + a6
      BY <1>3 DEF Above, x6
    <3>4. x5 = x6 * 4294967296 + a5
      BY <1>3 DEF Above, x5
    <3>5. x4 = x5 * 16777216 + a4
      BY <1>3 DEF Above, x4
    <3>6. x3 = x4 * 16777216 + a3
      BY <1>3 DEF Above, x3
    <3>7. x2 = x3 * 16777216 + a2
      BY <1>3 DEF Above, x2
    <3>8. x1 = x2 * 16777216 + a1
      BY <1>3 DEF Above, x1
    <3>9. x0 = x1 * 4294967296 + a0
      BY <1>3 DEF Above, x0
    <3> QED
      BY <3>1, <3>2, <3>3, <3>4, <3>5, <3>6, <3>7, <3>8, <3>9
  <2>3. TextValue(s)
          = a0 + 4294967296 * a1 + 72057594037927936 * a2 + 1208925819614629174706176 * a3
            + 20282409603651670423947251286016 * a4 + 340282366920938463463374607431768211456 * a5
            + 1461501637330902918203684832716283019655932542976 * a6
            + 24519928653854221733733552434404946937899825954937634816 * a7
            + 411376139330301510538742295639337626245683966408394965837152256 * a8
            + 6901746346790563787434755862277025452451108972170386555162524223799296 * a9
    BY DEF TextValue
  <2> HIDE DEF a0, a1, a2, a3, a4, a5, a6, a7, a8, a9
  <2>4. x8 = a8 + 16777216 * a9
    BY <2>1, <2>2
  <2>5. x7 = a7 + 16777216 * a8 + 281474976710656 * a9
    BY <2>1, <2>2, <2>4
  <2>6. x6 = a6 + 16777216 * a7 + 281474976710656 * a8 + 4722366482869645213696 * a9
    BY <2>1, <2>2, <2>5
  <2>7. x5 = a5 + 4294967296 * a6 + 72057594037927936 * a7 + 1208925819614629174706176 * a8
            + 20282409603651670423947251286016 * a9
    BY <2>1, <2>2, <2>6
  <2>8. x4 = a4 + 16777216 * a5 + 72057594037927936 * a6 + 1208925819614629174706176 * a7
            + 20282409603651670423947251286016 * a8 + 340282366920938463463374607431768211456 * a9
    BY <2>1, <2>2, <2>7
  <2>9. x3 = a3 + 16777216 * a4 + 281474976710656 * a5 + 1208925819614629174706176 * a6
            + 20282409603651670423947251286016 * a7 + 340282366920938463463374607431768211456 * a8
            + 5708990770823839524233143877797980545530986496 * a9
    BY <2>1, <2>2, <2>8
  <2>10. x2 = a2 + 16777216 * a3 + 281474976710656 * a4 + 4722366482869645213696 * a5
            + 20282409603651670423947251286016 * a6 + 340282366920938463463374607431768211456 * a7
            + 5708990770823839524233143877797980545530986496 * a8
            + 95780971304118053647396689196894323976171195136475136 * a9
    BY <2>1, <2>2, <2>9
  <2>11. x1 = a1 + 16777216 * a2 + 281474976710656 * a3 + 4722366482869645213696 * a4
            + 79228162514264337593543950336 * a5 + 340282366920938463463374607431768211456 * a6
            + 5708990770823839524233143877797980545530986496 * a7
            + 95780971304118053647396689196894323976171195136475136 * a8
            + 1606938044258990275541962092341162602522202993782792835301376 * a9
    BY <2>1, <2>2, <2>10
  <2>12. x0 = a0 + 4294967296 * a1 + 72057594037927936 * a2 + 1208925819614629174706176 * a3
            + 20282409603651670423947251286016 * a4 + 340282366920938463463374607431768211456 * a5
            + 1461501637330902918203684832716283019655932542976 * a6
            + 24519928653854221733733552434404946937899825954937634816 * a7
            + 411376139330301510538742295639337626245683966408394965837152256 * a8
            + 6901746346790563787434755862277025452451108972170386555162524223799296 * a9
    BY <2>1, <2>2, <2>11
  <2> QED
    BY <2>3, <2>12
<1>5. ASSUME NEW m \in Factors, NEW i \in 0..8, NEW x \in Int
      PROVE  /\ Above(x, LoadSize(i), s[i]) \in Int
             /\ on(m, x % m, i) = Above(x, LoadSize(i), s[i]) % m
  <2>1. m \in Nat \ {0}
    BY DEF RealFactors
  <2>2. s[i] \in Int
    BY <1>1 DEF Limbs
  <2>3. LoadSize(i) \in Int
    BY <1>3
  <2>4. /\ Above(x, LoadSize(i), s[i]) \in Int
        /\ Above(x % m, LoadSize(i), s[i]) % m = Above(x, LoadSize(i), s[i]) % m
    BY <2>1, <2>2, <2>3, FoldUp, Zenon
  <2> QED
    BY <2>4 DEF Above
<1>6. 0 \in 0..8 /\ 1 \in 0..8 /\ 2 \in 0..8 /\ 3 \in 0..8 /\ 4 \in 0..8
      /\ 5 \in 0..8 /\ 6 \in 0..8 /\ 7 \in 0..8 /\ 8 \in 0..8
  OBVIOUS
<1>7. x9 \in Int
  BY <1>1
<1> HIDE DEF on, x0, x1, x2, x3, x4, x5, x6, x7, x8
<1>8. ASSUME NEW m \in Factors PROVE all(m) = x0 % m
  <2>1. all(m) = on(m, on(m, on(m, on(m, on(m, on(m, on(m, on(m, on(m,
                   x9 % m, 8), 7), 6), 5), 4), 3), 2), 1), 0)
    OBVIOUS
  <2> HIDE DEF x9, all
  <2>2. x8 \in Int /\ on(m, x9 % m, 8) = x8 % m
    BY <1>5, <1>6, <1>7, Zenon DEF x8
  <2>3. x7 \in Int /\ on(m, x8 % m, 7) = x7 % m
    BY <1>5, <1>6, <2>2, Zenon DEF x7
  <2>4. x6 \in Int /\ on(m, x7 % m, 6) = x6 % m
    BY <1>5, <1>6, <2>3, Zenon DEF x6
  <2>5. x5 \in Int /\ on(m, x6 % m, 5) = x5 % m
    BY <1>5, <1>6, <2>4, Zenon DEF x5
  <2>6. x4 \in Int /\ on(m, x5 % m, 4) = x4 % m
    BY <1>5, <1>6, <2>5, Zenon DEF x4
  <2>7. x3 \in Int /\ on(m, x4 % m, 3) = x3 % m
    BY <1>5, <1>6, <2>6, Zenon DEF x3
  <2>8. x2 \in Int /\ on(m, x3 % m, 2) = x2 % m
    BY <1>5, <1>6, <2>7, Zenon DEF x2
  <2>9. x1 \in Int /\ on(m, x2 % m, 1) = x1 % m
    BY <1>5, <1>6, <2>8, Zenon DEF x1
  <2>10. x0 \in Int /\ on(m, x1 % m, 0) = x0 % m
    BY <1>5, <1>6, <2>9, Zenon DEF x0
  <2> QED
    BY <2>1, <2>2, <2>3, <2>4, <2>5, <2>6, <2>7, <2>8, <2>9, <2>10, Zenon
<1> HIDE DEF all
<1> QED
  BY <1>2, <1>4, <1>8

LEMMA CongruentMod ==
  ASSUME RealFactors, NEW m \in Factors, NEW x \in Int, NEW y \in Int, SameResidue(x, y)
  PROVE  x % m = y % m
<1> DEFINE e == Modulus \div m
<1>1. m \in Nat \ {0} /\ Modulus \in Int
  BY DEF RealFactors, Modulus
<1>2. e \in Int /\ Modulus = m * e
  <2>1. e \in Int /\ Modulus = m * e + (Modulus % m) /\ Modulus % m = 0
    BY <1>1, ModSplits, Zenon DEF RealFactors
  <2> HIDE DEF e
  <2> QED
    BY <1>1, <2>1
<1> HIDE DEF e
<1>3. PICK k \in Int : x - y = k * Modulus
  BY DEF SameResidue
<1> DEFINE d == e * k
<1>4. d \in Int /\ x = y + m * d
  <2>1. k * Modulus = m * (e * k)
    BY <1>1, <1>2, <1>3
  <2> QED
    BY <1>2, <1>3, <2>1
<1> HIDE DEF d
<1>5. (y + m * d) % m = y % m
  BY <1>1, <1>4, ModShift
<1> QED
  BY <1>4, <1>5

(* A factor of a product may be reduced first. *)
LEMMA ModFactor ==
  ASSUME NEW m \in Nat \ {0}, NEW x \in Int, NEW y \in Int
  PROVE  (x * (y % m)) % m = (x * y) % m
<1> DEFINE r == y % m
<1>1. r \in Int /\ (x * r + 0) % m = (x * y + 0) % m
  <2>1. r \in Int
    BY ModSplits
  <2>2. 0 \in Int
    OBVIOUS
  <2> QED
    BY <2>1, <2>2, ModProduct, Zenon
<1> HIDE DEF r
<1>2. x * r \in Int /\ x * y \in Int
  BY <1>1
<1>3. x * r + 0 = x * r /\ x * y + 0 = x * y
  BY <1>2
<1> QED
  BY <1>1, <1>3 DEF r

LEMMA TimesModIs ==
  ASSUME NEW m \in Nat \ {0}, NEW a \in Int, NEW b \in Int
  PROVE  TimesMod(a, b, m) = (a * b) % m
<1> DEFINE q == b \div 1000
           r == b % 1000
           x == a * q
           y == a * r
<1>1. q \in Int /\ r \in Int /\ b = 1000 * q + r
  OBVIOUS
<1>2. TimesMod(a, b, m) = Above(x % m, 1000, y) % m
  BY DEF TimesMod, Above
<1> HIDE DEF q, r
<1>3. x \in Int /\ y \in Int /\ a * b = 1000 * x + y
  <2>1. a * b = 1000 * (a * q) + a * r
    BY <1>1
  <2> QED
    BY <1>1, <2>1
<1> HIDE DEF x, y
<1>5. Above(x % m, 1000, y) % m = Above(x, 1000, y) % m
  <2> DEFINE k == 1000
  <2>1. k \in Int
    OBVIOUS
  <2> HIDE DEF k
  <2>2. Above(x % m, k, y) % m = Above(x, k, y) % m
    BY <1>3, <2>1, FoldUp, Zenon
  <2> QED
    BY <2>2 DEF k
<1>6. Above(x, 1000, y) = a * b
  BY <1>3 DEF Above
<1> QED
  BY <1>2, <1>5, <1>6

(* What FieldLimbs computes mod a factor, of numbers reduced already. *)
LEMMA ModArithmetic ==
  ASSUME NEW m \in Nat \ {0}, NEW x \in Int, NEW y \in Int
  PROVE  /\ ((x % m) + (y % m)) % m = (x + y) % m
         /\ ((x % m) - (y % m)) % m = (x - y) % m
         /\ (-(x % m)) % m = (-x) % m
         /\ TimesMod(x % m, y % m, m) = (x * y) % m
<1> DEFINE r == x % m
           s == y % m
           q == y \div m
           p == x \div m
<1>1. /\ r \in Int /\ s \in Int /\ p \in Int /\ q \in Int
      /\ x = m * p + r /\ y = m * q + s
  BY ModSplits
<1>2. (r + s) % m = (x + s) % m
  <2>1. s \in Int
    BY <1>1
  <2> HIDE DEF s
  <2> QED
    BY <2>1, ModSum
<1>3. (x * s) % m = (x * y) % m
  BY ModFactor
<1>4. (s * r) % m = (s * x) % m
  <2>1. s \in Int
    BY <1>1
  <2> HIDE DEF s
  <2> QED
    BY <2>1, ModFactor
<1>5. TimesMod(r, s, m) = (r * s) % m
  BY <1>1, TimesModIs
<1> HIDE DEF p, q, r, s
<1>6. /\ x + y = (x + s) + m * q
      /\ x - y = (r - s) + m * (p - q)
      /\ -x = -r + m * (-p)
  BY <1>1
<1>7. ((x + s) + m * q) % m = (x + s) % m
  <2>1. x + s \in Int
    BY <1>1
  <2> QED
    BY <1>1, <2>1, ModShift
<1>8. ((r - s) + m * (p - q)) % m = (r - s) % m
  <2>1. r - s \in Int /\ p - q \in Int
    BY <1>1
  <2> QED
    BY <2>1, ModShift, Zenon
<1>9. (-r + m * (-p)) % m = (-r) % m
  <2>1. -r \in Int /\ -p \in Int
    BY <1>1
  <2> QED
    BY <2>1, ModShift, Zenon
<1>10. s * r = r * s /\ s * x = x * s
  BY <1>1
<1>11. TimesMod(r, s, m) = (x * y) % m
  BY <1>3, <1>4, <1>5, <1>10
<1>12. (r + s) % m = (x + y) % m /\ (r - s) % m = (x - y) % m /\ (-r) % m = (-x) % m
  BY <1>2, <1>6, <1>7, <1>8, <1>9
<1> QED
  BY <1>11, <1>12 DEF r, s

-----------------------------------------------------------------------------
(* Every function computes the number it promises.                         *)

Remainders(n) == [m \in Factors |-> n % m]

LEMMA MeaningIs ==
  ASSUME RealField, RealFactors, NEW h \in [Limbs -> Int]
  PROVE  Meaning(h) = Remainders(NumberOf(h))
<1>1. ASSUME NEW m \in Factors PROVE Mod(h, m) = NumberOf(h) % m
  BY ModIsValue, Zenon DEF RealFactors
<1> QED
  BY <1>1 DEF Meaning, Each, Remainders

LEMMA KeptDirect ==
  ASSUME NumberKept, NEW h, NEW m, NEW b, Direct(h, m, b), Meaning(h) = m
  PROVE  NumberKept'
<1>1. regF'.limbs = h /\ regF'.meaning = m /\ UNCHANGED <<regG, work, doing>>
  BY Elements DEF Direct
<1> QED
  BY <1>1 DEF NumberKept, Meaning, Each, Mod

LEMMA KeptBegin ==
  ASSUME NumberKept, NEW h, NEW m, NEW what, NEW carries, Begin(h, m, what, carries),
         Meaning(h) = m
  PROVE  NumberKept'
<1>1. work'.limbs = h /\ work'.meaning = m /\ UNCHANGED <<regF, regG>>
  BY Elements DEF Begin
<1> QED
  BY <1>1 DEF NumberKept, Meaning, Each, Mod

(* The operands, and what their meanings are. *)
LEMMA OperandMeaning ==
  ASSUME RealField, RealFactors, LimbInv, NumberKept
  PROVE  /\ regF.limbs \in [Limbs -> Int] /\ NumberOf(regF.limbs) \in Int
         /\ regF.meaning = Remainders(NumberOf(regF.limbs))
         /\ regG.limbs \in [Limbs -> Int] /\ NumberOf(regG.limbs) \in Int
         /\ regG.meaning = Remainders(NumberOf(regG.limbs))
<1>1. regF.limbs \in [Limbs -> Int] /\ regG.limbs \in [Limbs -> Int]
  BY OperandsOK DEF Bounded
<1> QED
  BY <1>1, ValueInt, MeaningIs DEF NumberKept

LEMMA ValueOpposite ==
  ASSUME NEW h \in [Limbs -> Int]
  PROVE  Opposite(h) \in [Limbs -> Int] /\ NumberOf(Opposite(h)) = -NumberOf(h)
<1> DEFINE z == Difference(Constant(0), h)
<1>1. Constant(0) \in [Limbs -> Int] /\ NumberOf(Constant(0)) = 0
  BY DEF Constant, NumberOf, Limbs
<1>2. Opposite(h) = z
  BY DEF Opposite, Difference, Constant
<1>3. z \in [Limbs -> Int]
  BY <1>1 DEF Difference
<1>4. NumberOf(z) = NumberOf(Constant(0)) - NumberOf(h)
  BY <1>1, ValueDifference
<1> HIDE DEF z
<1> QED
  BY <1>1, <1>2, <1>3, <1>4, ValueInt

LEMMA KeptAddSubNeg ==
  ASSUME RealField, RealFactors, LimbInv, NumberKept, FeAddLimbs \/ FeSubLimbs \/ FeNegLimbs
  PROVE  NumberKept'
<1> DEFINE f == regF.limbs
           g == regG.limbs
           x == NumberOf(f)
           y == NumberOf(g)
<1>1. /\ f \in [Limbs -> Int] /\ x \in Int /\ regF.meaning = Remainders(x)
      /\ g \in [Limbs -> Int] /\ y \in Int /\ regG.meaning = Remainders(y)
  BY OperandMeaning
<1>2. /\ Sum(f, g) \in [Limbs -> Int] /\ NumberOf(Sum(f, g)) = x + y
      /\ Opposite(f) \in [Limbs -> Int] /\ NumberOf(Opposite(f)) = -x
  BY <1>1, ValueSum, ValueOpposite
<1>3. Difference(f, g) \in [Limbs -> Int] /\ NumberOf(Difference(f, g)) = x - y
  <2>1. Difference(f, g) \in [Limbs -> Int]
    BY <1>1 DEF Difference
  <2> QED
    BY <1>1, <2>1, ValueDifference
<1>4. /\ Meaning(Sum(f, g)) = Remainders(x + y)
      /\ Meaning(Difference(f, g)) = Remainders(x - y)
      /\ Meaning(Opposite(f)) = Remainders(-x)
  BY <1>2, <1>3, MeaningIs
<1> HIDE DEF f, g, x, y
<1>5. ASSUME NEW m \in Factors
      PROVE  /\ regF.meaning[m] = x % m /\ regG.meaning[m] = y % m
             /\ ((x % m) + (y % m)) % m = (x + y) % m
             /\ ((x % m) - (y % m)) % m = (x - y) % m
             /\ (-(x % m)) % m = (-x) % m
  <2>1. m \in Nat \ {0}
    BY DEF RealFactors
  <2>2. regF.meaning[m] = x % m /\ regG.meaning[m] = y % m
    BY <1>1 DEF Remainders
  <2> QED
    BY <1>1, <2>1, <2>2, ModArithmetic, Zenon
<1>6. CASE FeAddLimbs
  <2> DEFINE sum == [m \in Factors |-> (regF.meaning[m] + regG.meaning[m]) % m]
  <2>1. PICK b : Direct(Sum(f, g), sum, b)
    BY <1>6 DEF FeAddLimbs, Each, f, g
  <2>2. sum = Remainders(x + y)
    BY <1>5 DEF Remainders
  <2> QED
    BY <1>4, <2>1, <2>2, KeptDirect, Zenon
<1>7. CASE FeSubLimbs
  <2> DEFINE difference == [m \in Factors |-> (regF.meaning[m] - regG.meaning[m]) % m]
  <2>1. PICK b : Direct(Difference(f, g), difference, b)
    BY <1>7 DEF FeSubLimbs, Each, f, g
  <2>2. difference = Remainders(x - y)
    BY <1>5 DEF Remainders
  <2> QED
    BY <1>4, <2>1, <2>2, KeptDirect, Zenon
<1>8. CASE FeNegLimbs
  <2> DEFINE opposite == [m \in Factors |-> (-regF.meaning[m]) % m]
  <2>1. PICK b : Direct(Opposite(f), opposite, b)
    BY <1>8 DEF FeNegLimbs, Each, f
  <2>2. opposite = Remainders(-x)
    BY <1>5 DEF Remainders
  <2> QED
    BY <1>4, <2>1, <2>2, KeptDirect, Zenon
<1> QED
  BY <1>6, <1>7, <1>8

LEMMA KeptMove ==
  ASSUME NumberKept, FeCSwap \/ \E b \in 0..1 : FeCMov(b)
  PROVE  NumberKept'
<1>1. CASE FeCSwap
  BY <1>1 DEF FeCSwap, NumberKept, Call, Meaning, Each, Mod
<1>2. ASSUME NEW b \in 0..1, FeCMov(b)
      PROVE  NumberKept'
  <2>1. PICK e \in {regF, regG} : Direct(e.limbs, e.meaning, e.bound)
    BY <1>2 DEF FeCMov
  <2>2. Meaning(e.limbs) = e.meaning
    BY DEF NumberKept
  <2> QED
    BY <2>1, <2>2, KeptDirect
<1> QED
  BY <1>1, <1>2

LEMMA KeptProduct ==
  ASSUME RealField, RealFactors, LimbInv, NumberKept, FeMulLimbs \/ FeSqLimbs \/ FeSq2Limbs
  PROVE  NumberKept'
<1> DEFINE f == regF.limbs
           g == regG.limbs
           x == NumberOf(f)
           y == NumberOf(g)
           p == Product10(f, g)
           s == Square10(f)
           d == Scaled10(s, 2)
           vp == NumberOf(p)
           vs == NumberOf(s)
<1>1. /\ f \in [Limbs -> Int] /\ x \in Int /\ regF.meaning = Remainders(x)
      /\ g \in [Limbs -> Int] /\ y \in Int /\ regG.meaning = Remainders(y)
  BY OperandMeaning
<1>2. p \in [Limbs -> Int] /\ s \in [Limbs -> Int]
  BY OperandsOK, ProductBound, SquareBound
<1>3. d \in [Limbs -> Int] /\ NumberOf(d) = vs * 2
  <2>1. 2 \in Int
    OBVIOUS
  <2> HIDE DEF s
  <2> QED
    BY <1>2, <2>1, ValueScaled
<1>4. vp \in Int /\ vs \in Int
  BY <1>2, ValueInt
<1>5. SameResidue(x * y, vp) /\ SameResidue(x * x, vs)
  BY <1>1, ProductIsProduct, SquareIsSquare DEF RealField
<1>6. /\ Meaning(p) = Remainders(vp) /\ Meaning(s) = Remainders(vs)
      /\ Meaning(d) = Remainders(vs * 2)
  BY <1>2, <1>3, MeaningIs
<1> HIDE DEF f, g, x, y, p, s, d, vp, vs
<1>7. ASSUME NEW m \in Factors
      PROVE  /\ TimesMod(regF.meaning[m], regG.meaning[m], m) = vp % m
             /\ TimesMod(regF.meaning[m], regF.meaning[m], m) = vs % m
             /\ (1 * (vs % m)) % m = vs % m
             /\ (2 * (vs % m)) % m = (vs * 2) % m
  <2>1. m \in Nat \ {0} /\ 1 \in Int /\ 2 \in Int
    BY DEF RealFactors
  <2>2. regF.meaning[m] = x % m /\ regG.meaning[m] = y % m
    BY <1>1 DEF Remainders
  <2>3. /\ TimesMod(x % m, y % m, m) = (x * y) % m
        /\ TimesMod(x % m, x % m, m) = (x * x) % m
    BY <1>1, <2>1, ModArithmetic, Zenon
  <2>4. x * y \in Int /\ x * x \in Int
    BY <1>1
  <2>5. (x * y) % m = vp % m /\ (x * x) % m = vs % m
    BY <1>4, <1>5, <2>4, CongruentMod, Zenon
  <2>6. (1 * (vs % m)) % m = (1 * vs) % m /\ (2 * (vs % m)) % m = (2 * vs) % m
    BY <1>4, <2>1, ModFactor, Zenon
  <2>7. 1 * vs = vs /\ 2 * vs = vs * 2
    BY <1>4
  <2> QED
    BY <2>2, <2>3, <2>5, <2>6, <2>7, Zenon
<1>8. CASE FeMulLimbs
  <2> DEFINE n == [m \in Factors |-> TimesMod(regF.meaning[m], regG.meaning[m], m)]
  <2>1. Begin(p, n, "product", ProductCarries)
    BY <1>8 DEF FeMulLimbs, Each, f, g, p
  <2>2. n = Remainders(vp)
    BY <1>7, Zenon DEF Remainders
  <2> HIDE DEF n
  <2> QED
    BY <1>6, <2>1, <2>2, KeptBegin, Zenon
<1>9. CASE FeSqLimbs
  <2> DEFINE n == [m \in Factors |-> (1 * TimesMod(regF.meaning[m], regF.meaning[m], m)) % m]
  <2>1. Begin(s, n, "product", ProductCarries)
    BY <1>9 DEF FeSqLimbs, SquareMeaning, Each, f, s
  <2>2. n = Remainders(vs)
    BY <1>7, Zenon DEF Remainders
  <2> HIDE DEF n
  <2> QED
    BY <1>6, <2>1, <2>2, KeptBegin, Zenon
<1>10. CASE FeSq2Limbs
  <2> DEFINE n == [m \in Factors |-> (2 * TimesMod(regF.meaning[m], regF.meaning[m], m)) % m]
  <2>1. Begin(d, n, "product", ProductCarries)
    BY <1>10 DEF FeSq2Limbs, SquareMeaning, Each, f, s, d
  <2>2. n = Remainders(vs * 2)
    BY <1>7, Zenon DEF Remainders
  <2> HIDE DEF n
  <2> QED
    BY <1>6, <2>1, <2>2, KeptBegin, Zenon
<1> QED
  BY <1>8, <1>9, <1>10

LEMMA KeptLinear ==
  ASSUME RealField, RealFactors, LimbInv, NumberKept,
         FeMul121666 \/ \E s \in Texts : FeFromBytes(s)
  PROVE  NumberKept'
<1>1. CASE FeMul121666
  <2> DEFINE f == regF.limbs
             x == NumberOf(f)
             r == Scaled10(f, Small)
             n == [m \in Factors |-> TimesMod(regF.meaning[m], Small, m)]
  <2>1. f \in [Limbs -> Int] /\ x \in Int /\ regF.meaning = Remainders(x)
    BY OperandMeaning
  <2>2. Small \in Int
    BY DEF RealField
  <2>3. r \in [Limbs -> Int] /\ NumberOf(r) = x * Small
    BY <2>1, <2>2, ValueScaled
  <2>4. Meaning(r) = Remainders(x * Small)
    BY <2>3, MeaningIs
  <2>5. Begin(r, n, "linear", LinearCarries)
    BY <1>1 DEF FeMul121666, Each
  <2> HIDE DEF f, x, r
  <2>6. ASSUME NEW m \in Factors
        PROVE  TimesMod(regF.meaning[m], Small, m) = (x * Small) % m
    <3> DEFINE q == x % m
    <3>1. m \in Nat \ {0}
      BY DEF RealFactors
    <3>2. q \in Int
      BY <2>1, <3>1, ModSplits
    <3>3. regF.meaning[m] = q
      BY <2>1 DEF Remainders
    <3>4. (Small * q) % m = (Small * x) % m
      BY <2>1, <2>2, <3>1, ModFactor, Zenon
    <3> HIDE DEF q
    <3>5. TimesMod(q, Small, m) = (q * Small) % m
      BY <2>2, <3>1, <3>2, TimesModIs
    <3>6. q * Small = Small * q /\ x * Small = Small * x
      BY <2>1, <2>2, <3>2
    <3> QED
      BY <3>3, <3>4, <3>5, <3>6, Zenon
  <2>7. n = Remainders(x * Small)
    BY <2>6, Zenon DEF Remainders
  <2> HIDE DEF n
  <2> QED
    BY <2>4, <2>5, <2>7, KeptBegin, Zenon
<1>2. ASSUME NEW s \in Texts, FeFromBytes(s)
      PROVE  NumberKept'
  <2>1. Begin(Loaded(s), TextMeaning(s), "load", LinearCarries)
    BY <1>2 DEF FeFromBytes
  <2>2. NumberOf(Loaded(s)) = TextValue(s) /\ TextMeaning(s) = Remainders(TextValue(s))
    BY ValueLoaded, TextMeaningIsValue DEF Remainders
  <2>3. Loaded(s) \in [Limbs -> Int]
    <3>1. Loaded(s) = [i \in Limbs |-> Loaded(s)[i]]
      BY DEF Loaded
    <3>2. \A i \in Limbs : Loaded(s)[i] \in Int
      BY LoadBound
    <3> QED
      BY <3>1, <3>2
  <2>4. Meaning(Loaded(s)) = TextMeaning(s)
    BY <2>2, <2>3, MeaningIs
  <2> QED
    BY <2>1, <2>4, KeptBegin, Zenon
<1> QED
  BY <1>1, <1>2

LEMMA KeptCarry ==
  ASSUME RealField, RealFactors, LimbInv, NumberKept, CarryStep
  PROVE  NumberKept'
<1> DEFINE h == work.limbs
           i == Head(pending)
           r == Rounded(h, i)
<1>1. UNCHANGED <<regF, regG, doing>>
  BY DEF CarryStep
<1>2. CASE doing = "write"
  BY <1>1, <1>2 DEF NumberKept, Meaning, Each, Mod
<1>3. CASE doing # "write"
  <2>1. h \in [Limbs -> Int]
    BY DEF LimbInv
  <2>2. i \in Limbs
    <3>1. pending \in Seq(Limbs) /\ pending # <<>>
      BY <1>3 DEF LimbInv, IsRest, CarryStep
    <3> QED
      BY <3>1
  <2>3. work'.limbs = r /\ work'.meaning = work.meaning
    BY <1>3, Elements DEF CarryStep, LimbInv, Element
  <2>4. PICK c \in Int : IsCarried(r, h, i, c)
    BY <2>1, <2>2, RoundedCarries
  <2>5. r \in [Limbs -> Int]
    BY <2>4 DEF IsCarried
  <2> HIDE DEF r, h, i
  <2>6. NumberOf(r) = NumberOf(h) - (IF i = 9 THEN c * Modulus ELSE 0)
    BY <2>1, <2>2, <2>4, CarryKeeps
  <2>7. NumberOf(h) \in Int /\ NumberOf(r) \in Int
    BY <2>1, <2>5, ValueInt
  <2>8. SameResidue(NumberOf(h), NumberOf(r))
    <3>1. CASE i = 9
      <4>1. Modulus \in Int
        BY DEF Modulus
      <4>2. NumberOf(h) - NumberOf(r) = c * Modulus
        BY <2>4, <2>6, <2>7, <3>1, <4>1
      <4> QED
        BY <2>4, <4>2 DEF SameResidue
    <3>2. CASE i # 9
      <4>1. Modulus \in Int
        BY DEF Modulus
      <4>2. NumberOf(h) - NumberOf(r) = 0 * Modulus
        BY <2>6, <2>7, <3>2, <4>1
      <4> QED
        BY <4>2 DEF SameResidue
    <3> QED
      BY <3>1, <3>2
  <2>9. Meaning(r) = Meaning(h)
    <3>1. \A m \in Factors : NumberOf(h) % m = NumberOf(r) % m
      BY <2>7, <2>8, CongruentMod
    <3>2. Remainders(NumberOf(h)) = Remainders(NumberOf(r))
      BY <3>1 DEF Remainders
    <3> QED
      BY <2>1, <2>5, <3>2, MeaningIs
  <2>10. Meaning(h) = work.meaning
    BY <1>3 DEF NumberKept, h
  <2> QED
    BY <1>1, <1>3, <2>3, <2>9, <2>10 DEF NumberKept, Meaning, Each, Mod
<1> QED
  BY <1>2, <1>3

LEMMA KeptEnd ==
  ASSUME NumberKept, FeToBytes \/ Return
  PROVE  NumberKept'
BY DEF FeToBytes, Return, NumberKept, Meaning, Each, Mod

LEMMA NumberKeptKept ==
  ASSUME RealField, RealFactors, LimbInv, NumberKept, [FieldNext]_fieldVars
  PROVE  NumberKept'
<1>1. CASE UNCHANGED fieldVars
  BY <1>1 DEF fieldVars, NumberKept, Meaning, Each, Mod
<1>2. CASE FieldNext
  BY <1>2, KeptAddSubNeg, KeptMove, KeptProduct, KeptLinear, KeptEnd, KeptCarry DEF FieldNext
<1> QED
  BY <1>1, <1>2

(* Through every sum, product, square, load and carry, ten limbs stand for *)
(* the number the function promises: mod 2^255 - 19 when that is the       *)
(* factor, as in the code (fe.c:35-1357).                                  *)
THEOREM NumberKeptAlways == ASSUME RealField, RealFactors PROVE FieldSpec => []NumberKept
<1>1. FieldInit => LimbInv /\ NumberKept
  <2>1. FieldInit => NumberKept
    BY Elements DEF FieldInit, NumberKept
  <2> QED
    BY <2>1, InitLimbs
<1>2. LimbInv /\ NumberKept /\ [FieldNext]_fieldVars => (LimbInv /\ NumberKept)'
  BY LimbInvKept, NumberKeptKept
<1> QED
  BY <1>1, <1>2, PTL DEF FieldSpec

-----------------------------------------------------------------------------
(* The quotient of fe_tobytes, by the argument of fe.c's own comment       *)
(* (fe.c:1365-1383): the chain of shifts is the floor of                   *)
(*   (h + 19 (h9/2^25) + 1/2) / 2^255,                                     *)
(* and what rounding h9 and leaving out the limbs below it makes is less   *)
(* than the half.                                                          *)

(* 2^255; half of it occurs below as a numeral. *)
Power255 == 57896044618658097711785492504343953926634992332820282019728792003956564819968

LEMMA QuotientExact ==
  ASSUME RealField, NEW h, Bounded(h, 2)
  PROVE  /\ Quotient(h) \in Int
         /\ 0 <= NumberOf(h) - Quotient(h) * Modulus
         /\ NumberOf(h) - Quotient(h) * Modulus < Modulus
<1> DEFINE v == NumberOf(h)
           a0 == h[0]
           a1 == h[1]
           a2 == h[2]
           a3 == h[3]
           a4 == h[4]
           a5 == h[5]
           a6 == h[6]
           a7 == h[7]
           a8 == h[8]
           a9 == h[9]
           low == a0 + 67108864 * a1 + 2251799813685248 * a2 + 151115727451828646838272 * a3
                  + 5070602400912917605986812821504 * a4
                  + 340282366920938463463374607431768211456 * a5
                  + 11417981541647679048466287755595961091061972992 * a6
                  + 766247770432944429179173513575154591809369561091801088 * a7
                  + 25711008708143844408671393477458601640355247900524685364822016 * a8
           c == (19 * a9 + 16777216) \div 33554432
           d0 == (a0 + c) \div 67108864
           d1 == (a1 + d0) \div 33554432
           d2 == (a2 + d1) \div 67108864
           d3 == (a3 + d2) \div 33554432
           d4 == (a4 + d3) \div 67108864
           d5 == (a5 + d4) \div 33554432
           d6 == (a6 + d5) \div 67108864
           d7 == (a7 + d6) \div 33554432
           d8 == (a8 + d7) \div 67108864
           d9 == (a9 + d8) \div 33554432
           r0 == (a0 + c) % 67108864
           r1 == (a1 + d0) % 33554432
           r2 == (a2 + d1) % 67108864
           r3 == (a3 + d2) % 33554432
           r4 == (a4 + d3) % 67108864
           r5 == (a5 + d4) % 33554432
           r6 == (a6 + d5) % 67108864
           r7 == (a7 + d6) % 33554432
           r8 == (a8 + d7) % 67108864
           r9 == (a9 + d8) % 33554432
           r == r0 + 67108864 * r1 + 2251799813685248 * r2 + 151115727451828646838272 * r3
                + 5070602400912917605986812821504 * r4
                + 340282366920938463463374607431768211456 * r5
                + 11417981541647679048466287755595961091061972992 * r6
                + 766247770432944429179173513575154591809369561091801088 * r7
                + 25711008708143844408671393477458601640355247900524685364822016 * r8
                + 1725436586697640946858688965569256363112777243042596638790631055949824 * r9
           q == v \div Modulus
           rest == v % Modulus
<1>1. /\ a0 \in Int /\ a1 \in Int /\ a2 \in Int /\ a3 \in Int /\ a4 \in Int
      /\ a5 \in Int /\ a6 \in Int /\ a7 \in Int /\ a8 \in Int /\ a9 \in Int
      /\ IsBetween(a0, 67779952) /\ IsBetween(a1, 33889976) /\ IsBetween(a2, 67779952)
      /\ IsBetween(a3, 33889976) /\ IsBetween(a4, 67779952) /\ IsBetween(a5, 33889976)
      /\ IsBetween(a6, 67779952) /\ IsBetween(a7, 33889976) /\ IsBetween(a8, 67779952)
      /\ IsBetween(a9, 33889976)
  <2>1. \A i \in Limbs : h[i] \in Int /\ IsBetween(h[i], 2 * Unit(i))
    BY DEF Bounded
  <2>2. \A i \in Limbs : 2 * Unit(i) = IF i % 2 = 0 THEN 67779952 ELSE 33889976
    BY DEF Unit
  <2> QED
    BY <2>1, <2>2 DEF Limbs
<1>2. Quotient(h) = d9
  <2>1. Excess = 19 /\ Size[9] = 33554432 /\ Size[9] \div 2 = 16777216
    BY DEF RealField, Whole, Limbs
  <2>2. /\ Size[0] = 67108864 /\ Size[1] = 33554432 /\ Size[2] = 67108864
        /\ Size[3] = 33554432 /\ Size[4] = 67108864 /\ Size[5] = 33554432
        /\ Size[6] = 67108864 /\ Size[7] = 33554432 /\ Size[8] = 67108864
    BY DEF RealField, Whole, Limbs
  <2> QED
    BY <2>1, <2>2 DEF Quotient, CarryOut
<1>3. v = a0 + 67108864 * a1 + 2251799813685248 * a2 + 151115727451828646838272 * a3
          + 5070602400912917605986812821504 * a4 + 340282366920938463463374607431768211456 * a5
          + 11417981541647679048466287755595961091061972992 * a6
          + 766247770432944429179173513575154591809369561091801088 * a7
          + 25711008708143844408671393477458601640355247900524685364822016 * a8
          + 1725436586697640946858688965569256363112777243042596638790631055949824 * a9
  BY DEF NumberOf
<1> HIDE DEF v, a0, a1, a2, a3, a4, a5, a6, a7, a8, a9
<1>4. v \in Int
  BY <1>1, <1>3
<1>5. /\ c \in Int
      /\ 33554432 * c <= 19 * a9 + 16777216 /\ 19 * a9 + 16777216 < 33554432 * (c + 1)
  BY <1>1
<1> HIDE DEF c
<1>6. /\ d0 \in Int /\ r0 \in Int /\ 0 <= r0 /\ r0 <= 67108863
      /\ a0 + c = 67108864 * d0 + r0
  BY <1>1, <1>5
<1> HIDE DEF d0, r0
<1>7. /\ d1 \in Int /\ r1 \in Int /\ 0 <= r1 /\ r1 <= 33554431
      /\ a1 + d0 = 33554432 * d1 + r1
  BY <1>1, <1>6
<1> HIDE DEF d1, r1
<1>8. /\ d2 \in Int /\ r2 \in Int /\ 0 <= r2 /\ r2 <= 67108863
      /\ a2 + d1 = 67108864 * d2 + r2
  BY <1>1, <1>7
<1> HIDE DEF d2, r2
<1>9. /\ d3 \in Int /\ r3 \in Int /\ 0 <= r3 /\ r3 <= 33554431
      /\ a3 + d2 = 33554432 * d3 + r3
  BY <1>1, <1>8
<1> HIDE DEF d3, r3
<1>10. /\ d4 \in Int /\ r4 \in Int /\ 0 <= r4 /\ r4 <= 67108863
      /\ a4 + d3 = 67108864 * d4 + r4
  BY <1>1, <1>9
<1> HIDE DEF d4, r4
<1>11. /\ d5 \in Int /\ r5 \in Int /\ 0 <= r5 /\ r5 <= 33554431
      /\ a5 + d4 = 33554432 * d5 + r5
  BY <1>1, <1>10
<1> HIDE DEF d5, r5
<1>12. /\ d6 \in Int /\ r6 \in Int /\ 0 <= r6 /\ r6 <= 67108863
      /\ a6 + d5 = 67108864 * d6 + r6
  BY <1>1, <1>11
<1> HIDE DEF d6, r6
<1>13. /\ d7 \in Int /\ r7 \in Int /\ 0 <= r7 /\ r7 <= 33554431
      /\ a7 + d6 = 33554432 * d7 + r7
  BY <1>1, <1>12
<1> HIDE DEF d7, r7
<1>14. /\ d8 \in Int /\ r8 \in Int /\ 0 <= r8 /\ r8 <= 67108863
      /\ a8 + d7 = 67108864 * d8 + r8
  BY <1>1, <1>13
<1> HIDE DEF d8, r8
<1>15. /\ d9 \in Int /\ r9 \in Int /\ 0 <= r9 /\ r9 <= 33554431
      /\ a9 + d8 = 33554432 * d9 + r9
  BY <1>1, <1>14
<1> HIDE DEF d9, r9
<1>16. v + c = r + Power255 * d9
  <2>1. a0 + 67108864 * a1 + 2251799813685248 * a2 + 151115727451828646838272 * a3
           + 5070602400912917605986812821504 * a4 + 340282366920938463463374607431768211456 * a5
           + 11417981541647679048466287755595961091061972992 * a6
           + 766247770432944429179173513575154591809369561091801088 * a7
           + 25711008708143844408671393477458601640355247900524685364822016 * a8
           + 1725436586697640946858688965569256363112777243042596638790631055949824 * a9 + c
         = r + Power255 * d9
    BY <1>1, <1>5, <1>6, <1>7, <1>8, <1>9, <1>10, <1>11, <1>12, <1>13, <1>14, <1>15
       DEF Power255
  <2> QED
    BY <1>3, <2>1
<1>17. r \in Int /\ 0 <= r /\ r < Power255
  <2>1. /\ r0 \in Int /\ r1 \in Int /\ r2 \in Int /\ r3 \in Int /\ r4 \in Int
        /\ r5 \in Int /\ r6 \in Int /\ r7 \in Int /\ r8 \in Int /\ r9 \in Int
        /\ 0 <= r0 /\ 0 <= r1 /\ 0 <= r2 /\ 0 <= r3 /\ 0 <= r4
        /\ 0 <= r5 /\ 0 <= r6 /\ 0 <= r7 /\ 0 <= r8 /\ 0 <= r9
        /\ r0 <= 67108863 /\ r1 <= 33554431 /\ r2 <= 67108863 /\ r3 <= 33554431
        /\ r4 <= 67108863 /\ r5 <= 33554431 /\ r6 <= 67108863 /\ r7 <= 33554431
        /\ r8 <= 67108863 /\ r9 <= 33554431
    BY <1>6, <1>7, <1>8, <1>9, <1>10, <1>11, <1>12, <1>13, <1>14, <1>15
  <2> QED
    BY <2>1 DEF Power255
<1>18. low \in Int /\ IsBetween(low, 3450873173395281893717377931138512726225554486085193277581262111899648)
  BY <1>1 DEF IsBetween
<1>19. v = low + 1725436586697640946858688965569256363112777243042596638790631055949824 * a9
  BY <1>3
<1>20. /\ q \in Int /\ rest \in Int /\ v = Modulus * q + rest
       /\ 0 <= rest /\ rest < Modulus
  <2>1. Modulus \in Nat \ {0}
    BY DEF Modulus
  <2>2. q \in Int /\ rest \in 0..Modulus-1 /\ v = Modulus * q + rest
    BY <1>4, <2>1, ModSplits
  <2> QED
    BY <2>1, <2>2
<1> HIDE DEF low, r, q, rest
<1> DEFINE e == c - 19 * q
<1>21. d9 = q
  <2>1. e \in Int /\ c = e + 19 * q
    BY <1>5, <1>20
  <2> HIDE DEF e
  <2>2. -3 <= q /\ q <= 3
    BY <1>1, <1>18, <1>19, <1>20 DEF IsBetween, Modulus
  <2>3. /\ Power255 * c <=
             19 * (v - low) + 28948022309329048855892746252171976963317496166410141009864396001978282409984
        /\ 19 * (v - low) + 28948022309329048855892746252171976963317496166410141009864396001978282409984
             < Power255 * c + Power255
    BY <1>1, <1>5, <1>18, <1>19 DEF Power255
  <2>4. /\ Power255 * e <=
             19 * rest - 361 * q - 19 * low
               + 28948022309329048855892746252171976963317496166410141009864396001978282409984
        /\ 19 * rest - 361 * q - 19 * low
             + 28948022309329048855892746252171976963317496166410141009864396001978282409984
             < Power255 * e + Power255
    BY <1>4, <1>18, <1>20, <2>1, <2>3 DEF Power255, Modulus
  <2>5. e >= 0
    BY <1>18, <1>20, <2>1, <2>2, <2>4 DEF IsBetween, Power255, Modulus
  <2>6. e <= 19
    BY <1>18, <1>20, <2>1, <2>2, <2>4 DEF IsBetween, Power255, Modulus
  <2>7. r + Power255 * d9 = rest + e + Power255 * q
    BY <1>4, <1>5, <1>15, <1>16, <1>17, <1>20, <2>1 DEF Power255, Modulus
  <2>8. 0 <= rest + e /\ rest + e < Power255
    BY <1>20, <2>1, <2>5, <2>6 DEF Power255, Modulus
  <2> QED
    BY <1>15, <1>17, <1>20, <2>1, <2>7, <2>8 DEF Power255
<1>22. v - d9 * Modulus = rest
  <2>1. Modulus \in Int
    BY DEF Modulus
  <2> QED
    BY <1>20, <1>21, <2>1
<1> QED
  BY <1>2, <1>15, <1>20, <1>22 DEF v

(* While bytes are written, the limbs stand for the number plus Excess for *)
(* every modulus in it, and the last carry takes 2^255s away.              *)
WriteInv ==
  doing = "write" =>
    /\ regF.bound <= 2
    /\ LET n == NumberOf(regF.limbs) + 19 * Quotient(regF.limbs)
       IN \E c \in Int : /\ NumberOf(work.limbs) = n - c * Power255
                         /\ pending # <<>> => c = 0

LEMMA WriteBegins ==
  ASSUME RealField, LimbInv, FeToBytes
  PROVE  WriteInv'
<1> DEFINE f == regF.limbs
           q == Quotient(f)
           h == [f EXCEPT ![0] = @ + 19 * q]
<1>1. Bounded(f, 2) /\ regF.bound <= 2
  BY OperandsOK DEF FeToBytes, Writable
<1>2. q \in Int /\ f \in [Limbs -> Int]
  BY <1>1, QuotientExact DEF Bounded
<1>3. work'.limbs = h /\ UNCHANGED regF /\ pending' # <<>>
  BY Elements DEF FeToBytes, RealField, FinalCarries
<1>4. UNCHANGED Quotient(f)
  BY <1>3 DEF Quotient, CarryOut
<1> HIDE DEF q
<1>5. /\ h[0] = f[0] + 19 * q /\ h[1] = f[1] /\ h[2] = f[2] /\ h[3] = f[3] /\ h[4] = f[4]
      /\ h[5] = f[5] /\ h[6] = f[6] /\ h[7] = f[7] /\ h[8] = f[8] /\ h[9] = f[9]
  BY <1>2 DEF Limbs
<1>6. /\ f[0] \in Int /\ f[1] \in Int /\ f[2] \in Int /\ f[3] \in Int /\ f[4] \in Int
      /\ f[5] \in Int /\ f[6] \in Int /\ f[7] \in Int /\ f[8] \in Int /\ f[9] \in Int
  BY <1>2 DEF Limbs
<1> DEFINE g == h
<1> HIDE DEF h
<1>7. NumberOf(h) = NumberOf(f) + 19 * q
  BY <1>2, <1>5, <1>6 DEF NumberOf
<1>8. NumberOf(h) = (NumberOf(f) + 19 * q) - 0 * Power255
  <2>1. NumberOf(f) \in Int /\ Power255 \in Int
    BY <1>2, ValueInt DEF Power255
  <2> QED
    BY <1>2, <1>7, <2>1
<1>9. NumberOf(work'.limbs) = NumberOf(h) /\ NumberOf(regF'.limbs) = NumberOf(f)
      /\ Quotient(regF'.limbs) = q
  BY <1>3, <1>4 DEF q
<1> QED
  BY <1>1, <1>3, <1>8, <1>9 DEF WriteInv

(* fe_tobytes drops the carry out of the last limb. *)
LEMMA LastCarryDrops ==
  ASSUME RealField, NEW h \in [Limbs -> Int]
  PROVE  \E c \in Int : NumberOf(Floored(h, 9)) = NumberOf(h) - c * Power255
<1> DEFINE c == h[9] \div 33554432
           r == [h EXCEPT ![9] = @ - c * 33554432]
<1>1. Size[9] = 33554432
  BY DEF RealField, Whole, Limbs
<1>2. Floored(h, 9) = r
  BY <1>1 DEF Floored
<1>3. h[9] \in Int /\ c \in Int
  BY DEF Limbs
<1> HIDE DEF c
<1>4. /\ r[0] = h[0] /\ r[1] = h[1] /\ r[2] = h[2] /\ r[3] = h[3] /\ r[4] = h[4]
      /\ r[5] = h[5] /\ r[6] = h[6] /\ r[7] = h[7] /\ r[8] = h[8]
      /\ r[9] = h[9] - c * 33554432
  BY DEF Limbs
<1>5. /\ h[0] \in Int /\ h[1] \in Int /\ h[2] \in Int /\ h[3] \in Int /\ h[4] \in Int
      /\ h[5] \in Int /\ h[6] \in Int /\ h[7] \in Int /\ h[8] \in Int
  BY DEF Limbs
<1> HIDE DEF r
<1>6. NumberOf(r) = NumberOf(h) - c * Power255
  BY <1>3, <1>4, <1>5 DEF NumberOf, Power255
<1> QED
  BY <1>2, <1>3, <1>6

LEMMA OtherCarriesKeep ==
  ASSUME RealField, NEW h \in [Limbs -> Int], NEW i \in Limbs, i # 9
  PROVE  NumberOf(Floored(h, i)) = NumberOf(h)
<1> DEFINE c == h[i] \div Whole(i)
           r == Floored(h, i)
<1>1. Size[i] = Whole(i)
  BY DEF RealField
<1>2. r = [h EXCEPT ![i] = @ - c * Whole(i), ![i + 1] = @ + c]
  BY <1>1 DEF Floored
<1>3. c \in Int
  BY DEF Whole
<1> HIDE DEF r, c
<1>4. IsCarried(r, h, i, c)
  BY <1>2, <1>3 DEF IsCarried, After, Times, Limbs, Whole
<1>5. NumberOf(r) = NumberOf(h) - (IF i = 9 THEN c * Modulus ELSE 0)
  BY <1>3, <1>4, CarryKeeps
<1>6. NumberOf(h) \in Int
  BY ValueInt
<1> QED
  BY <1>5, <1>6 DEF r

LEMMA WriteCarries ==
  ASSUME RealField, LimbInv, WriteInv, CarryStep, doing = "write"
  PROVE  WriteInv'
<1> DEFINE h == work.limbs
           f == regF.limbs
           n == NumberOf(f) + 19 * Quotient(f)
           i == Head(pending)
<1>1. /\ work'.limbs = Floored(h, i) /\ pending' = Tail(pending) /\ pending # <<>>
      /\ UNCHANGED <<regF, doing>>
  BY Elements DEF CarryStep, LimbInv, Element
<1>2. h \in [Limbs -> Int]
  BY DEF LimbInv
<1>3. IsRest(pending, FinalCarries, 10)
  BY DEF LimbInv
<1>4. /\ Len(pending) \in 1..10 /\ i = FinalCarries[10 + 1 - Len(pending)]
      /\ Len(Tail(pending)) = Len(pending) - 1 /\ Tail(pending) \in Seq(Limbs)
  <2>1. /\ Len(pending) \in 1..10 /\ i = FinalCarries[10 + 1 - Len(pending)]
        /\ IsRest(Tail(pending), FinalCarries, 10) /\ Len(Tail(pending)) = Len(pending) - 1
    BY <1>1, <1>3, RestTail, Zenon
  <2> QED
    BY <2>1 DEF IsRest
<1>5. i \in Limbs /\ (i = 9 => Tail(pending) = <<>>)
  <2>1. i = 10 - Len(pending)
    <3>1. \A k \in 1..10 : FinalCarries[10 + 1 - k] = 10 - k
      BY DEF FinalCarries
    <3> QED
      BY <1>4, <3>1
  <2> QED
    BY <1>4, <2>1 DEF Limbs
<1>6. NumberOf(h) = n /\ regF.bound <= 2 /\ n \in Int
  <2>1. /\ regF.bound <= 2
        /\ \E c \in Int : NumberOf(h) = n - c * Power255 /\ c = 0
    BY <1>1 DEF WriteInv
  <2>2. NumberOf(f) \in Int /\ Quotient(f) \in Int
    BY <2>1, OperandsOK, ValueInt, QuotientExact DEF Bounded
  <2>3. n \in Int /\ Power255 \in Int
    BY <2>2 DEF Power255
  <2> HIDE DEF n
  <2>4. n - 0 * Power255 = n
    BY <2>3
  <2> QED
    BY <2>1, <2>3, <2>4
<1>7. UNCHANGED n
  BY <1>1 DEF NumberOf, Quotient, CarryOut
<1> HIDE DEF h, i
<1>8. \E c \in Int : /\ NumberOf(Floored(h, i)) = n - c * Power255
                     /\ Tail(pending) # <<>> => c = 0
  <2> HIDE DEF n
  <2>1. CASE i = 9
    BY <1>2, <1>5, <1>6, <2>1, LastCarryDrops
  <2>2. CASE i # 9
    <3>1. NumberOf(Floored(h, i)) = n
      BY <1>2, <1>5, <1>6, <2>2, OtherCarriesKeep
    <3>2. n = n - 0 * Power255
      BY <1>6 DEF Power255
    <3> QED
      BY <3>1, <3>2
  <2> QED
    BY <2>1, <2>2
<1>9. NumberOf(work'.limbs) = NumberOf(Floored(h, i))
  BY <1>1
<1> QED
  BY <1>1, <1>6, <1>7, <1>8, <1>9 DEF WriteInv

LEMMA WrittenIsRemainder ==
  ASSUME RealField, LimbInv, WriteInv, doing = "write", pending = <<>>
  PROVE  /\ work.limbs \in [Limbs -> Int] /\ \A i \in Limbs : Digit(work.limbs[i], i)
         /\ NumberOf(work.limbs) < Modulus
         /\ SameResidue(NumberOf(regF.limbs), NumberOf(work.limbs))
<1> DEFINE h == work.limbs
           f == regF.limbs
           q == Quotient(f)
           x == NumberOf(f)
           y == NumberOf(h)
           a0 == h[0]
           a1 == h[1]
           a2 == h[2]
           a3 == h[3]
           a4 == h[4]
           a5 == h[5]
           a6 == h[6]
           a7 == h[7]
           a8 == h[8]
           a9 == h[9]
<1>1. h \in [Limbs -> Int] /\ \A i \in Limbs : Digit(h[i], i)
  BY InvFits DEF LimbInv, LimbsFit
<1>2. f \in [Limbs -> Int] /\ Bounded(f, 2)
  BY OperandsOK DEF WriteInv, Bounded
<1>3. PICK c \in Int : y = (x + 19 * q) - c * Power255
  BY DEF WriteInv
<1>4. /\ x \in Int /\ y \in Int /\ q \in Int
      /\ 0 <= x - q * Modulus /\ x - q * Modulus < Modulus
  BY <1>1, <1>2, ValueInt, QuotientExact
<1>5. /\ a0 \in Int /\ a1 \in Int /\ a2 \in Int /\ a3 \in Int /\ a4 \in Int
      /\ a5 \in Int /\ a6 \in Int /\ a7 \in Int /\ a8 \in Int /\ a9 \in Int
      /\ 0 <= a0 /\ 0 <= a1 /\ 0 <= a2 /\ 0 <= a3 /\ 0 <= a4
      /\ 0 <= a5 /\ 0 <= a6 /\ 0 <= a7 /\ 0 <= a8 /\ 0 <= a9
      /\ a0 <= 67108863 /\ a1 <= 33554431 /\ a2 <= 67108863 /\ a3 <= 33554431
      /\ a4 <= 67108863 /\ a5 <= 33554431 /\ a6 <= 67108863 /\ a7 <= 33554431
      /\ a8 <= 67108863 /\ a9 <= 33554431
  <2>1. \A i \in Limbs : h[i] \in Int /\ 0 <= h[i] /\ h[i] <= Whole(i) - 1
    BY <1>1 DEF Digit, Whole
  <2> QED
    BY <2>1 DEF Limbs, Whole
<1>6. y = a0 + 67108864 * a1 + 2251799813685248 * a2 + 151115727451828646838272 * a3
          + 5070602400912917605986812821504 * a4 + 340282366920938463463374607431768211456 * a5
          + 11417981541647679048466287755595961091061972992 * a6
          + 766247770432944429179173513575154591809369561091801088 * a7
          + 25711008708143844408671393477458601640355247900524685364822016 * a8
          + 1725436586697640946858688965569256363112777243042596638790631055949824 * a9
  BY DEF NumberOf
<1> HIDE DEF h, f, q, x, y, a0, a1, a2, a3, a4, a5, a6, a7, a8, a9
<1>7. 0 <= y /\ y < Power255
  BY <1>5, <1>6 DEF Power255
<1>8. c = q
  BY <1>3, <1>4, <1>7 DEF Power255, Modulus
<1>9. y = x - q * Modulus
  BY <1>3, <1>4, <1>8 DEF Power255, Modulus
<1>10. SameResidue(x, y)
  <2>1. Modulus \in Int
    BY DEF Modulus
  <2>2. x - y = q * Modulus
    BY <1>4, <1>9, <2>1
  <2> QED
    BY <1>4, <2>2 DEF SameResidue
<1>11. y < Modulus
  BY <1>4, <1>9
<1> QED
  BY <1>1, <1>10, <1>11 DEF h, f, x, y

LEMMA InvCanonical ==
  ASSUME RealField, RealFactors, LimbInv, NumberKept, WriteInv
  PROVE  CanonicalBytes
<1> SUFFICES ASSUME doing = "write", pending = <<>>
             PROVE  /\ \A i \in Limbs : work.limbs[i] \in 0..Size[i]-1
                    /\ ~AboveModulus(work.limbs)
                    /\ Meaning(work.limbs) = regF.meaning
  BY DEF CanonicalBytes
<1> DEFINE h == work.limbs
           x == NumberOf(regF.limbs)
           y == NumberOf(h)
           a0 == h[0]
           a1 == h[1]
           a2 == h[2]
           a3 == h[3]
           a4 == h[4]
           a5 == h[5]
           a6 == h[6]
           a7 == h[7]
           a8 == h[8]
           a9 == h[9]
<1>1. /\ h \in [Limbs -> Int] /\ \A i \in Limbs : Digit(h[i], i)
      /\ y < Modulus /\ SameResidue(x, y)
  BY WrittenIsRemainder
<1>2. regF.limbs \in [Limbs -> Int] /\ x \in Int /\ regF.meaning = Remainders(x)
  BY OperandMeaning
<1>3. Meaning(h) = regF.meaning
  <2>1. y \in Int
    BY <1>1, ValueInt
  <2>2. Meaning(h) = Remainders(y)
    BY <1>1, MeaningIs
  <2>3. \A m \in Factors : x % m = y % m
    BY <1>1, <1>2, <2>1, CongruentMod
  <2>4. Remainders(x) = Remainders(y)
    BY <2>3, Zenon DEF Remainders
  <2> QED
    BY <1>2, <2>2, <2>4, Zenon
<1>4. \A i \in Limbs : h[i] \in 0..Size[i]-1
  BY <1>1 DEF Digit, RealField
<1>5. ~AboveModulus(h)
  <2> SUFFICES ASSUME AboveModulus(h) PROVE FALSE
    OBVIOUS
  <2>1. Size[0] - Excess = 67108845 /\ \A i \in 1..9 : Size[i] - 1 = Whole(i) - 1
    BY DEF RealField, Limbs, Whole
  <2>2. \A i \in 1..9 : h[i] = IF i % 2 = 0 THEN 67108863 ELSE 33554431
    BY <2>1 DEF AboveModulus, Whole
  <2>3. /\ a0 \in Int /\ a1 \in Int /\ a2 \in Int /\ a3 \in Int /\ a4 \in Int
        /\ a5 \in Int /\ a6 \in Int /\ a7 \in Int /\ a8 \in Int /\ a9 \in Int
        /\ a0 >= 67108845 /\ a1 >= 33554431 /\ a2 >= 67108863 /\ a3 >= 33554431
        /\ a4 >= 67108863 /\ a5 >= 33554431 /\ a6 >= 67108863 /\ a7 >= 33554431
        /\ a8 >= 67108863 /\ a9 >= 33554431
    BY <1>1, <2>1, <2>2 DEF AboveModulus, Limbs
  <2>4. y = a0 + 67108864 * a1 + 2251799813685248 * a2 + 151115727451828646838272 * a3
            + 5070602400912917605986812821504 * a4 + 340282366920938463463374607431768211456 * a5
            + 11417981541647679048466287755595961091061972992 * a6
            + 766247770432944429179173513575154591809369561091801088 * a7
            + 25711008708143844408671393477458601640355247900524685364822016 * a8
            + 1725436586697640946858688965569256363112777243042596638790631055949824 * a9
    BY DEF NumberOf
  <2> HIDE DEF y, a0, a1, a2, a3, a4, a5, a6, a7, a8, a9
  <2>5. y >= Modulus
    BY <2>3, <2>4 DEF Modulus
  <2>6. y \in Int /\ Modulus \in Int
    BY <1>1, ValueInt DEF y, Modulus
  <2> QED
    BY <1>1, <2>5, <2>6
<1> QED
  BY <1>3, <1>4, <1>5

LEMMA WriteInvKept ==
  ASSUME RealField, LimbInv, WriteInv, [FieldNext]_fieldVars
  PROVE  WriteInv'
<1>1. CASE UNCHANGED fieldVars
  BY <1>1 DEF fieldVars, WriteInv, NumberOf, Quotient, CarryOut
<1>2. CASE FeToBytes
  BY <1>2, WriteBegins
<1>3. CASE CarryStep
  <2>1. CASE doing = "write"
    BY <1>3, <2>1, WriteCarries
  <2>2. CASE doing # "write"
    BY <1>3, <2>2 DEF CarryStep, WriteInv
  <2> QED
    BY <2>1, <2>2
<1>4. ASSUME doing' # "write" PROVE WriteInv'
  BY <1>4 DEF WriteInv
<1>5. ASSUME NEW h, NEW m, NEW b, Direct(h, m, b) PROVE doing' # "write"
  BY <1>5 DEF Direct, Call
<1>6. ASSUME NEW h, NEW m, NEW what \in {"load", "product", "linear"}, NEW carries,
             Begin(h, m, what, carries)
      PROVE  doing' # "write"
  BY <1>6 DEF Begin
<1>7. FeAddLimbs \/ FeSubLimbs \/ FeNegLimbs \/ (\E b \in 0..1 : FeCMov(b)) => doing' # "write"
  <2>1. FeAddLimbs => doing' # "write"
    BY <1>5 DEF FeAddLimbs
  <2>2. FeSubLimbs => doing' # "write"
    BY <1>5 DEF FeSubLimbs
  <2>3. FeNegLimbs => doing' # "write"
    BY <1>5 DEF FeNegLimbs
  <2>4. ASSUME NEW b \in 0..1, FeCMov(b) PROVE doing' # "write"
    BY <1>5, <2>4 DEF FeCMov
  <2> QED
    BY <2>1, <2>2, <2>3, <2>4
<1>8. FeMulLimbs \/ FeSqLimbs \/ FeSq2Limbs \/ FeMul121666 \/ (\E s \in Texts : FeFromBytes(s))
        => doing' # "write"
  BY <1>6 DEF FeMulLimbs, FeSqLimbs, FeSq2Limbs, FeMul121666, FeFromBytes
<1>9. FeCSwap \/ Return => doing' # "write"
  BY DEF FeCSwap, Call, Return
<1> QED
  BY <1>1, <1>2, <1>3, <1>4, <1>7, <1>8, <1>9 DEF FieldNext

(* fe_tobytes writes the one number below the modulus that its element is  *)
(* congruent to, in digits that fill their places, whatever the element    *)
(* was, as long as its precondition is kept (fe.c:1360-1491).              *)
THEOREM CanonicalBytesAlways ==
  ASSUME RealField, RealFactors PROVE FieldSpec => []CanonicalBytes
<1>1. FieldInit => LimbInv /\ NumberKept /\ WriteInv
  <2>1. FieldInit => NumberKept
    BY Elements DEF FieldInit, NumberKept
  <2>2. FieldInit => WriteInv
    BY DEF FieldInit, WriteInv
  <2> QED
    BY <2>1, <2>2, InitLimbs
<1>2. /\ LimbInv /\ NumberKept /\ WriteInv
      /\ [FieldNext]_fieldVars
      => (LimbInv /\ NumberKept /\ WriteInv)'
  BY LimbInvKept, NumberKeptKept, WriteInvKept
<1>3. LimbInv /\ NumberKept /\ WriteInv => CanonicalBytes
  BY InvCanonical
<1> QED
  BY <1>1, <1>2, <1>3, PTL DEF FieldSpec

-----------------------------------------------------------------------------
(* The types, for every width.                                             *)

LEMMA FieldNumbers ==
  /\ \A i \in Limbs : /\ Size[i] \in Nat \ {0} /\ Size[i] \in Int
                      /\ Shift[i] \in Nat \ {0} /\ Shift[i] \in Int
  /\ Excess \in Int /\ Small \in Int /\ MaxCalls \in Nat
  /\ \A m \in Factors : m \in Nat \ {0}
  BY FieldAssumption

LEMMA RemainderIsNat ==
  ASSUME NEW x \in Int, NEW m \in Nat \ {0}
  PROVE  x % m \in Nat
  OBVIOUS

(* Two numbers, one above the other. *)
LEMMA StackedIsNat ==
  ASSUME NEW x \in Int, NEW s \in Int, NEW y \in Int, NEW m \in Nat \ {0}
  PROVE  (x * s + y) % m \in Nat /\ (x * s + y) % m \in Int
<1>1. x * s + y \in Int
  OBVIOUS
<1> HIDE DEF Limbs
<1> DEFINE z == x * s + y
<1> HIDE DEF z
<1>2. z % m \in Nat
  BY <1>1, RemainderIsNat DEF z
<1> QED
  BY <1>2 DEF z

LEMMA MeaningType ==
  ASSUME NEW h \in [Limbs -> Int]
  PROVE  Meaning(h) \in [Factors -> Nat]
<1>1. ASSUME NEW m \in Factors PROVE Mod(h, m) \in Nat
  <2> DEFINE on(high, i) == (high * Size[i] + h[i]) % m
  <2>1. m \in Nat \ {0} /\ \A i \in Limbs : h[i] \in Int /\ Size[i] \in Int
    BY FieldNumbers
  <2>2. ASSUME NEW x \in Int, NEW i \in Limbs PROVE on(x, i) \in Nat /\ on(x, i) \in Int
    BY <2>1, StackedIsNat, Zenon
  <2>3. (h[9] % m) \in Int
    <3>1. h[9] \in Int
      BY <2>1 DEF Limbs
    <3> QED
      BY <2>1, <3>1
  <2>4. \A i \in 0..9 : i \in Limbs
    BY DEF Limbs
  <2>5. Mod(h, m) = on(on(on(on(on(on(on(on(on(h[9] % m, 8), 7), 6), 5), 4), 3), 2), 1), 0)
    BY DEF Mod
  <2> HIDE DEF on
  <2> QED
    BY <2>2, <2>3, <2>4, <2>5
<1> QED
  BY <1>1 DEF Meaning, Each

LEMMA WithoutTopBitType ==
  ASSUME NEW x \in Nat
  PROVE  WithoutTopBit(x) \in Int
<1> DEFINE w == Size[9] \div Shift[9]
           a == Size[9]
           b == Shift[9]
<1>1. Size[9] \in Nat \ {0} /\ Shift[9] \in Nat \ {0} /\ Size[9] % Shift[9] = 0
  BY FieldAssumption DEF Limbs
<1>2. w \in Int /\ a = b * w + (a % b)
  <2>1. a \in Int
    BY <1>1
  <2> HIDE DEF a, b
  <2> QED
    BY <1>1, <2>1, ModSplits, Zenon DEF a, b
<1>3. a \in Nat \ {0} /\ b \in Nat \ {0} /\ a % b = 0
  BY <1>1
<1> HIDE DEF w, a, b
<1>4. a = b * w
  <2>1. b * w \in Int
    BY <1>2, <1>3
  <2> QED
    BY <1>2, <1>3, <2>1
<1>5. w \in Nat \ {0}
  <2>1. \A x1 \in Int, y1 \in Nat : x1 <= 0 => y1 * x1 <= 0
    OBVIOUS
  <2> QED
    BY <1>2, <1>3, <1>4, <2>1
<1>6. (x % w) \in Int
  BY <1>5
<1> QED
  BY <1>6 DEF WithoutTopBit, w

LEMMA TextMeaningType ==
  ASSUME NEW s \in [Limbs -> Nat]
  PROVE  TextMeaning(s) \in [Factors -> Nat]
<1> DEFINE top(m) == WithoutTopBit(s[9]) % m
           on(m, high, i) == (high * LoadSize(i) + s[i]) % m
           folded(m) == on(m, on(m, on(m, on(m, on(m, on(m, on(m, on(m, on(m,
                          top(m), 8), 7), 6), 5), 4), 3), 2), 1), 0)
<1>1. ASSUME NEW m \in Factors PROVE folded(m) \in Nat
  <2>1. m \in Nat \ {0}
    BY FieldNumbers
  <2>2. ASSUME NEW x \in Int, NEW i \in 0..8 PROVE on(m, x, i) \in Nat /\ on(m, x, i) \in Int
    <3>1. s[i] \in Int
      BY DEF Limbs
    <3>2. LoadSize(i) \in Int
      <4>1. Size[i] \in Int /\ Shift[i + 1] \in Int /\ Shift[i] \in Nat \ {0}
        BY FieldNumbers DEF Limbs
      <4>2. Size[i] * Shift[i + 1] \in Int
        BY <4>1
      <4> QED
        BY <4>1, <4>2 DEF LoadSize
    <3> QED
      BY <2>1, <3>1, <3>2, StackedIsNat, Zenon
  <2>3. top(m) \in Int
    <3>1. WithoutTopBit(s[9]) \in Int
      <4>1. s[9] \in Nat
        BY DEF Limbs
      <4> QED
        BY <4>1, WithoutTopBitType
    <3> QED
      BY <2>1, <3>1
  <2> DEFINE x7 == on(m, on(m, top(m), 8), 7)
             x5 == on(m, on(m, x7, 6), 5)
             x3 == on(m, on(m, x5, 4), 3)
             x1 == on(m, on(m, x3, 2), 1)
  <2>4. folded(m) = on(m, x1, 0)
    OBVIOUS
  <2> HIDE DEF on, top, folded
  <2>5. x7 \in Int
    BY <2>2, <2>3
  <2> HIDE DEF x7
  <2>6. x5 \in Int
    BY <2>2, <2>5
  <2> HIDE DEF x5
  <2>7. x3 \in Int
    BY <2>2, <2>6
  <2> HIDE DEF x3
  <2>8. x1 \in Int
    BY <2>2, <2>7
  <2> HIDE DEF x1
  <2> QED
    BY <2>2, <2>4, <2>8
<1>2. TextMeaning(s) = [m \in Factors |-> folded(m)]
  BY DEF TextMeaning, Each
<1> HIDE DEF folded
<1> QED
  BY <1>1, <1>2

LEMMA TimesModType ==
  ASSUME NEW a \in Int, NEW b \in Int, NEW m \in Nat \ {0}
  PROVE  TimesMod(a, b, m) \in Nat
<1>1. b \div 1000 \in Int /\ b % 1000 \in Int
  OBVIOUS
<1>2. a * (b \div 1000) \in Int /\ a * (b % 1000) \in Int
  BY <1>1
<1> DEFINE u == a * (b \div 1000)
           v == a * (b % 1000)
<1>3. u \in Int /\ v \in Int /\ TimesMod(a, b, m) = ((u % m) * 1000 + v) % m
  BY <1>2 DEF TimesMod
<1> HIDE DEF u, v
<1>4. (u % m) \in Int /\ 1000 \in Int
  BY <1>3
<1> DEFINE w == u % m
<1> HIDE DEF w
<1>5. w \in Int
  BY <1>4 DEF w
<1> DEFINE k == 1000
<1> HIDE DEF k
<1>6. (w * k + v) % m \in Nat
  <2>1. k \in Int /\ v \in Int
    BY <1>3 DEF k
  <2> QED
    BY <1>5, <2>1, StackedIsNat
<1> QED
  BY <1>3, <1>6 DEF w, k

(* A carry moves whole numbers. *)
LEMMA CarryType ==
  ASSUME NEW h \in [Limbs -> Int], NEW i \in Limbs
  PROVE  Rounded(h, i) \in [Limbs -> Int] /\ Floored(h, i) \in [Limbs -> Int]
<1>1. ASSUME NEW c \in Int
      PROVE  /\ [h EXCEPT ![9] = @ - c * Size[9], ![0] = @ + c * Excess] \in [Limbs -> Int]
             /\ [h EXCEPT ![9] = @ - c * Size[9]] \in [Limbs -> Int]
             /\ i # 9 => [h EXCEPT ![i] = @ - c * Size[i], ![i + 1] = @ + c] \in [Limbs -> Int]
  <2>1. /\ c * Size[i] \in Int /\ c * Size[9] \in Int /\ c * Excess \in Int
        /\ 9 \in Limbs /\ 0 \in Limbs
    <3>1. 9 \in Limbs /\ 0 \in Limbs
      BY DEF Limbs
    <3>2. Size[i] \in Int /\ Size[9] \in Int /\ Excess \in Int
      BY <3>1, FieldNumbers
    <3> QED
      BY <3>1, <3>2
  <2> DEFINE x == c * Size[i]
             y == c * Size[9]
             z == c * Excess
  <2> HIDE DEF x, y, z
  <2>2. x \in Int /\ y \in Int /\ z \in Int
    BY <2>1 DEF x, y, z
  <2>3. [h EXCEPT ![9] = @ - y, ![0] = @ + z] \in [Limbs -> Int]
    BY <2>1, <2>2
  <2>4. [h EXCEPT ![9] = @ - y] \in [Limbs -> Int]
    BY <2>1, <2>2
  <2>5. ASSUME i # 9 PROVE [h EXCEPT ![i] = @ - x, ![i + 1] = @ + c] \in [Limbs -> Int]
    <3>1. i + 1 \in Limbs
      BY <2>5 DEF Limbs
    <3> QED
      BY <2>2, <3>1
  <2> QED
    BY <2>3, <2>4, <2>5 DEF x, y, z
<1>2. (h[i] + Size[i] \div 2) \div Size[i] \in Int /\ h[i] \div Size[i] \in Int
  <2>1. Size[i] \in Nat \ {0} /\ h[i] \in Int
    BY FieldNumbers
  <2>2. h[i] + Size[i] \div 2 \in Int
    BY <2>1
  <2> QED
    BY <2>1, <2>2
<1> DEFINE c == (h[i] + Size[i] \div 2) \div Size[i]
           d == h[i] \div Size[i]
<1>3. c \in Int /\ d \in Int
  BY <1>2
<1>4. /\ Rounded(h, i) = IF i = 9 THEN [h EXCEPT ![9] = @ - c * Size[9], ![0] = @ + c * Excess]
                                  ELSE [h EXCEPT ![i] = @ - c * Size[i], ![i + 1] = @ + c]
      /\ Floored(h, i) = IF i = 9 THEN [h EXCEPT ![9] = @ - d * Size[9]]
                                  ELSE [h EXCEPT ![i] = @ - d * Size[i], ![i + 1] = @ + d]
  BY DEF Rounded, Floored
<1> HIDE DEF c, d
<1> QED
  BY <1>1, <1>3, <1>4

LEMMA WeightType ==
  ASSUME NEW i \in Limbs, NEW j \in Limbs
  PROVE  Weight2(i, j) \in Int
  BY FieldNumbers DEF Weight2

LEMMA ProductType ==
  ASSUME NEW f \in [Limbs -> Int], NEW g \in [Limbs -> Int]
  PROVE  Product10(f, g) \in [Limbs -> Int] /\ Square10(f) \in [Limbs -> Int]
<1> DEFINE p(k, i) == f[i] * g[(k - i) % 10] * Weight2(i, (k - i) % 10)
           s(k, i) == LET j == (k - i) % 10 IN
                      IF i < j THEN 2 * f[i] * f[j] * Weight2(i, j)
                      ELSE IF i = j THEN f[i] * f[i] * Weight2(i, i) ELSE 0
<1>1. ASSUME NEW k \in Limbs, NEW i \in Limbs PROVE p(k, i) \in Int /\ s(k, i) \in Int
  <2> DEFINE j == (k - i) % 10
  <2>1. j \in Limbs
    BY DEF Limbs
  <2> HIDE DEF j
  <2>2. f[i] \in Int /\ f[j] \in Int /\ g[j] \in Int
    BY <2>1
  <2>3. Weight2(i, j) \in Int /\ Weight2(i, i) \in Int
    BY <2>1, WeightType
  <2>4. f[i] * g[j] \in Int /\ 2 * f[i] \in Int /\ f[i] * f[i] \in Int
    BY <2>2
  <2>5. 2 * f[i] * f[j] \in Int
    BY <2>2, <2>4
  <2>6. /\ (f[i] * g[j]) * Weight2(i, j) \in Int /\ (2 * f[i] * f[j]) * Weight2(i, j) \in Int
        /\ (f[i] * f[i]) * Weight2(i, i) \in Int
    <3> DEFINE x == f[i] * g[j]
               y == 2 * f[i] * f[j]
               z == f[i] * f[i]
    <3>1. x \in Int /\ y \in Int /\ z \in Int
      BY <2>4, <2>5
    <3> HIDE DEF x, y, z
    <3>2. x * Weight2(i, j) \in Int /\ y * Weight2(i, j) \in Int /\ z * Weight2(i, i) \in Int
      BY <2>3, <3>1
    <3> QED
      BY <3>2 DEF x, y, z
  <2>7. p(k, i) = (f[i] * g[j]) * Weight2(i, j)
    BY DEF j
  <2>8. s(k, i) = IF i < j THEN (2 * f[i] * f[j]) * Weight2(i, j)
                  ELSE IF i = j THEN (f[i] * f[i]) * Weight2(i, i) ELSE 0
    BY DEF j
  <2> HIDE DEF p, s
  <2>9. p(k, i) \in Int
    BY <2>6, <2>7
  <2>10. s(k, i) \in Int
    <3>1. 0 \in Int
      OBVIOUS
    <3> QED
      BY <2>6, <2>8, <3>1, Zenon
  <2> QED
    BY <2>9, <2>10
<1>2. \A i \in 0..9 : i \in Limbs
  BY DEF Limbs
<1>3. /\ Product10(f, g) = [k \in Limbs |-> p(k, 0) + p(k, 1) + p(k, 2) + p(k, 3) + p(k, 4)
                                              + p(k, 5) + p(k, 6) + p(k, 7) + p(k, 8) + p(k, 9)]
      /\ Square10(f) = [k \in Limbs |-> s(k, 0) + s(k, 1) + s(k, 2) + s(k, 3) + s(k, 4)
                                          + s(k, 5) + s(k, 6) + s(k, 7) + s(k, 8) + s(k, 9)]
  BY DEF Product10, Square10, SumOver
<1> HIDE DEF p, s
<1>4. ASSUME NEW k \in Limbs
      PROVE  /\ p(k, 0) + p(k, 1) + p(k, 2) + p(k, 3) + p(k, 4)
                  + p(k, 5) + p(k, 6) + p(k, 7) + p(k, 8) + p(k, 9) \in Int
             /\ s(k, 0) + s(k, 1) + s(k, 2) + s(k, 3) + s(k, 4)
                  + s(k, 5) + s(k, 6) + s(k, 7) + s(k, 8) + s(k, 9) \in Int
  BY <1>1, <1>2
<1> QED
  BY <1>3, <1>4

LEMMA QuotientType ==
  ASSUME NEW h \in [Limbs -> Int]
  PROVE  Quotient(h) \in Int
<1> DEFINE next(c, i) == (h[i] + c) \div Size[i]
           q == (Excess * h[9] + Size[9] \div 2) \div Size[9]
<1>1. \A i \in Limbs : h[i] \in Int /\ Size[i] \in Nat \ {0}
  BY FieldNumbers
<1>2. ASSUME NEW c \in Int, NEW i \in Limbs PROVE next(c, i) \in Int
  <2>1. h[i] + c \in Int /\ Size[i] \in Nat \ {0}
    BY <1>1
  <2> QED
    BY <2>1
<1>3. q \in Int
  <2>1. 9 \in Limbs
    BY DEF Limbs
  <2>2. Excess * h[9] \in Int /\ Size[9] \in Nat \ {0}
    BY <1>1, <2>1, FieldNumbers
  <2>3. Excess * h[9] + Size[9] \div 2 \in Int
    BY <2>2
  <2> QED
    BY <2>2, <2>3
<1>4. \A i \in 0..9 : i \in Limbs
  BY DEF Limbs
<1>5. Quotient(h) = next(next(next(next(next(next(next(next(next(next(q,
                      0), 1), 2), 3), 4), 5), 6), 7), 8), 9)
  BY DEF Quotient, CarryOut
<1> HIDE DEF next, q
<1> QED
  BY <1>2, <1>3, <1>4, <1>5

LEMMA EachType ==
  ASSUME NEW f, f \in [Factors -> Nat]
  PROVE  \A m \in Factors : f[m] \in Nat /\ f[m] \in Int /\ m \in Nat \ {0}
  BY FieldNumbers

LEMMA ElementTyped ==
  ASSUME NEW h \in [Limbs -> Int], NEW e \in [Factors -> Nat], NEW b \in 1..3
  PROVE  ElementOK(Element(h, e, b))
  BY Elements DEF ElementOK, Factor

LEMMA DirectTyped ==
  ASSUME FieldTypeOK, NEW h \in [Limbs -> Int], NEW e \in [Factors -> Nat], NEW b \in 1..6,
         Direct(h, e, b)
  PROVE  FieldTypeOK'
<1>1. /\ b \in 1..3 /\ regF' = Element(h, e, b) /\ calls' \in 0..MaxCalls
      /\ UNCHANGED <<regG, work, doing, pending>>
  BY FieldNumbers DEF Direct, Call, Factor, FieldTypeOK
<1>2. ElementOK(regF')
  BY <1>1, ElementTyped
<1> QED
  BY <1>1, <1>2 DEF FieldTypeOK, ElementOK

LEMMA BeginTyped ==
  ASSUME FieldTypeOK, NEW h \in [Limbs -> Int], NEW e \in [Factors -> Nat],
         NEW what \in {"load", "product", "linear"},
         NEW carries \in {ProductCarries, LinearCarries}, Begin(h, e, what, carries)
  PROVE  FieldTypeOK'
<1>1. /\ work' = Element(h, e, 1) /\ doing' = what /\ pending' = carries
      /\ calls' \in 0..MaxCalls /\ UNCHANGED <<regF, regG>>
  BY FieldNumbers DEF Begin, Call, FieldTypeOK
<1>2. ElementOK(work')
  BY <1>1, ElementTyped
<1>3. carries \in Seq(Limbs)
  BY RestOfAll DEF IsRest
<1> QED
  BY <1>1, <1>2, <1>3 DEF FieldTypeOK, ElementOK

WorkIsElement == work = Element(work.limbs, work.meaning, work.bound)

LEMMA WorkStaysElement ==
  /\ FieldInit => WorkIsElement
  /\ WorkIsElement /\ [FieldNext]_fieldVars => WorkIsElement'
<1>1. FieldInit => WorkIsElement
  BY Elements DEF FieldInit, WorkIsElement
<1>2. ASSUME WorkIsElement, [FieldNext]_fieldVars PROVE WorkIsElement'
  <2>1. ASSUME NEW h, NEW m, NEW what, NEW carries, Begin(h, m, what, carries)
        PROVE  WorkIsElement'
    BY <2>1, Elements DEF Begin, WorkIsElement
  <2>2. CASE UNCHANGED work
    BY <1>2, <2>2 DEF WorkIsElement
  <2>3. CASE FeToBytes
    BY <2>3, Elements DEF FeToBytes, WorkIsElement
  <2>4. CASE CarryStep
    <3>1. PICK h : work' = [work EXCEPT !.limbs = h]
      BY <2>4 DEF CarryStep
    <3>2. work = [limbs |-> work.limbs, meaning |-> work.meaning, bound |-> work.bound]
      BY <1>2 DEF WorkIsElement, Element
    <3>3. work' = [limbs |-> h, meaning |-> work.meaning, bound |-> work.bound]
      BY <3>1, <3>2
    <3> QED
      BY <3>3 DEF WorkIsElement, Element
  <2>5. CASE FeMulLimbs \/ FeSqLimbs \/ FeSq2Limbs \/ FeMul121666
             \/ \E s \in Texts : FeFromBytes(s)
    BY <2>1, <2>5 DEF FeMulLimbs, FeSqLimbs, FeSq2Limbs, FeMul121666, FeFromBytes
  <2>6. CASE FeAddLimbs \/ FeSubLimbs \/ FeNegLimbs \/ \E b \in 0..1 : FeCMov(b)
    BY <2>2, <2>6 DEF FeAddLimbs, FeSubLimbs, FeNegLimbs, FeCMov, Direct
  <2>7. CASE FeCSwap \/ Return
    BY <2>2, <2>7 DEF FeCSwap, Return
  <2>8. CASE UNCHANGED fieldVars
    BY <2>2, <2>8 DEF fieldVars
  <2> QED
    BY <1>2, <2>3, <2>4, <2>5, <2>6, <2>7, <2>8 DEF FieldNext
<1> QED
  BY <1>1, <1>2

(* FieldLimbs' types, for every width and every call that a precondition   *)
(* allows (fe.c:35-1491): no call takes an element out of its bound, and   *)
(* every number is carried as ten of them.                                 *)
THEOREM FieldTypeCorrect == FieldSpec => []FieldTypeOK
<1>1. FieldInit => FieldTypeOK
  <2> SUFFICES ASSUME FieldInit PROVE FieldTypeOK
    OBVIOUS
  <2>1. ASSUME NEW n \in 0..1 PROVE ElementOK(Element(Constant(n), Meaning(Constant(n)), 1))
    <3>1. Constant(n) \in [Limbs -> Int]
      BY DEF Constant
    <3> QED
      BY <3>1, MeaningType, ElementTyped
  <2>2. /\ ElementOK(regF) /\ ElementOK(regG) /\ work = regF
        /\ doing = "idle" /\ pending = <<>> /\ calls = 0
    BY <2>1 DEF FieldInit
  <2> QED
    BY <2>2, FieldNumbers DEF FieldTypeOK
<1>2. FieldTypeOK /\ WorkIsElement /\ [FieldNext]_fieldVars => FieldTypeOK'
  <2> SUFFICES ASSUME FieldTypeOK, WorkIsElement, [FieldNext]_fieldVars PROVE FieldTypeOK'
    OBVIOUS
  <2> DEFINE f == regF.limbs
             g == regG.limbs
             a == regF.bound
             b == regG.bound
             d == regF.meaning
             e == regG.meaning
  <2>1. /\ f \in [Limbs -> Int] /\ g \in [Limbs -> Int] /\ a \in 1..3 /\ b \in 1..3
        /\ d \in [Factors -> Nat] /\ e \in [Factors -> Nat] /\ a + b \in 1..6 /\ a \in 1..6
        /\ b \in 1..6
    BY DEF FieldTypeOK, ElementOK, Factor
  <2>2. \A m \in Factors : d[m] \in Int /\ e[m] \in Int /\ m \in Nat \ {0}
    BY <2>1, EachType
  <2>3. ASSUME FeAddLimbs PROVE FieldTypeOK'
    <3>1. Sum(f, g) \in [Limbs -> Int]
      BY <2>1 DEF Sum
    <3>2. [m \in Factors |-> (d[m] + e[m]) % m] \in [Factors -> Nat]
      BY <2>2
    <3>3. Direct(Sum(f, g), [m \in Factors |-> (d[m] + e[m]) % m], a + b)
      BY <2>3 DEF FeAddLimbs, Each
    <3> QED
      BY <2>1, <3>1, <3>2, <3>3, DirectTyped
  <2>4. ASSUME FeSubLimbs PROVE FieldTypeOK'
    <3>1. Difference(f, g) \in [Limbs -> Int]
      BY <2>1 DEF Difference
    <3>2. [m \in Factors |-> (d[m] - e[m]) % m] \in [Factors -> Nat]
      BY <2>2
    <3>3. Direct(Difference(f, g), [m \in Factors |-> (d[m] - e[m]) % m], a + b)
      BY <2>4 DEF FeSubLimbs, Each
    <3> QED
      BY <2>1, <3>1, <3>2, <3>3, DirectTyped
  <2>5. ASSUME FeNegLimbs PROVE FieldTypeOK'
    <3>1. Opposite(f) \in [Limbs -> Int]
      BY <2>1 DEF Opposite
    <3>2. [m \in Factors |-> (-d[m]) % m] \in [Factors -> Nat]
      BY <2>2
    <3>3. Direct(Opposite(f), [m \in Factors |-> (-d[m]) % m], a)
      BY <2>5 DEF FeNegLimbs, Each
    <3> QED
      BY <2>1, <3>1, <3>2, <3>3, DirectTyped
  <2>6. ASSUME NEW n \in 0..1, FeCMov(n) PROVE FieldTypeOK'
    <3>1. Direct(f, d, a) \/ Direct(g, e, b)
      BY <2>6 DEF FeCMov
    <3> QED
      BY <2>1, <3>1, DirectTyped
  <2>7. ASSUME FeCSwap PROVE FieldTypeOK'
    BY <2>7, FieldNumbers DEF FeCSwap, Call, FieldTypeOK, ElementOK
  <2>8. ASSUME NEW s \in Texts, FeFromBytes(s) PROVE FieldTypeOK'
    <3>1. s \in [Limbs -> Nat]
      BY FieldAssumption
    <3>2. Loaded(s) \in [Limbs -> Int]
      <4>1. ASSUME NEW i \in Limbs
            PROVE  (IF i = 9 THEN WithoutTopBit(s[9]) ELSE s[i]) * Shift[i] \in Int
        <5>1. (IF i = 9 THEN WithoutTopBit(s[9]) ELSE s[i]) \in Int
          <6>1. s[i] \in Nat /\ s[i] \in Int /\ s[9] \in Nat
            BY <3>1 DEF Limbs
          <6> QED
            BY <6>1, WithoutTopBitType
        <5>2. Shift[i] \in Int
          BY FieldNumbers
        <5> DEFINE x == IF i = 9 THEN WithoutTopBit(s[9]) ELSE s[i]
        <5> HIDE DEF x
        <5>3. x * Shift[i] \in Int
          BY <5>1, <5>2 DEF x
        <5> QED
          BY <5>3 DEF x
      <4> QED
        BY <4>1 DEF Loaded
    <3>3. Begin(Loaded(s), TextMeaning(s), "load", LinearCarries)
      BY <2>8 DEF FeFromBytes
    <3> QED
      BY <3>1, <3>2, <3>3, TextMeaningType, BeginTyped
  <2>9. ASSUME FeMulLimbs PROVE FieldTypeOK'
    <3>1. Product10(f, g) \in [Limbs -> Int]
      BY <2>1, ProductType
    <3>2. \A m \in Factors : TimesMod(d[m], e[m], m) \in Nat
      BY <2>2, TimesModType
    <3>3. [m \in Factors |-> TimesMod(d[m], e[m], m)] \in [Factors -> Nat]
      BY <3>2
    <3>4. Begin(Product10(f, g), [m \in Factors |-> TimesMod(d[m], e[m], m)],
                "product", ProductCarries)
      BY <2>9 DEF FeMulLimbs, Each
    <3> QED
      BY <3>1, <3>3, <3>4, BeginTyped
  <2>10. ASSUME NEW n \in 1..2 PROVE SquareMeaning(n) \in [Factors -> Nat]
    <3>1. ASSUME NEW m \in Factors PROVE (n * TimesMod(d[m], d[m], m)) % m \in Nat
      <4>1. TimesMod(d[m], d[m], m) \in Nat /\ m \in Nat \ {0}
        BY <2>2, TimesModType
      <4>2. n * TimesMod(d[m], d[m], m) \in Int
        BY <4>1
      <4> QED
        BY <4>1, <4>2, RemainderIsNat
    <3> QED
      BY <3>1 DEF SquareMeaning, Each
  <2>11. ASSUME FeSqLimbs PROVE FieldTypeOK'
    <3>1. Square10(f) \in [Limbs -> Int]
      BY <2>1, ProductType
    <3>2. Begin(Square10(f), SquareMeaning(1), "product", ProductCarries)
      BY <2>11 DEF FeSqLimbs
    <3> QED
      BY <2>10, <3>1, <3>2, BeginTyped
  <2>12. ASSUME FeSq2Limbs PROVE FieldTypeOK'
    <3>1. Square10(f) \in [Limbs -> Int]
      BY <2>1, ProductType
    <3>2. Scaled10(Square10(f), 2) \in [Limbs -> Int]
      BY <3>1 DEF Scaled10
    <3>3. Begin(Scaled10(Square10(f), 2), SquareMeaning(2), "product", ProductCarries)
      BY <2>12 DEF FeSq2Limbs
    <3> QED
      BY <2>10, <3>2, <3>3, BeginTyped
  <2>13. ASSUME FeMul121666 PROVE FieldTypeOK'
    <3>1. Scaled10(f, Small) \in [Limbs -> Int]
      BY <2>1, FieldNumbers DEF Scaled10
    <3>2. \A m \in Factors : TimesMod(d[m], Small, m) \in Nat
      BY <2>2, FieldNumbers, TimesModType
    <3>3. [m \in Factors |-> TimesMod(d[m], Small, m)] \in [Factors -> Nat]
      BY <3>2
    <3>4. Begin(Scaled10(f, Small), [m \in Factors |-> TimesMod(d[m], Small, m)],
                "linear", LinearCarries)
      BY <2>13 DEF FeMul121666, Each
    <3> QED
      BY <3>1, <3>3, <3>4, BeginTyped
  <2>14. ASSUME FeToBytes PROVE FieldTypeOK'
    <3> DEFINE h == [f EXCEPT ![0] = @ + Excess * Quotient(f)]
    <3>1. h \in [Limbs -> Int]
      <4>1. Excess * Quotient(f) \in Int
        BY <2>1, FieldNumbers, QuotientType
      <4> DEFINE x == Excess * Quotient(f)
      <4> HIDE DEF x
      <4>2. 0 \in Limbs /\ x \in Int
        BY <4>1 DEF Limbs, x
      <4>3. [f EXCEPT ![0] = @ + x] \in [Limbs -> Int]
        BY <2>1, <4>2
      <4> QED
        BY <4>3 DEF x
    <3>2. /\ work' = Element(h, d, 1) /\ doing' = "write" /\ pending' = FinalCarries
          /\ UNCHANGED <<regF, regG, calls>>
      BY <2>14 DEF FeToBytes
    <3> HIDE DEF h
    <3>3. ElementOK(work')
      BY <2>1, <3>1, <3>2, ElementTyped
    <3>4. FinalCarries \in Seq(Limbs)
      BY RestOfAll DEF IsRest
    <3> QED
      BY <3>2, <3>3, <3>4 DEF FieldTypeOK, ElementOK
  <2>15. ASSUME CarryStep PROVE FieldTypeOK'
    <3> DEFINE h == IF doing = "write" THEN Floored(work.limbs, Head(pending))
                                       ELSE Rounded(work.limbs, Head(pending))
    <3>1. /\ work.limbs \in [Limbs -> Int] /\ work.bound \in 1..Factor
          /\ work.meaning \in [Factors -> Nat] /\ pending \in Seq(Limbs) /\ pending # <<>>
      BY <2>15 DEF FieldTypeOK, ElementOK, CarryStep
    <3>2. Head(pending) \in Limbs /\ Tail(pending) \in Seq(Limbs)
      BY <3>1
    <3>3. h \in [Limbs -> Int]
      BY <3>1, <3>2, CarryType
    <3>4. /\ work' = [work EXCEPT !.limbs = h] /\ pending' = Tail(pending)
          /\ UNCHANGED <<regF, regG, doing, calls>>
      BY <2>15 DEF CarryStep
    <3> HIDE DEF h
    <3>5. ElementOK(work')
      <4>1. work = [limbs |-> work.limbs, meaning |-> work.meaning, bound |-> work.bound]
        BY DEF WorkIsElement, Element
      <4>2. work' = [limbs |-> h, meaning |-> work.meaning, bound |-> work.bound]
        BY <3>4, <4>1
      <4> QED
        BY <3>1, <3>3, <4>2 DEF ElementOK
    <3> QED
      BY <3>2, <3>4, <3>5 DEF FieldTypeOK, ElementOK
  <2>16. ASSUME Return PROVE FieldTypeOK'
    BY <2>16 DEF Return, FieldTypeOK, ElementOK
  <2>17. ASSUME UNCHANGED fieldVars PROVE FieldTypeOK'
    BY <2>17 DEF fieldVars, FieldTypeOK, ElementOK
  <2> QED
    BY <2>3, <2>4, <2>5, <2>6, <2>7, <2>8, <2>9, <2>11, <2>12, <2>13, <2>14, <2>15, <2>16,
       <2>17 DEF FieldNext
<1> QED
  BY <1>1, <1>2, WorkStaysElement, PTL DEF FieldSpec
=============================================================================
