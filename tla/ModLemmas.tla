------------------------------ MODULE ModLemmas ------------------------------
(***************************************************************************)
(* Facts about the remainder that the proofs about SHA-512 and Ed25519     *)
(* share, and induction over the natural numbers for sets: the numbers     *)
(* that have a property are a set, and what is shown of every set needs no *)
(* operator as a parameter.                                                *)
(***************************************************************************)
EXTENDS Integers, WellFoundedInduction, TLAPS

(* What is left of a multiple of the divisor is the remainder. *)
LEMMA ModUnique ==
  ASSUME NEW n \in Nat \ {0}, NEW k \in Int, NEW r \in 0..n-1
  PROVE  (n * k + r) % n = r
  OBVIOUS

(* Every integer is a multiple of the divisor and a remainder. *)
LEMMA ModSplits ==
  ASSUME NEW n \in Nat \ {0}, NEW x \in Int
  PROVE  /\ x % n \in 0..n-1
         /\ x \div n \in Int
         /\ x = n * (x \div n) + (x % n)
  OBVIOUS

(* A multiple of the divisor does not change the remainder. *)
LEMMA ModShift ==
  ASSUME NEW n \in Nat \ {0}, NEW x \in Int, NEW k \in Int
  PROVE  (x + n * k) % n = x % n
<1> DEFINE q == x \div n
           r == x % n
<1>1. q \in Int /\ r \in 0..n-1 /\ x = n * q + r
  BY ModSplits
<1> HIDE DEF q, r
<1>2. x + n * k = n * (q + k) + r
  BY <1>1
<1>3. (n * (q + k) + r) % n = r
  BY <1>1, ModUnique
<1> QED
  BY <1>2, <1>3 DEF r

(* A summand may be reduced first. *)
LEMMA ModSum ==
  ASSUME NEW n \in Nat \ {0}, NEW x \in Int, NEW y \in Int
  PROVE  ((x % n) + y) % n = (x + y) % n
<1> DEFINE q == x \div n
           r == x % n
<1>1. q \in Int /\ r \in 0..n-1 /\ x = n * q + r
  BY ModSplits
<1> HIDE DEF q, r
<1>2. x + y = (r + y) + n * q
  BY <1>1
<1>3. r + y \in Int
  BY <1>1
<1>4. ((r + y) + n * q) % n = (r + y) % n
  BY <1>1, <1>3, ModShift
<1> QED
  BY <1>2, <1>4 DEF r

(* A common summand may be taken away. *)
LEMMA ModCancel ==
  ASSUME NEW n \in Nat \ {0}, NEW x \in Int, NEW y \in Int, NEW t \in Int,
         (x + t) % n = (y + t) % n
  PROVE  x % n = y % n
<1>1. x + t \in Int /\ y + t \in Int /\ -t \in Int
  OBVIOUS
<1>2. (((x + t) % n) + (-t)) % n = ((x + t) + (-t)) % n
  BY <1>1, ModSum
<1>3. (((y + t) % n) + (-t)) % n = ((y + t) + (-t)) % n
  BY <1>1, ModSum
<1>4. (x + t) + (-t) = x /\ (y + t) + (-t) = y
  OBVIOUS
<1> QED
  BY <1>2, <1>3, <1>4

(* A factor may be reduced first. *)
LEMMA ModProduct ==
  ASSUME NEW n \in Nat \ {0}, NEW x \in Int, NEW m \in Int, NEW y \in Int
  PROVE  (m * (x % n) + y) % n = (m * x + y) % n
<1> DEFINE q == x \div n
           r == x % n
<1>1. q \in Int /\ r \in 0..n-1 /\ x = n * q + r
  BY ModSplits
<1> HIDE DEF q, r
<1>2. m * x + y = (m * r + y) + n * (m * q)
  BY <1>1
<1>3. m * r + y \in Int /\ m * q \in Int
  BY <1>1
<1>4. ((m * r + y) + n * (m * q)) % n = (m * r + y) % n
  BY <1>3, ModShift
<1> QED
  BY <1>2, <1>4 DEF r

(* The smallest number that fills a multiple of n is the only one below n. *)
LEMMA ModFill ==
  ASSUME NEW n \in Nat \ {0}, NEW x \in Int,
         NEW r \in 0..n-1, (x + r) % n = 0,
         NEW s \in 0..n-1, (x + s) % n = 0
  PROVE  r = s
<1> DEFINE q == (x + r) \div n
           p == (x + s) \div n
<1>1. q \in Int /\ x + r = n * q
  BY ModSplits
<1>2. p \in Int /\ x + s = n * p
  BY ModSplits
<1> HIDE DEF q, p
<1>3. r = n * (q - p) + s
  BY <1>1, <1>2
<1>4. (n * (q - p) + s) % n = s
  <2>1. q - p \in Int
    BY <1>1, <1>2
  <2> QED
    BY <2>1, ModUnique
<1>5. r % n = r
  <2>1. (n * 0 + r) % n = r
    BY ModUnique
  <2>2. n * 0 + r = r
    OBVIOUS
  <2> QED
    BY <2>1, <2>2
<1> QED
  BY <1>3, <1>4, <1>5

-----------------------------------------------------------------------------
(* Induction.                                                              *)

(* A set of natural numbers that is not empty has a least one. *)
LEMMA LeastNumber ==
  ASSUME NEW T, T \subseteq Nat, T # {}
  PROVE  \E x \in T : \A y \in T : x <= y
<1> DEFINE R == OpToRel(<, Nat)
<1>1. IsWellFoundedOn(R, Nat)
  BY NatLessThanWellFounded
<1>2. ASSUME NEW x \in Nat, NEW y \in Nat, ~ (<<y, x>> \in R) PROVE ~ (y < x)
  BY <1>2 DEF OpToRel
<1> HIDE DEF R
<1>3. PICK x \in T : \A y \in T : ~ (<<y, x>> \in R)
  BY <1>1, WFMin
<1>4. ASSUME NEW y \in T PROVE x <= y
  <2>1. x \in Nat /\ y \in Nat /\ ~ (y < x)
    BY <1>2, <1>3
  <2> QED
    BY <2>1
<1> QED
  BY <1>3, <1>4

(* A set that has 0 and with each number the next one has them all. *)
LEMMA Induction ==
  ASSUME NEW T, 0 \in T, \A n \in Nat : n \in T => n + 1 \in T
  PROVE  Nat \subseteq T
<1> SUFFICES ASSUME Nat \ T # {} PROVE FALSE
  OBVIOUS
<1>1. PICK x \in Nat \ T : \A y \in Nat \ T : x <= y
  BY LeastNumber
<1>2. x - 1 \in Nat
  BY <1>1
<1>3. x - 1 \in T
  BY <1>1, <1>2
<1> QED
  BY <1>1, <1>2, <1>3

(* The same up to a bound. *)
LEMMA InductionUpTo ==
  ASSUME NEW n \in Nat, NEW T, 0 \in T, \A k \in 0..n-1 : k \in T => k + 1 \in T
  PROVE  0..n \subseteq T
<1> DEFINE U == {k \in Nat : k <= n => k \in T}
<1>1. 0 \in U
  OBVIOUS
<1>2. ASSUME NEW k \in Nat, k \in U PROVE k + 1 \in U
  <2>1. k + 1 <= n => k \in 0..n-1 /\ k \in T
    BY <1>2
  <2> QED
    BY <2>1
<1> HIDE DEF U
<1>3. Nat \subseteq U
  BY <1>1, <1>2, Induction
<1> QED
  BY <1>3 DEF U

(* What holds of n and passes from each number to the one below holds down *)
(* to 0.                                                                   *)
LEMMA InductionDown ==
  ASSUME NEW n \in Nat, NEW T, n \in T, \A k \in 0..n-1 : k + 1 \in T => k \in T
  PROVE  0..n \subseteq T
<1> DEFINE U == {k \in Nat : k <= n => n - k \in T}
<1>1. 0 \in U
  OBVIOUS
<1>2. ASSUME NEW k \in Nat, k \in U PROVE k + 1 \in U
  <2>1. k + 1 <= n => n - k - 1 \in 0..n-1 /\ (n - k - 1) + 1 \in T
    BY <1>2
  <2> QED
    BY <2>1
<1> HIDE DEF U
<1>3. Nat \subseteq U
  BY <1>1, <1>2, Induction
<1>4. ASSUME NEW k \in 0..n PROVE k \in T
  <2>1. n - k \in Nat /\ n - k <= n
    OBVIOUS
  <2>2. n - (n - k) \in T
    BY <1>3, <2>1 DEF U
  <2> QED
    BY <2>2
<1> QED
  BY <1>4

(* A function given by its first value and each next one exists. *)
Steps(n, S) == [1..n -> [S -> S]]
IsIterated(f, n, base, G) == f[0] = base /\ \A k \in 1..n : f[k] = G[k][f[k - 1]]

LEMMA RecursionExists ==
  ASSUME NEW n, n \in Nat, NEW S, NEW base, base \in S, NEW G, G \in Steps(n, S)
  PROVE  \E f \in [0..n -> S] : IsIterated(f, n, base, G)
<1> USE DEF Steps
<1> DEFINE Is(f, m) == IsIterated(f, m, base, G)
           T == {m \in 0..n : \E f \in [0..m -> S] : Is(f, m)}
<1>1. 0 \in T
  <2> DEFINE f == [k \in 0..0 |-> base]
  <2>1. f \in [0..0 -> S] /\ Is(f, 0)
    BY DEF IsIterated
  <2> HIDE DEF f
  <2>2. \E g \in [0..0 -> S] : Is(g, 0)
    BY <2>1
  <2> QED
    BY <2>2
<1>2. ASSUME NEW m \in 0..n-1, m \in T PROVE m + 1 \in T
  <2>1. PICK f \in [0..m -> S] : Is(f, m)
    BY <1>2
  <2> DEFINE g == [k \in 0..m+1 |-> IF k = m + 1 THEN G[m + 1][f[m]] ELSE f[k]]
  <2>2. G[m + 1] \in [S -> S] /\ f[m] \in S
    OBVIOUS
  <2>3. g \in [0..m+1 -> S]
    BY <2>2
  <2>4. Is(g, m + 1)
    <3>1. g[0] = base
      BY <2>1 DEF IsIterated
    <3>2. ASSUME NEW k \in 1..m+1 PROVE g[k] = G[k][g[k - 1]]
      <4>1. CASE k = m + 1
        <5>1. g[k - 1] = f[m] /\ g[k] = G[m + 1][f[m]]
          BY <4>1
        <5> QED
          BY <4>1, <5>1
      <4>2. CASE k # m + 1
        <5>1. k \in 1..m /\ g[k] = f[k] /\ g[k - 1] = f[k - 1]
          BY <4>2
        <5> QED
          BY <2>1, <5>1 DEF IsIterated
      <4> QED
        BY <4>1, <4>2
    <3> QED
      BY <3>1, <3>2 DEF IsIterated
  <2> HIDE DEF g
  <2>5. \E h \in [0..m+1 -> S] : Is(h, m + 1)
    BY <2>3, <2>4
  <2>6. m + 1 \in 0..n
    OBVIOUS
  <2> QED
    BY <2>5, <2>6
<1> HIDE DEF T
<1>3. 0..n \subseteq T
  BY <1>1, <1>2, InductionUpTo
<1>4. n \in T
  BY <1>3
<1> QED
  BY <1>4 DEF T
=============================================================================
