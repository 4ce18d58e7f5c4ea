----------------------------- MODULE FieldLimbs -----------------------------
(***************************************************************************)
(* src/ed25519/fe.c: the integers mod 2^255 - 19 in ten signed limbs of 26 *)
(* and 25 bits in turn, here fewer.  Two field elements are kept, and the  *)
(* functions are called on them in any order their preconditions allow;    *)
(* the carries of a function are run one per action.                       *)
(*                                                                         *)
(* Numbers of ten limbs are compared mod each prime factor of the modulus, *)
(* which at the small width is a product of primes.                        *)
(***************************************************************************)
EXTENDS Integers, Sequences

CONSTANTS
  Size,     \* 2^26, 2^25, 2^26, ...: what each limb is carried at
  Excess,   \* 19: the modulus is 2^255, the product of the sizes, less this
  Small,    \* 121666: the factor of fe_mul121666
  Factors,  \* the modulus' prime factors
  Shift,    \* 1, 2^6, 2^5, ...: what fe_frombytes multiplies its loads by
  Texts,    \* bound: the byte strings loaded, as the numbers loaded from them
  MaxCalls  \* bound: the calls before the result is written

Limbs == 0..9

ASSUME FieldAssumption ==
  /\ Size \in [Limbs -> Nat \ {0}] /\ Shift \in [Limbs -> Nat \ {0}]
  /\ \A i \in Limbs : Size[i] % 2 = 0 /\ Size[i] % Shift[i] = 0
  /\ Excess \in Nat /\ Small \in Nat /\ MaxCalls \in Nat
  /\ Texts \subseteq [Limbs -> Nat]
  /\ \A m \in Factors : m \in Nat \ {0}

-----------------------------------------------------------------------------
(* Numbers, by their limbs, mod m.                                         *)

Mod(h, m) ==
  LET on(high, i) == (high * Size[i] + h[i]) % m
  IN on(on(on(on(on(on(on(on(on(h[9] % m, 8), 7), 6), 5), 4), 3), 2), 1), 0)

(* a b mod m where the product may not fit TLC's integers. *)
TimesMod(a, b, m) == (((a * (b \div 1000)) % m) * 1000 + a * (b % 1000)) % m

Each(Op(_)) == [m \in Factors |-> Op(m)]

(* The number the limbs stand for. *)
Meaning(h) == Each(LAMBDA m : Mod(h, m))

(* load_3(s + 29) & 8388607 *)
WithoutTopBit(load) == load % (Size[9] \div Shift[9])

(* The number the bytes stand for: the loads one above the other, each as  *)
(* wide as what is between the places where it and the next one start.     *)
LoadSize(i) == (Size[i] * Shift[i + 1]) \div Shift[i]
TextMeaning(s) ==
  Each(LAMBDA m :
         LET on(high, i) == (high * LoadSize(i) + s[i]) % m
             top == WithoutTopBit(s[9]) % m
         IN on(on(on(on(on(on(on(on(on(top, 8), 7), 6), 5), 4), 3), 2), 1), 0))

-----------------------------------------------------------------------------
(* What the functions compute before they carry.                           *)

Constant(n) == [i \in Limbs |-> IF i = 0 THEN n ELSE 0]                 \* fe_0, fe_1
Sum(f, g)        == [i \in Limbs |-> f[i] + g[i]]                       \* fe_add
Difference(f, g) == [i \in Limbs |-> f[i] - g[i]]                       \* fe_sub
Opposite(f)      == [i \in Limbs |-> -f[i]]                             \* fe_neg

Loaded(s) ==
  [i \in Limbs |-> (IF i = 9 THEN WithoutTopBit(s[9]) ELSE s[i]) * Shift[i]]

(* Two odd limbs weigh twice what the limb between them does, and what is  *)
(* above the tenth limb comes back Excess times.                           *)
Weight2(i, j) == (IF i % 2 = 1 /\ j % 2 = 1 THEN 2 ELSE 1)
                   * (IF i + j >= 10 THEN Excess ELSE 1)

SumOver(Op(_)) ==
  Op(0) + Op(1) + Op(2) + Op(3) + Op(4) + Op(5) + Op(6) + Op(7) + Op(8) + Op(9)

Product10(f, g) ==
  [k \in Limbs |->
     SumOver(LAMBDA i : LET j == (k - i) % 10 IN f[i] * g[j] * Weight2(i, j))]

(* The products of two different limbs are taken once, and doubled. *)
Square10(f) ==
  [k \in Limbs |->
     SumOver(LAMBDA i : LET j == (k - i) % 10 IN
               IF i < j THEN 2 * f[i] * f[j] * Weight2(i, j)
               ELSE IF i = j THEN f[i] * f[i] * Weight2(i, i) ELSE 0)]

(* fe_sq2 doubles every sum; fe_mul121666. *)
Scaled10(f, n) == [i \in Limbs |-> f[i] * n]

(* How often the modulus is in h: the carry out of h + Excess/2^255 h. *)
CarryOut(h, q) ==
  LET next(c, i) == (h[i] + c) \div Size[i]
  IN next(next(next(next(next(next(next(next(next(next(q, 0), 1), 2), 3), 4), 5), 6), 7), 8), 9)

(* Mutant: the quotient of the limbs alone. *)
QuotientOfLimbs(h) == CarryOut(h, 0)

Quotient(h) == CarryOut(h, (Excess * h[9] + Size[9] \div 2) \div Size[9])

-----------------------------------------------------------------------------
(* Carries.                                                                *)

(* Mutant: the last limb's carry comes back once. *)
RoundedOnce(h, i) ==
  LET c == (h[i] + Size[i] \div 2) \div Size[i]
  IN [h EXCEPT ![i] = @ - c * Size[i], ![(i + 1) % 10] = @ + c]

(* The last limb's carry comes back to the first, Excess times.            *)
Rounded(h, i) ==
  LET c == (h[i] + Size[i] \div 2) \div Size[i] IN
  IF i = 9 THEN [h EXCEPT ![9] = @ - c * Size[9], ![0] = @ + c * Excess]
           ELSE [h EXCEPT ![i] = @ - c * Size[i], ![i + 1] = @ + c]

(* fe_tobytes: the last carry is dropped. *)
Floored(h, i) ==
  LET c == h[i] \div Size[i] IN
  IF i = 9 THEN [h EXCEPT ![9] = @ - c * Size[9]]
           ELSE [h EXCEPT ![i] = @ - c * Size[i], ![i + 1] = @ + c]

ProductCarries == <<0, 4, 1, 5, 2, 6, 3, 7, 4, 8, 9, 0>>
LinearCarries  == <<9, 1, 3, 5, 7, 0, 2, 4, 6, 8>>
FinalCarries   == <<0, 1, 2, 3, 4, 5, 6, 7, 8, 9>>

-----------------------------------------------------------------------------
VARIABLES
  regF, regG, \* two elements: limbs, the number they stand for, their bound
  work,     \* the limbs of the function that runs and the number they stand for
  doing,    \* "idle", "load", "product", "linear" or "write"
  pending,  \* the limbs whose carries are still to come
  calls

fieldVars == <<regF, regG, work, doing, pending, calls>>

(* bound counts in units of what a product leaves, 1.01 * 2^25, which the  *)
(* preconditions limit: to 1.1 * 2^26 where bytes are written, to          *)
(* 1.65 * 2^26 for a factor.                                               *)
Element(limbs, meaning, bound) == [limbs |-> limbs, meaning |-> meaning, bound |-> bound]
Writable == 2
Factor   == 3

FieldInit ==
  /\ regF = Element(Constant(0), Meaning(Constant(0)), 1)
  /\ regG = Element(Constant(1), Meaning(Constant(1)), 1)
  /\ work = regF /\ doing = "idle" /\ pending = <<>> /\ calls = 0

Call == doing = "idle" /\ calls < MaxCalls /\ calls' = calls + 1

(* A function that does not carry. *)
Direct(limbs, meaning, bound) ==
  /\ Call /\ bound <= Factor
  /\ regF' = Element(limbs, meaning, bound)
  /\ UNCHANGED <<regG, work, doing, pending>>

Begin(limbs, meaning, what, carries) ==
  /\ Call
  /\ work' = Element(limbs, meaning, 1) /\ doing' = what /\ pending' = carries
  /\ UNCHANGED <<regF, regG>>

FeAddLimbs ==
  Direct(Sum(regF.limbs, regG.limbs),
         Each(LAMBDA m : (regF.meaning[m] + regG.meaning[m]) % m), regF.bound + regG.bound)

FeSubLimbs ==
  Direct(Difference(regF.limbs, regG.limbs),
         Each(LAMBDA m : (regF.meaning[m] - regG.meaning[m]) % m), regF.bound + regG.bound)

FeNegLimbs == Direct(Opposite(regF.limbs), Each(LAMBDA m : (-regF.meaning[m]) % m), regF.bound)

(* fe_cmov, by what its masks do. *)
FeCMov(b) ==
  LET chosen == IF b = 1 THEN regG ELSE regF
  IN Direct(chosen.limbs, chosen.meaning, chosen.bound)

(* fe_cswap, where it swaps. *)
FeCSwap ==
  /\ Call
  /\ regF' = regG /\ regG' = regF
  /\ UNCHANGED <<work, doing, pending>>

FeFromBytes(s) == Begin(Loaded(s), TextMeaning(s), "load", LinearCarries)

FeMulLimbs ==
  Begin(Product10(regF.limbs, regG.limbs),
        Each(LAMBDA m : TimesMod(regF.meaning[m], regG.meaning[m], m)), "product", ProductCarries)

SquareMeaning(n) ==
  Each(LAMBDA m : (n * TimesMod(regF.meaning[m], regF.meaning[m], m)) % m)

FeSqLimbs == Begin(Square10(regF.limbs), SquareMeaning(1), "product", ProductCarries)

FeSq2Limbs ==
  Begin(Scaled10(Square10(regF.limbs), 2), SquareMeaning(2), "product", ProductCarries)

FeMul121666 ==
  /\ regF.bound <= Writable
  /\ Begin(Scaled10(regF.limbs, Small), Each(LAMBDA m : TimesMod(regF.meaning[m], Small, m)),
           "linear", LinearCarries)

FeToBytes ==
  /\ doing = "idle" /\ regF.bound <= Writable
  /\ work' = Element([regF.limbs EXCEPT ![0] = @ + Excess * Quotient(regF.limbs)], regF.meaning, 1)
  /\ doing' = "write" /\ pending' = FinalCarries
  /\ UNCHANGED <<regF, regG, calls>>

CarryStep ==
  /\ pending # <<>>
  /\ work' = [work EXCEPT !.limbs = IF doing = "write" THEN Floored(@, Head(pending))
                                                       ELSE Rounded(@, Head(pending))]
  /\ pending' = Tail(pending)
  /\ UNCHANGED <<regF, regG, doing, calls>>

(* A loaded element displaces the other one, by fe_copy. *)
Return ==
  /\ doing \in {"load", "product", "linear"} /\ pending = <<>>
  /\ regF' = work /\ regG' = IF doing = "load" THEN regF ELSE regG
  /\ doing' = "idle"
  /\ UNCHANGED <<work, pending, calls>>

FieldNext ==
  \/ FeAddLimbs \/ FeSubLimbs \/ FeNegLimbs \/ FeMulLimbs \/ FeSqLimbs \/ FeSq2Limbs
  \/ FeMul121666 \/ FeCSwap \/ FeToBytes \/ CarryStep \/ Return
  \/ \E b \in 0..1 : FeCMov(b)
  \/ \E s \in Texts : FeFromBytes(s)

FieldSpec == FieldInit /\ [][FieldNext]_fieldVars

-----------------------------------------------------------------------------
ElementOK(e) == /\ e.limbs \in [Limbs -> Int] /\ e.bound \in 1..Factor
                /\ e.meaning \in [Factors -> Nat]

FieldTypeOK ==
  /\ ElementOK(regF) /\ ElementOK(regG) /\ ElementOK(work)
  /\ doing \in {"idle", "load", "product", "linear", "write"}
  /\ pending \in Seq(Limbs) /\ calls \in 0..MaxCalls

(* No carry, and no sum of products, changes the number mod the modulus.   *)
NumberKept ==
  /\ Meaning(regF.limbs) = regF.meaning /\ Meaning(regG.limbs) = regG.meaning
  /\ doing # "write" => Meaning(work.limbs) = work.meaning

AboveModulus(h) == h[0] >= Size[0] - Excess /\ \A i \in 1..9 : h[i] = Size[i] - 1

(* What fe_tobytes writes is the one number below the modulus, in limbs    *)
(* that do not overlap, however far from reduced the element was: keys and *)
(* signatures are compared byte by byte, and the sign of x is a bit of it. *)
CanonicalBytes ==
  doing = "write" /\ pending = <<>> =>
    /\ \A i \in Limbs : work.limbs[i] \in 0..Size[i]-1
    /\ ~AboveModulus(work.limbs)
    /\ Meaning(work.limbs) = regF.meaning
=============================================================================
