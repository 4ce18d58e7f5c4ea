----------------------------- MODULE ScalarLimbs ----------------------------
(***************************************************************************)
(* src/ed25519/sc.c: the scalars mod the group order L as numbers of 24,   *)
(* later 12, limbs.  sc_reduce and sc_muladd are straight-line code of     *)
(* three kinds of steps, so each is a program of steps here, run one step  *)
(* per action.                                                             *)
(*                                                                         *)
(* The limbs are 21 bits there and Radix here; how large they can get at   *)
(* 21 bits is followed at the side, in `bits'.                             *)
(***************************************************************************)
EXTENDS Integers, Sequences

CONSTANTS
  Radix,      \* 2^21
  Multiplier, \* six digits, 666643 to -683901: minus L, without its top bit
  L,          \* Radix^12 less the value of the digits
  TopLimbs,   \* 2^25: what the top limb of a factor is below
  Reductions, \* bound: the 24 limbs sc_reduce is tried on
  Operands    \* bound: the 12 limbs sc_muladd is tried on

Places == 0..23

(* The number in limbs, mod L. *)
Residue(s, n) ==
  LET high[k \in 0..n] == IF k = 0 THEN 0 ELSE (high[k - 1] * Radix + s[n - k]) % L
  IN high[n]

Value(s, n) ==
  LET high[k \in 0..n] == IF k = 0 THEN 0 ELSE high[k - 1] * Radix + s[n - k]
  IN high[n]

ASSUME ScalarAssumption ==
  /\ Radix \in Nat \ {0} /\ Radix % 2 = 0 /\ L \in Nat \ {0} /\ TopLimbs \in Nat
  /\ Multiplier \in [0..5 -> Int]
  /\ Residue([k \in 0..12 |-> IF k = 12 THEN 1 ELSE 0], 13)
       = Value(Multiplier, 6) % L                 \* Radix^12 = the digits mod L
  /\ \A s \in Reductions : /\ s \in [Places -> 0..256*Radix-1]  \* 29 bits at the top
                           /\ \A k \in 0..22 : s[k] < Radix
  /\ \A f \in Operands : /\ f \in [0..11 -> 0..TopLimbs-1]
                        /\ \A k \in 0..10 : f[k] < Radix

-----------------------------------------------------------------------------
(* The programs.                                                           *)

(* n steps of a kind, at the limbs from, from + stride, ... *)
Pass(op, from, n, stride) ==
  [i \in 1..n |-> [op |-> op, at |-> from + (i - 1) * stride]]

(* The upper twelve limbs are folded into the lower ones, with a pass of   *)
(* carries in between that keeps the products small.                       *)
FoldHighLimbs ==
  Pass("fold", 23, 6, -1) \o Pass("round", 6, 6, 2) \o Pass("round", 7, 5, 2)
    \o Pass("fold", 17, 6, -1)

(* Carries out of every limb; what reaches limb 12 is folded twice more.   *)
SettleLimbs ==
  Pass("round", 0, 6, 2) \o Pass("round", 1, 6, 2)
    \o Pass("fold", 12, 1, 1) \o Pass("floor", 0, 12, 1)
    \o Pass("fold", 12, 1, 1) \o Pass("floor", 0, 11, 1)

ReduceProgram == FoldHighLimbs \o SettleLimbs

(* Mutant: the products are folded as they are. *)
MulAddWithoutCarries == FoldHighLimbs \o SettleLimbs

MulAddProgram ==
  Pass("round", 0, 12, 2) \o Pass("round", 1, 11, 2) \o FoldHighLimbs \o SettleLimbs

(* s_k = c_k + the sum of the a_i b_j with i + j = k. *)
Products(a, b, c) ==
  [k \in Places |->
     LET sum[i \in -1..11] ==
           IF i = -1 THEN IF k < 12 THEN c[k] ELSE 0
           ELSE sum[i - 1] + (IF k - i \in 0..11 THEN a[i] * b[k - i] ELSE 0)
     IN sum[11]]

(* (ab + c) mod L for reference, along the limbs of b. *)
MulAdd(a, b, c) ==
  LET x == Value(a, 12) % L
      times(v, m) == (v * m) % L     \* m is a limb
      high[k \in 0..12] ==
        IF k = 0 THEN 0 ELSE (times(high[k - 1], Radix) + times(x, b[12 - k])) % L
  IN (high[12] + Value(c, 12)) % L

-----------------------------------------------------------------------------
(* Sizes at 21 bits: bits[k] = n stands for |limb k| < 2^n.                *)

Larger(m, n)    == IF m < n THEN n ELSE m
SumBits(m, n)   == IF m = 0 \/ n = 0 THEN Larger(m, n) ELSE Larger(m, n) + 1
MultiplierBits  == 20

(* The top limb is what is left of the 64 bytes. *)
ReduceBits == [k \in Places |-> IF k = 23 THEN 29 ELSE 21]

(* At most twelve products of 21 bits, those of a top limb of 25.          *)
ProductBits == [k \in Places |-> CASE k < 11 -> 42 + 4 [] k = 22 -> 50
                                   [] k = 23 -> 0 [] OTHER -> 46 + 4]

-----------------------------------------------------------------------------
VARIABLES
  program, \* what is run
  limb,    \* s0 to s23
  bits,
  pc,      \* the step to run
  residue, \* the result asked for
  stored   \* s at the end, -1 before; no number if limbs overlap

scalarVars == <<program, limb, bits, pc, residue, stored>>

StartReduce(s) ==
  /\ program = ReduceProgram /\ limb = s /\ bits = ReduceBits
  /\ residue = Residue(s, 24)

StartMulAdd(a, b, c) ==
  /\ program = MulAddProgram /\ limb = Products(a, b, c) /\ bits = ProductBits
  /\ residue = MulAdd(a, b, c)

ScalarInit ==
  /\ \/ \E s \in Reductions : StartReduce(s)
     \/ \E a, b, c \in Operands : StartMulAdd(a, b, c)
  /\ pc = 1 /\ stored = -1

At(op, k) == pc <= Len(program) /\ program[pc] = [op |-> op, at |-> k]

Fold(k) ==
  /\ At("fold", k)
  /\ limb' = [j \in Places |->
                CASE j = k -> 0
                  [] j \in k-12..k-7 -> limb[j] + limb[k] * Multiplier[j - (k - 12)]
                  [] OTHER -> limb[j]]
  /\ bits' = [j \in Places |->
                CASE j = k -> 0
                  [] j \in k-12..k-7 -> SumBits(bits[j], bits[k] + MultiplierBits)
                  [] OTHER -> bits[j]]

Carry(k, amount, amountBits) ==
  /\ limb' = [limb EXCEPT ![k] = @ - amount * Radix, ![k + 1] = @ + amount]
  /\ bits' = [bits EXCEPT ![k] = 21, ![k + 1] = SumBits(@, amountBits)]

(* Mutant: the carry is not rounded. *)
RoundDown(k) == At("round", k) /\ Carry(k, limb[k] \div Radix, Larger(bits[k] - 20, 0))

(* carry = (s + (1 << 20)) >> 21, the limb is left in -2^20..2^20-1. *)
Round(k) ==
  At("round", k) /\ Carry(k, (limb[k] + Radix \div 2) \div Radix, Larger(bits[k] - 20, 0))

(* carry = s >> 21, the limb is left in 0..2^21-1. *)
Floor(k) ==
  At("floor", k) /\ Carry(k, limb[k] \div Radix, Larger(bits[k] - 21, 0) + 1)

ScalarStep ==
  /\ \E k \in Places : Fold(k) \/ Round(k) \/ Floor(k)
  /\ pc' = pc + 1
  /\ UNCHANGED <<program, residue, stored>>

(* The limbs are put next to each other with | and shifts: their number if *)
(* each has its 21 bits, something else if not.                            *)
Apart == limb[11] >= 0 /\ \A k \in 0..10 : limb[k] \in 0..Radix-1

Store ==
  /\ pc = Len(program) + 1 /\ stored = -1
  /\ stored' = IF Apart THEN Value(limb, 12) ELSE -2
  /\ UNCHANGED <<program, limb, bits, pc, residue>>

ScalarNext == ScalarStep \/ Store

ScalarSpec == ScalarInit /\ [][ScalarNext]_scalarVars

-----------------------------------------------------------------------------
ScalarTypeOK ==
  /\ program \in {ReduceProgram, MulAddProgram} /\ pc \in 1..Len(program)+1
  /\ limb \in [Places -> Int] /\ bits \in [Places -> Nat]
  /\ residue \in 0..L-1 /\ stored \in Int

(* No step loses anything: the limbs stay congruent to what was asked for, *)
(* and what is stored is the one such number in 0..L-1, whatever the       *)
(* carries: signatures compare with and hash these bytes.                  *)
Congruent == Residue(limb, 24) = residue

Reduced ==
  /\ Congruent
  /\ stored # -1 => stored = residue

(* No limb, and no sum with the 2^20 a carry is rounded by, needs more     *)
(* than the 63 bits and the sign of an int64_t.                            *)
NoOverflow == \A k \in Places : bits[k] <= 62
=============================================================================
