----------------------------- MODULE FieldChains -----------------------------
(***************************************************************************)
(* The addition chains of fe_invert and fe_pow22523 in src/ed25519/fe.c.   *)
(* A field element is a power of the argument z; it is represented by its  *)
(* exponent, the exponent by the set of its one bits.  One action per      *)
(* fe_mul, with the squarings that lead up to it.                          *)
(***************************************************************************)
EXTENDS Integers, Sequences

VARIABLES
  chain, \* which of the two functions runs
  line,  \* statements done
  reg    \* exponents in t0 .. t3 and in out

chainVars == <<chain, line, reg>>

Regs == {"z", "t0", "t1", "t2", "t3", "out"}

(* t^(2^n): fe_sq and the loop of n - 1 more. *)
Squared(bits, n) == {k + n : k \in bits}

(* The product of two powers.  In both chains the sum of the exponents has *)
(* no carry; {-1} would stand for one that has.                            *)
Product(bits, more) == IF bits \cap more = {} THEN bits \cup more ELSE {-1}

(* <<target, factor, source, n>>: target := factor * source^(2^n).  Where  *)
(* the code squares in place, the intermediate register is given by `via'. *)
Mul(target, factor, via, source, n) ==
  [target |-> target, factor |-> factor, via |-> via, source |-> source, n |-> n]

InvertChain ==
  << Mul("t1", "z",  "t1", "t0", 2),    \* z^9; t0 is z^2
     Mul("t0", "t1", "t0", "t0", 0),    \* z^11
     Mul("t1", "t1", "t2", "t0", 1),    \* 2^5 - 1
     Mul("t1", "t1", "t2", "t1", 5),    \* 2^10 - 1
     Mul("t2", "t1", "t2", "t1", 10),   \* 2^20 - 1
     Mul("t2", "t2", "t3", "t2", 20),   \* 2^40 - 1
     Mul("t1", "t1", "t2", "t2", 10),   \* 2^50 - 1
     Mul("t2", "t1", "t2", "t1", 50),   \* 2^100 - 1
     Mul("t2", "t2", "t3", "t2", 100),  \* 2^200 - 1
     Mul("t1", "t1", "t2", "t2", 50),   \* 2^250 - 1
     Mul("out", "t0", "t1", "t1", 5) >>

(* Mutant: one squaring too few before the last product. *)
Pow22523ChainShort ==
  << Mul("t1", "z",  "t1", "t0", 2),
     Mul("t0", "t1", "t0", "t0", 0),
     Mul("t0", "t1", "t0", "t0", 1),
     Mul("t0", "t0", "t1", "t0", 5),
     Mul("t1", "t0", "t1", "t0", 10),
     Mul("t1", "t1", "t2", "t1", 20),
     Mul("t0", "t0", "t1", "t1", 10),
     Mul("t1", "t0", "t1", "t0", 50),
     Mul("t1", "t1", "t2", "t1", 100),
     Mul("t0", "t0", "t1", "t1", 50),
     Mul("out", "z", "t0", "t0", 1) >>

Pow22523Chain ==
  << Mul("t1", "z",  "t1", "t0", 2),    \* z^9; t0 is z^2
     Mul("t0", "t1", "t0", "t0", 0),    \* z^11
     Mul("t0", "t1", "t0", "t0", 1),    \* 2^5 - 1
     Mul("t0", "t0", "t1", "t0", 5),    \* 2^10 - 1
     Mul("t1", "t0", "t1", "t0", 10),   \* 2^20 - 1
     Mul("t1", "t1", "t2", "t1", 20),   \* 2^40 - 1
     Mul("t0", "t0", "t1", "t1", 10),   \* 2^50 - 1
     Mul("t1", "t0", "t1", "t0", 50),   \* 2^100 - 1
     Mul("t1", "t1", "t2", "t1", 100),  \* 2^200 - 1
     Mul("t0", "t0", "t1", "t1", 50),   \* 2^250 - 1
     Mul("out", "z", "t0", "t0", 2) >>

Chain == IF chain = "invert" THEN InvertChain ELSE Pow22523Chain

(* After the first fe_sq(t0, z). *)
ChainInit ==
  /\ chain \in {"invert", "pow22523"} /\ line = 0
  /\ reg = [r \in Regs |-> IF r = "z" THEN {0} ELSE IF r = "t0" THEN {1} ELSE {}]

ChainNext ==
  /\ line < Len(Chain) /\ line' = line + 1
  /\ LET m == Chain[line + 1]
         s == Squared(reg[m.source], m.n)
     IN reg' = [reg EXCEPT ![m.via] = s, ![m.target] = Product(reg[m.factor], s)]
  /\ UNCHANGED chain

ChainSpec == ChainInit /\ [][ChainNext]_chainVars

-----------------------------------------------------------------------------
(* fe_invert computes z^(2^255 - 21), the inverse for p = 2^255 - 19, and  *)
(* fe_pow22523 computes z^(2^252 - 3), which is (p - 5)/8.                 *)
ChainsExact ==
  line = Len(Chain) =>
    reg["out"] = IF chain = "invert" THEN (0..254) \ {2, 4} ELSE (0..251) \ {1}
=============================================================================
