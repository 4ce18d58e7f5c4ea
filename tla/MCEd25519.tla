------------------------------ MODULE MCEd25519 ------------------------------
(***************************************************************************)
(* Small instances of the parts of src/ed25519/, each checked on its own:  *)
(* the other parts stay in their initial states.  Scalars of two bytes on  *)
(* a curve of 56 points, blocks of six bytes, keys mod 7; scalar limbs of  *)
(* two bits, field limbs of six and five.                                  *)
(***************************************************************************)
EXTENDS Sha512, DoubleMult, FieldChains, Ed25519Keys, ScalarLimbs, FieldLimbs

VARIABLE part

(* Nibbles around 7 and 8, where the recoding carries, alone and in runs. *)
Lows  == {0, 7, 8, 15, 16, 119, 120, 127, 128, 136, 143, 247, 248, 255}
Highs == {0, 7, 8, 15, 16, 119, 120, 127}
SomeScalars == {[k \in 0..1 |-> IF k = 0 THEN l ELSE m] : l \in Lows, m \in Highs}

(* A is a point of the order of the whole group, or one of order 4.        *)
InBytes(n) == [k \in 0..1 |-> IF k = 0 THEN n % 256 ELSE n \div 256]
SomeSums ==
  {[a |-> InBytes(l + 256 * h), b |-> InBytes((l * 5 + 7 * h) % 32768), A |-> q] :
     l \in {0, 1, 7, 8, 15, 31, 119, 127, 128, 136, 170, 219, 247, 255},
     h \in {0, 1, 15, 64, 85, 119, 126, 127}, q \in {Affine(3, 8), Affine(50, 0)}}

OneByte == <<1>>

(* Any function will do. *)
Mix(word, n) == (word * 167 + n * 91 + 13) % 4096
SomeHash(s) ==
  LET mixed[k \in 0..Len(s)] == IF k = 0 THEN Len(s) ELSE Mix(mixed[k - 1], s[k])
  IN mixed[Len(s)]

-----------------------------------------------------------------------------
(* Scalars: four to the limb, the group order 4^12 + 1337.                 *)

SmallDigits == [k \in 0..5 |-> <<-1, -2, 1, -1, -1, -1>>[k + 1]]

(* 24 limbs of upper * 4^12 + lower. *)
InLimbs(upper, lower) ==
  [k \in Places |-> IF k = 23 THEN upper \div 4^11
                    ELSE IF k >= 12 THEN (upper \div 4^(k-12)) % 4 ELSE (lower \div 4^k) % 4]

(* Numbers around multiples of the order; limbs alike, or in a pattern,    *)
(* around half a limb and a whole one; single limbs.                       *)
Around(m, e) == LET x == m * 1337 + e IN InLimbs(m + (x \div 4^12), x % 4^12)
Several == {1, 2, 3, 1023, 65536, 99999, 1048575, 1590000}
SomeNumbers ==
  {Around(m, e) : m \in Several, e \in {-1, 0, 1, 4^12 - 1, 4^12, 4^12 + 1336}}
    \cup {[k \in Places |-> IF k % m = 0 THEN x ELSE y] : m \in 2..3, x, y \in 0..3}
    \cup {[k \in Places |-> IF k < 12 THEN x ELSE y] : x, y \in 0..3}
    \cup {[k \in Places |-> IF k = 23 THEN x ELSE IF k = 0 THEN y ELSE 0] : x \in 0..7, y \in 0..3}

TwelveLimbs(v) == [k \in 0..11 |-> IF k = 11 THEN v \div 4^11 ELSE (v \div 4^k) % 4]
SomeOperands == {TwelveLimbs(v) : v \in {0, 1, 8947849, 4^12 - 1, 4^12 + 1336, 2^25 - 1}}

-----------------------------------------------------------------------------
(* Field elements: 55 bits, the modulus 2^55 - 3.                          *)

SmallSizes  == [i \in 0..9 |-> IF i % 2 = 0 THEN 64 ELSE 32]
SmallShifts == [i \in 0..9 |-> <<1, 2, 2, 2, 2, 1, 4, 2, 2, 2>>[i + 1]]

(* Bits of each load: 56 in all. *)
LoadBits == <<7, 5, 6, 5, 5, 7, 5, 5, 6, 5>>
Ones(i)  == 2^LoadBits[i + 1] - 1
AlmostOnes(d, top) == [i \in 0..9 |-> IF i = 0 THEN 127 - d ELSE IF i = 9 THEN top ELSE Ones(i)]

(* 2^56 - 1; the modulus and the number below; two halves of the modulus;  *)
(* others.                                                                 *)
SomeTexts ==
  {AlmostOnes(0, 31), AlmostOnes(2, 15), AlmostOnes(3, 15), AlmostOnes(0, 7), AlmostOnes(1, 7)}
    \cup {[i \in 0..9 |-> Ones(i) \div 2], [i \in 0..9 |-> (37 * i + 11) % (Ones(i) + 1)]}

-----------------------------------------------------------------------------
Parts == {"sha", "mult", "double", "chain", "keys", "scalar", "field"}

(* A part that does not run waits in one initial state. *)
Waiting == [k \in Places |-> 0]

Init ==
  /\ part \in Parts
  /\ scalar \in IF part = "mult" THEN Scalars ELSE {[k \in 0..1 |-> 0]}
  /\ IF part = "scalar" THEN ScalarInit
                        ELSE StartReduce(Waiting) /\ pc = 1 /\ stored = -1
  /\ asked \in IF part = "double" THEN Sums ELSE {CHOOSE s \in Sums : TRUE}
  /\ ShaInit /\ MultInit /\ DoubleInit /\ ChainInit /\ KeysInit /\ FieldInit
  /\ part # "chain" => chain = "invert"
  /\ part # "keys"  => low = 3 /\ source = "derived"

Next ==
  /\ \/ part = "sha"    /\ ShaNext
        /\ UNCHANGED <<multVars, doubleVars, chainVars, keysVars, scalarVars, fieldVars>>
     \/ part = "mult"   /\ MultNext
        /\ UNCHANGED <<shaVars, doubleVars, chainVars, keysVars, scalarVars, fieldVars>>
     \/ part = "double" /\ DoubleNext
        /\ UNCHANGED <<shaVars, multVars, chainVars, keysVars, scalarVars, fieldVars>>
     \/ part = "chain"  /\ ChainNext
        /\ UNCHANGED <<shaVars, multVars, doubleVars, keysVars, scalarVars, fieldVars>>
     \/ part = "keys"   /\ KeysNext
        /\ UNCHANGED <<shaVars, multVars, doubleVars, chainVars, scalarVars, fieldVars>>
     \/ part = "scalar" /\ ScalarNext
        /\ UNCHANGED <<shaVars, multVars, doubleVars, chainVars, keysVars, fieldVars>>
     \/ part = "field"  /\ FieldNext
        /\ UNCHANGED <<shaVars, multVars, doubleVars, chainVars, keysVars, scalarVars>>
  /\ UNCHANGED part

Spec ==
  Init /\ [][Next]_<<part, shaVars, multVars, doubleVars, chainVars, keysVars, scalarVars,
                    fieldVars>>

(* Every variable of every part keeps its type. *)
TypesOK ==
  /\ ShaTypeOK /\ MultTypeOK /\ KeysTypeOK /\ ScalarTypeOK /\ FieldTypeOK
  /\ part = "double" => DoubleTypeOK

(* In both multiplications the point is at each step the multiple that the *)
(* signed digits processed so far stand for, and the digits keep the value *)
(* of the scalar through every carry (ge.c:25-130, 386-433).               *)
PartialSums == (part = "mult" => PartialSum) /\ (part = "double" => DoubleSum)
=============================================================================
