----------------------------- MODULE DoubleMult -----------------------------
(***************************************************************************)
(* src/ed25519/ge.c: slide, which makes the bits of a scalar odd digits    *)
(* with gaps between them, and ge_double_scalarmult_vartime, which         *)
(* computes a A + b B with them.  On the small curve of ScalarMult; one    *)
(* action per iteration of a loop.                                         *)
(***************************************************************************)
EXTENDS ScalarMult

CONSTANT Sums \* bound: the factors tried: a, b and the point A

Bits == 8 * Bytes
BitPlaces == 0..Bits-1

(* A carry may end one place above the highest bit of a factor. *)
ASSUME SumsAssumption ==
  \A s \in Sums : /\ {s.a, s.b} \subseteq [0..Bytes-1 -> 0..255] /\ s.A \in Curve
                  /\ s.a[Bytes-1] <= 127 /\ s.b[Bytes-1] <= 127

VARIABLES
  asked,  \* a, b, A
  slid,   \* aslide and bslide, for factor 1 and 2
  which,  \* the factor that slide is called for
  place,  \* i
  offset, \* b of slide
  sum,    \* r
  phase   \* "slide", "top", "add" or "done"

doubleVars == <<asked, slid, which, place, offset, sum, phase>>

-----------------------------------------------------------------------------
(* slide.                                                                  *)

(* Shifts are by seven bits at most. *)
Two == [n \in 0..7 |-> <<1, 2, 4, 8, 16, 32, 64, 128>>[n + 1]]

Bit(s, k) == (s[k \div 8] \div Two[k % 8]) % 2
BitsOf(s) == [k \in BitPlaces |-> Bit(s, k)]

DoubleInit ==
  /\ asked \in Sums
  /\ slid = <<BitsOf(asked.a), BitsOf(asked.b)>> /\ which = 1
  /\ place = 0 /\ offset = 1
  /\ sum = P2(P3Zero) /\ phase = "slide"

Digit2 == slid[which][place]
Inner  == phase = "slide" /\ Digit2 # 0 /\ offset <= 6 /\ place + offset < Bits
Ahead  == slid[which][place + offset] * Two[offset]

Put(digits) ==
  /\ slid' = [slid EXCEPT ![which] = digits] /\ offset' = offset + 1
  /\ UNCHANGED <<asked, which, place, sum, phase>>

SkipBit == Inner /\ Ahead = 0 /\ Put(slid[which])

AbsorbBit ==
  /\ Inner /\ Ahead # 0 /\ Digit2 + Ahead <= 15
  /\ Put([slid[which] EXCEPT ![place] = @ + Ahead, ![place + offset] = 0])

(* Mutant: the carry stops at the next place. *)
CarriedOnce(r, k) == [j \in BitPlaces |-> IF j = k THEN 0 ELSE IF j = k + 1 THEN 1 ELSE r[j]]

(* One more at place k: ones become zeros up to the first zero, if any.    *)
Carried(r, k) ==
  LET passed(j) == \A l \in k..j-1 : r[l] # 0
  IN [j \in BitPlaces |-> IF j >= k /\ passed(j) THEN IF r[j] = 0 THEN 1 ELSE 0 ELSE r[j]]

(* A bit too many to absorb: the digit becomes negative. *)
BorrowBit ==
  /\ Inner /\ Ahead # 0 /\ Digit2 + Ahead > 15 /\ Digit2 - Ahead >= -15
  /\ Put([Carried(slid[which], place + offset) EXCEPT ![place] = @ - Ahead])

(* The digit is zero, no place is left to look at, or it has no room. *)
NextPlace ==
  /\ phase = "slide"
  /\ Inner => Ahead # 0 /\ Digit2 + Ahead > 15 /\ Digit2 - Ahead < -15
  /\ offset' = 1
  /\ IF place + 1 < Bits
     THEN place' = place + 1 /\ UNCHANGED <<which, phase>>
     ELSE IF which = 1 THEN which' = 2 /\ place' = 0 /\ UNCHANGED phase
                       ELSE place' = Bits - 1 /\ phase' = "top" /\ UNCHANGED which
  /\ UNCHANGED <<asked, slid, sum>>

-----------------------------------------------------------------------------
(* ge_double_scalarmult_vartime.                                           *)

(* The loop that looks for the highest digit. *)
FindTop ==
  /\ phase = "top"
  /\ IF place >= 0 /\ slid[1][place] = 0 /\ slid[2][place] = 0
     THEN place' = place - 1 /\ UNCHANGED phase
     ELSE phase' = "add" /\ UNCHANGED place
  /\ UNCHANGED <<asked, slid, which, offset, sum>>

(* A, 3A, 5A, ..., 15A. *)
OddMultiples(p) ==
  LET p2 == ToP3(GeDbl(P2(p)))
      odd[k \in 0..7] == IF k = 0 THEN p ELSE ToP3(GeAdd(p2, ToCached(odd[k - 1])))
  IN [k \in 0..7 |-> ToCached(odd[k])]

(* The table of precomp_data.h is taken to hold B, 3B, 5B, ..., 15B. *)
Bi == [k \in 0..7 |-> Precomp(TimesBase(2 * k + 1))]

AddA(t, n) ==
  LET Ai == OddMultiples(Scaled(asked.A))
  IN IF n > 0 THEN GeAdd(ToP3(t), Ai[n \div 2])
     ELSE IF n < 0 THEN GeSub(ToP3(t), Ai[(-n) \div 2]) ELSE t

AddB(t, n) ==
  IF n > 0 THEN GeMAdd(ToP3(t), Bi[n \div 2])
  ELSE IF n < 0 THEN GeMSub(ToP3(t), Bi[(-n) \div 2]) ELSE t

AddPlace ==
  /\ phase = "add" /\ place >= 0
  /\ sum' = ToP2(AddB(AddA(GeDbl(sum), slid[1][place]), slid[2][place]))
  /\ place' = place - 1
  /\ UNCHANGED <<asked, slid, which, offset, phase>>

Added ==
  /\ phase = "add" /\ place < 0 /\ phase' = "done"
  /\ UNCHANGED <<asked, slid, which, place, offset, sum>>

DoubleNext ==
  SkipBit \/ AbsorbBit \/ BorrowBit \/ NextPlace \/ FindTop \/ AddPlace \/ Added

DoubleSpec == DoubleInit /\ [][DoubleNext]_doubleVars

-----------------------------------------------------------------------------
DoubleTypeOK ==
  /\ asked \in Sums /\ slid \in [1..2 -> [BitPlaces -> -15..15]] /\ which \in 1..2
  /\ place \in -1..Bits-1 /\ offset \in 1..7
  /\ sum \in [X : 0..P-1, Y : 0..P-1, Z : 0..P-1]
  /\ phase \in {"slide", "top", "add", "done"}

(* The digits from place k up, in units of 2^k. *)
From(r, k) ==
  LET high[j \in k..Bits] == IF j = Bits THEN 0 ELSE high[j + 1] * 2 + r[j]
  IN high[k]

(* Multiples of any point of the curve, by doubling. *)
Multiples ==
  [q \in Curve |->
     LET times[k \in 0..8*Order] ==
           IF k = 0 THEN Affine(0, 1)
           ELSE LET half == times[k \div 2] IN
                IF k % 2 = 0 THEN Plus(half, half) ELSE Plus(Plus(half, half), q)
     IN times]

(* 8 Order, the order of the group, takes every point to the neutral one.  *)
ASSUME GroupOrderAssumption == \A q \in Curve : Multiples[q][8 * Order] = Affine(0, 1)

Combination(m, n) == Plus(Multiples[asked.A][m % (8 * Order)], TimesBase(n))

(* Whatever is absorbed, borrowed and carried, the digits keep the value   *)
(* of their factor, and those that are done are zero or have an entry in   *)
(* the tables of odd multiples; the sum is the combination of A and B that *)
(* the digits so far stand for, at the end a A + b B.                      *)
DoubleSum ==
  /\ From(slid[1], 0) = ValueOf(asked.a) /\ From(slid[2], 0) = ValueOf(asked.b)
  /\ \A w \in 1..2 : \A k \in BitPlaces :
       w < which \/ phase # "slide" \/ (w = which /\ k < place) =>
         slid[w][k] = 0 \/ slid[w][k] % 2 = 1
  /\ phase # "slide" =>
       StandsFor(sum, Combination(From(slid[1], place + 1), From(slid[2], place + 1)))
  /\ phase = "done" => StandsFor(sum, Combination(ValueOf(asked.a), ValueOf(asked.b)))
=============================================================================
