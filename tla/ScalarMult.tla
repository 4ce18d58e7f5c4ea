----------------------------- MODULE ScalarMult -----------------------------
(***************************************************************************)
(* src/ed25519/ge.c on a small instance of the curve: the same formulas    *)
(* over the integers mod a small prime P instead of 2^255 - 19, and        *)
(* ge_scalarmult_base with fewer bytes per scalar.  A state machine, one   *)
(* action per loop iteration, since what can go wrong is a carry, an index *)
(* or a digit that the table does not have.                                *)
(*                                                                         *)
(* The limbs of a field element are left out: an element is a number.      *)
(***************************************************************************)
EXTENDS Integers

CONSTANTS
  P, D,         \* -x^2 + y^2 = 1 + D x^2 y^2 over the integers mod P
  SqrtM1,       \* a square root of -1
  BaseX, BaseY, \* the base point
  Order,        \* its order
  Bytes,        \* 32: bytes of a scalar
  Scalars       \* bound: the scalars tried, as functions of the byte's index

Digits == 2 * Bytes

ASSUME BytesAssumption ==
  /\ Bytes \in Nat \ {0}
  /\ Scalars \subseteq [0..Bytes-1 -> 0..255]
  /\ \A s \in Scalars : s[Bytes-1] <= 127    \* `Preconditions: a[31] <= 127'

(* 16^n: what the n-th digit counts. *)
Power16[n \in 0..Digits+1] == IF n = 0 THEN 1 ELSE 16 * Power16[n - 1]

-----------------------------------------------------------------------------
(* fe.c.                                                                   *)

FeAdd(f, g) == (f + g) % P
FeSub(f, g) == (f - g) % P
FeMul(f, g) == (f * g) % P
FeNeg(f)    == (-f) % P
FeSq(f)     == FeMul(f, f)

FePower(z, n) ==
  LET power[k \in 0..n] == IF k = 0 THEN 1 ELSE FeMul(power[k - 1], z)
  IN power[n]

(* fe_invert and fe_pow22523; that their addition chains compute these     *)
(* powers is in FieldChains.                                               *)
FeInvert    == [z \in 0..P-1 |-> FePower(z, P - 2)]
FePow22523  == [z \in 0..P-1 |-> FePower(z, (P - 5) \div 8)]

FeIsNegative(f) == f % 2

-----------------------------------------------------------------------------
(* ge.c: the representations of a point and the formulas.                  *)

P2(p)  == [X |-> p.X, Y |-> p.Y, Z |-> p.Z]
P3Zero == [X |-> 0, Y |-> 1, Z |-> 1, T |-> 0]

(* ge_p1p1_to_p2, ge_p1p1_to_p3. *)
ToP2(r) == [X |-> FeMul(r.X, r.T), Y |-> FeMul(r.Y, r.Z), Z |-> FeMul(r.Z, r.T)]
ToP3(r) == [X |-> FeMul(r.X, r.T), Y |-> FeMul(r.Y, r.Z), Z |-> FeMul(r.Z, r.T),
            T |-> FeMul(r.X, r.Y)]

ToCached(p) == [YplusX |-> FeAdd(p.Y, p.X), YminusX |-> FeSub(p.Y, p.X),
                Z |-> p.Z, T2d |-> FeMul(p.T, FeAdd(D, D))]

(* The common part of the four additions: yp and ym belong to the second   *)
(* operand, c and z2 are the products of the T's and of the Z's.           *)
Completed(p, yp, ym, c, z2) ==
  LET plus  == FeMul(FeAdd(p.Y, p.X), yp)
      minus == FeMul(FeSub(p.Y, p.X), ym)
  IN [X |-> FeSub(plus, minus), Y |-> FeAdd(plus, minus),
      Z |-> FeAdd(z2, c), T |-> FeSub(z2, c)]

GeAdd(p, q) ==
  LET zz == FeMul(p.Z, q.Z)
  IN Completed(p, q.YplusX, q.YminusX, FeMul(q.T2d, p.T), FeAdd(zz, zz))

(* Mutant: the second operand is not negated in the denominators. *)
GeSubHalf(p, q) ==
  LET zz == FeMul(p.Z, q.Z)
  IN Completed(p, q.YminusX, q.YplusX, FeMul(q.T2d, p.T), FeAdd(zz, zz))

GeSub(p, q) ==
  LET zz == FeMul(p.Z, q.Z)
  IN Completed(p, q.YminusX, q.YplusX, FeNeg(FeMul(q.T2d, p.T)), FeAdd(zz, zz))

GeMAdd(p, q) ==
  Completed(p, q.yplusx, q.yminusx, FeMul(q.xy2d, p.T), FeAdd(p.Z, p.Z))

GeMSub(p, q) ==
  Completed(p, q.yminusx, q.yplusx, FeNeg(FeMul(q.xy2d, p.T)), FeAdd(p.Z, p.Z))

GeDbl(p) ==
  LET xx  == FeSq(p.X)
      yy  == FeSq(p.Y)
      sum2 == FeSq(FeAdd(p.X, p.Y))
      zz2 == FeAdd(FeSq(p.Z), FeSq(p.Z))
      dif == FeSub(yy, xx)
  IN [X |-> FeSub(sum2, FeAdd(yy, xx)), Y |-> FeAdd(yy, xx),
      Z |-> dif, T |-> FeSub(zz2, dif)]

(* ge_p3_tobytes and ge_tobytes: y and the sign of x. *)
ToBytes(p) ==
  LET recip == FeInvert[p.Z]
  IN [y |-> FeMul(p.Y, recip), sign |-> FeIsNegative(FeMul(p.X, recip))]

(* ge_frombytes_negate_vartime: x is a root of u/v = (y^2-1)/(Dy^2+1), of  *)
(* the other sign than the one in the bytes.                               *)
FromBytesNegate(s) ==
  LET u  == FeSub(FeSq(s.y), 1)
      v  == FeAdd(FeMul(D, FeSq(s.y)), 1)
      v3 == FeMul(FeSq(v), v)
      root == FeMul(FeMul(u, v3), FePow22523[FeMul(u, FeMul(FeSq(v3), v))])
      vxx  == FeMul(v, FeSq(root))
      x    == IF vxx = u THEN root ELSE FeMul(root, SqrtM1)
      negx == IF FeIsNegative(x) = s.sign THEN FeNeg(x) ELSE x
  IN [valid |-> vxx = u \/ vxx = FeNeg(u),
      point |-> [X |-> negx, Y |-> s.y, Z |-> 1, T |-> FeMul(negx, s.y)]]

-----------------------------------------------------------------------------
(* The group by its affine law, for reference.                             *)

Affine(px, py) == [x |-> px, y |-> py]
Curve == {q \in [x : 0..P-1, y : 0..P-1] :
            FeSub(FeSq(q.y), FeSq(q.x)) = FeAdd(1, FeMul(D, FeMul(FeSq(q.x), FeSq(q.y))))}

(* What makes the two denominators of a sum differ from 1. *)
Cross(q, r) == FeMul(D, FeMul(FeMul(q.x, r.x), FeMul(q.y, r.y)))

Plus(q, r) ==
  LET t == Cross(q, r)
  IN Affine(FeMul(FeAdd(FeMul(q.x, r.y), FeMul(q.y, r.x)), FeInvert[FeAdd(1, t)]),
            FeMul(FeAdd(FeMul(q.y, r.y), FeMul(q.x, r.x)), FeInvert[FeSub(1, t)]))

Minus(q) == Affine(FeNeg(q.x), q.y)

MultiplesOf(q, n) ==
  LET times[k \in 0..n] == IF k = 0 THEN Affine(0, 1) ELSE Plus(times[k - 1], q)
  IN [k \in 0..n |-> times[k]]

Multiple == MultiplesOf(Affine(BaseX, BaseY), Order)

TimesBase(n) == Multiple[n % Order]

ASSUME CurveAssumption ==
  /\ P \in Nat \ {0, 1} /\ D \in 0..P-1 /\ SqrtM1 \in 0..P-1 /\ Order \in Nat \ {0}
  /\ \A z \in 1..P-1 : FeMul(z, FeInvert[z]) = 1
  /\ \A z \in 0..P-1 : FeSq(z) # D /\ P % 8 = 5 /\ FeSq(SqrtM1) = P - 1
  /\ Affine(BaseX, BaseY) \in Curve /\ Multiple[Order] = Multiple[0]

(* The points are closed under the law, which is associative, and its      *)
(* denominators are never 0: D is not a square and -1 is one.              *)
ASSUME GroupAssumption ==
  \A q, r \in Curve :
    /\ FeAdd(1, Cross(q, r)) # 0 /\ FeSub(1, Cross(q, r)) # 0
    /\ Plus(q, r) \in Curve
    /\ \A s \in Curve : Plus(Plus(q, r), s) = Plus(q, Plus(r, s))

(* p stands for q: x = X/Z, y = Y/Z, and XY = ZT. *)
StandsFor(p, q)  == p.Z # 0 /\ p.X = FeMul(q.x, p.Z) /\ p.Y = FeMul(q.y, p.Z)
Represents(p, q) == StandsFor(p, q) /\ FeMul(p.X, p.Y) = FeMul(p.Z, p.T)

Precomp(q) == [yplusx |-> FeAdd(q.y, q.x), yminusx |-> FeSub(q.y, q.x),
               xy2d |-> FeMul(FeAdd(D, D), FeMul(q.x, q.y))]

(* base[pos][k], k from 0: (k + 1) 256^pos B.  The table of precomp_data.h *)
(* is taken to hold these points.                                          *)
Base == [pos \in 0..Bytes-1 |->
           [k \in 0..7 |-> Precomp(TimesBase((k + 1) * Power16[2 * pos]))]]

(* select: the entry for |b|, the neutral element if there is none, and    *)
(* its negation for a negative b.                                          *)
Select(pos, b) ==
  LET babs == IF b < 0 THEN -b ELSE b
      t    == IF babs \in 1..8 THEN Base[pos][babs - 1]
                               ELSE [yplusx |-> 1, yminusx |-> 1, xy2d |-> 0]
  IN IF b < 0 THEN [yplusx |-> t.yminusx, yminusx |-> t.yplusx,
                    xy2d |-> FeNeg(t.xy2d)]
              ELSE t

-----------------------------------------------------------------------------
(* ge_scalarmult_base.                                                     *)

VARIABLES
  scalar, \* a
  digit,  \* e
  carry,
  index,  \* i
  point,  \* h
  step    \* "recode", "odd", "double", "even" or "done"

multVars == <<scalar, digit, carry, index, point, step>>

Nibbles(s) ==
  [k \in 0..Digits-1 |-> IF k % 2 = 0 THEN s[k \div 2] % 16 ELSE s[k \div 2] \div 16]

MultInit ==
  /\ scalar \in Scalars
  /\ digit = Nibbles(scalar) /\ carry = 0 /\ index = 0
  /\ point = P3Zero /\ step = "recode"

(* Mutant: digits are not made signed. *)
CarryOfUnsigned(n) == n \div 16

CarryOf(n) == (n + 8) \div 16

RecodeDigit ==
  /\ step = "recode" /\ index < Digits - 1
  /\ LET n == digit[index] + carry IN
     /\ carry' = CarryOf(n)
     /\ digit' = [digit EXCEPT ![index] = n - 16 * CarryOf(n)]
  /\ index' = index + 1
  /\ UNCHANGED <<scalar, point, step>>

(* e[63] += carry; ge_p3_0(h). *)
RecodeTop ==
  /\ step = "recode" /\ index = Digits - 1
  /\ digit' = [digit EXCEPT ![index] = digit[index] + carry]
  /\ carry' = 0 /\ index' = 1 /\ step' = "odd"
  /\ UNCHANGED <<scalar, point>>

AddDigit == point' = ToP3(GeMAdd(point, Select(index \div 2, digit[index])))

AddOdd ==
  /\ step = "odd" /\ AddDigit
  /\ index' = index + 2
  /\ step' = IF index + 2 < Digits THEN "odd" ELSE "double"
  /\ UNCHANGED <<scalar, digit, carry>>

MultiplyBy16 ==
  /\ step = "double"
  /\ point' = ToP3(GeDbl(ToP2(GeDbl(ToP2(GeDbl(ToP2(GeDbl(P2(point)))))))))
  /\ index' = 0 /\ step' = "even"
  /\ UNCHANGED <<scalar, digit, carry>>

AddEven ==
  /\ step = "even" /\ AddDigit
  /\ index' = index + 2
  /\ step' = IF index + 2 < Digits THEN "even" ELSE "done"
  /\ UNCHANGED <<scalar, digit, carry>>

MultNext == RecodeDigit \/ RecodeTop \/ AddOdd \/ MultiplyBy16 \/ AddEven

MultSpec == MultInit /\ [][MultNext]_multVars

-----------------------------------------------------------------------------
P3 == [X : 0..P-1, Y : 0..P-1, Z : 0..P-1, T : 0..P-1]

(* Every digit has an entry in the table of eight and fits a signed char,  *)
(* the sum with the carry included.                                        *)
DigitsFit ==
  /\ digit \in [0..Digits-1 -> -8..15]
  /\ step # "recode" => \A k \in 0..Digits-1 : digit[k] \in -8..8

MultTypeOK ==
  /\ scalar \in Scalars /\ carry \in 0..1 /\ index \in 0..Digits+1
  /\ point \in P3 /\ step \in {"recode", "odd", "double", "even", "done"}
  /\ DigitsFit

(* What digit n adds to the sum of the digits at the indices in S.         *)
Adds(d, S, n) == IF n \in S THEN d[n] * Power16[n] ELSE 0

SumOf(d, S) ==
  LET sum[n \in 0..Digits] == IF n = 0 THEN 0 ELSE sum[n - 1] + Adds(d, S, n - 1)
  IN sum[Digits]

ValueOf(s) ==
  LET sum[n \in 0..Bytes] ==
        IF n = 0 THEN 0 ELSE sum[n - 1] + s[n - 1] * Power16[2 * (n - 1)]
  IN sum[Bytes]

Odd(n)  == {k \in 0..n-1 : k % 2 = 1}
Even(n) == {k \in 0..n-1 : k % 2 = 0}

(* The signed digits and the pending carry have the value of the scalar.   *)
DigitsKeepValue == SumOf(digit, 0..Digits-1) + carry * Power16[index] = ValueOf(scalar)

(* The digits keep the value of the scalar, and the point is that multiple *)
(* of the base point which the digits processed so far make up; at the     *)
(* end, the scalar times the base point.                                   *)
PartialSum ==
  /\ DigitsKeepValue
  /\ step = "odd"    => Represents(point, TimesBase(SumOf(digit, Odd(index)) \div 16))
  /\ step = "double" => Represents(point, TimesBase(SumOf(digit, Odd(Digits)) \div 16))
  /\ step = "even"   => Represents(point, TimesBase(SumOf(digit, Odd(Digits) \cup Even(index))))
  /\ step = "done"   => Represents(point, TimesBase(ValueOf(scalar)))

(* Any point, with a Z other than 1. *)
Scaled(q) == [X |-> FeMul(q.x, 2), Y |-> FeMul(q.y, 2), Z |-> 2,
              T |-> FeMul(2, FeMul(q.x, q.y))]

(* Bytes are refused exactly when no point has that y. *)
OnlyPointsDecode ==
  \A y \in 0..P-1, s \in 0..1 :
    FromBytesNegate([y |-> y, sign |-> s]).valid <=> \E q \in Curve : q.y = y

(* The complete addition law: sums, differences and doubles of a computed  *)
(* point with every point, itself and the neutral element included; a      *)
(* point comes back from its bytes with the opposite sign.                 *)
GroupLaw ==
  step = "done" =>
    LET n == TimesBase(ValueOf(scalar)) IN
    /\ \A q \in Curve :
         /\ Represents(ToP3(GeAdd(point, ToCached(Scaled(q)))), Plus(n, q))
         /\ Represents(ToP3(GeSub(point, ToCached(Scaled(q)))), Plus(n, Minus(q)))
         /\ Represents(ToP3(GeMSub(point, Precomp(q))), Plus(n, Minus(q)))
    /\ FromBytesNegate(ToBytes(point)).valid
    /\ Represents(FromBytesNegate(ToBytes(point)).point, Minus(n))
    /\ OnlyPointsDecode
=============================================================================
