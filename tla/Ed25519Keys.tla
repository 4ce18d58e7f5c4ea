----------------------------- MODULE Ed25519Keys -----------------------------
(***************************************************************************)
(* Keys and signatures: ed25519_sign, ed25519_create_keypair and           *)
(* ed25519_add_scalar of src/ed25519/, and the account secrets that        *)
(* README.md:72-81 tells the user to configure.                            *)
(*                                                                         *)
(* The private key and its public key may be held by different parties,    *)
(* who add scalars to them in separate calls and in any order.             *)
(*                                                                         *)
(* A point k*B is the number k mod GroupOrder (the curve itself is in      *)
(* ScalarMult); its bytes are that number.  SHA-512 (Sha512 has how it is  *)
(* fed) is any function from sequences of 32-byte strings, numbers below   *)
(* Half, to numbers below Half^2; the bytes are little-endian.             *)
(***************************************************************************)
EXTENDS Integers, Sequences

CONSTANTS
  GroupOrder, \* the order of B
  TopBit,     \* 2^254
  Hash(_),    \* sha512
  Seeds, Messages, AddedScalars, \* bound: arguments that are tried
  DerivedScalars, \* bound: leaf scalars of derive_algorand_credentials.py
  MaxAdds     \* bound: calls of ed25519_add_scalar

Half == 4 * TopBit
Word == 0..Half-1   \* 32 bytes

ASSUME OrderAssumption ==
  /\ GroupOrder \in Nat \ {0} /\ TopBit \in Nat /\ TopBit % 8 = 0
  /\ GroupOrder < TopBit
  /\ Seeds \subseteq Word /\ Messages \subseteq Word
  /\ AddedScalars \subseteq Word /\ MaxAdds \in Nat
  /\ DerivedScalars \subseteq 0..2*TopBit-1

ASSUME HashAssumption ==
  \A x, y, z \in Word :
    /\ Hash(<<x>>) \in 0..Half*Half-1
    /\ Hash(<<x, y>>) \in 0..Half*Half-1
    /\ Hash(<<x, y, z>>) \in 0..Half*Half-1

VARIABLES
  low, high,  \* the two halves of the 64-byte private key or secret
  pub,        \* the public key
  source,     \* history: where the secret comes from
  toPrivate,  \* history: sum of the scalars added to the private key
  toPublic,   \* history: sum of the scalars added to the public key
  adds,       \* calls of ed25519_add_scalar
  sig         \* the last signature, with what it was made for

keysVars == <<low, high, pub, source, toPrivate, toPublic, adds, sig>>

Sources == {"expanded", "derived", "goal"}
Point   == 0..GroupOrder-1

Signature == [R : Point, S : Point, pub : Point, message : Messages,
              from : Sources, matching : BOOLEAN]
NoSignature == [R |-> 0, S |-> 0]

KeysTypeOK ==
  /\ low \in Word /\ high \in Word /\ pub \in Point
  /\ source \in Sources /\ toPrivate \in Nat /\ toPublic \in Nat
  /\ adds \in 0..MaxAdds
  /\ sig \in Signature \cup {NoSignature}

-----------------------------------------------------------------------------
ScReduce(n) == n % GroupOrder

ScMulAdd(m, n, p) == (m * n + p) % GroupOrder

(* ge_scalarmult_base and ge_p3_tobytes. *)
TimesB(n) == n % GroupOrder

FirstHalf(hash)  == hash % Half
SecondHalf(hash) == hash \div Half

(* private_key[0] &= 248, [31] &= 63, [31] |= 64. *)
Clamped(n) == ((n % TopBit) \div 8) * 8 + TopBit

(* Secrets: the expanded key of ed25519_create_keypair (the firmware  *)
(* does not call it); the scalar and public key that the script   *)
(* prints; the seed and public key that goal exports.                      *)
KeysInit ==
  /\ \/ \E s \in Seeds :
          /\ low = Clamped(FirstHalf(Hash(<<s>>)))
          /\ high = SecondHalf(Hash(<<s>>))
          /\ pub = TimesB(low) /\ source = "expanded"
     \/ \E a \in DerivedScalars :
          low = a /\ pub = TimesB(a) /\ high = pub /\ source = "derived"
     \/ \E s \in Seeds :
          /\ low = s /\ pub = TimesB(Clamped(FirstHalf(Hash(<<s>>))))
          /\ high = pub /\ source = "goal"
  /\ toPrivate = 0 /\ toPublic = 0 /\ adds = 0 /\ sig = NoSignature

(* n[31] = scalar[31] & 127. *)
Masked(scalar) == scalar % (2 * TopBit)

(* Mutant: the private key gets the scalar with its highest bit. *)
AddToPrivateUnmasked(scalar) ==
  /\ low' = ScMulAdd(1, scalar, low)
  /\ high' = FirstHalf(Hash(<<high, scalar>>))
  /\ toPrivate' = toPrivate + Masked(scalar)

AddToPrivate(scalar) ==
  /\ low' = ScMulAdd(1, Masked(scalar), low)
  /\ high' = FirstHalf(Hash(<<high, scalar>>))
  /\ toPrivate' = toPrivate + Masked(scalar)

(* ed25519_add_scalar(NULL, private_key, scalar). *)
AddPrivate ==
  /\ source = "expanded" /\ adds < MaxAdds /\ adds' = adds + 1
  /\ \E scalar \in AddedScalars : AddToPrivate(scalar)
  /\ UNCHANGED <<pub, source, toPublic, sig>>

(* ed25519_add_scalar(public_key, NULL, scalar): a point addition. *)
AddPublic ==
  /\ source = "expanded" /\ adds < MaxAdds /\ adds' = adds + 1
  /\ \E scalar \in AddedScalars :
       /\ pub' = (TimesB(Masked(scalar)) + pub) % GroupOrder
       /\ toPublic' = toPublic + Masked(scalar)
  /\ UNCHANGED <<low, high, source, toPrivate, sig>>

(* With both keys the public one is computed from the private one. *)
AddBoth ==
  /\ source = "expanded" /\ adds < MaxAdds /\ adds' = adds + 1
  /\ \E scalar \in AddedScalars : AddToPrivate(scalar)
  /\ pub' = TimesB(low') /\ toPublic' = toPrivate'
  /\ UNCHANGED <<source, sig>>

(* Mutant: the challenge is hashed without the public key. *)
SignNoKey ==
  \E m \in Messages :
    LET r == ScReduce(Hash(<<high, m>>))
        R == TimesB(r)
        c == ScReduce(Hash(<<R, m>>))
    IN /\ sig' = [R |-> R, S |-> ScMulAdd(c, low, r), pub |-> pub, message |-> m,
                  from |-> source, matching |-> toPrivate = toPublic]
       /\ UNCHANGED <<low, high, pub, source, toPrivate, toPublic, adds>>

(* ed25519_sign(signature, m, pub, private_key). *)
Sign ==
  \E m \in Messages :
    LET r == ScReduce(Hash(<<high, m>>))
        R == TimesB(r)
        c == ScReduce(Hash(<<R, pub, m>>))
    IN /\ sig' = [R |-> R, S |-> ScMulAdd(c, low, r), pub |-> pub, message |-> m,
                  from |-> source, matching |-> toPrivate = toPublic]
       /\ UNCHANGED <<low, high, pub, source, toPrivate, toPublic, adds>>

KeysNext == AddPrivate \/ AddPublic \/ AddBoth \/ Sign

KeysSpec == KeysInit /\ [][KeysNext]_keysVars

-----------------------------------------------------------------------------
(* RFC 8032: S*B = R + c*A with c = Hash(R, A, M) and a reduced S. *)
Verifies(s) ==
  /\ s.S < GroupOrder
  /\ TimesB(s.S) = (s.R + ScReduce(Hash(<<s.R, s.pub, s.message>>)) * s.pub) % GroupOrder

(* Whoever holds the public key alone arrives at the key of the private    *)
(* one, in whatever order and grouping both add the same scalars.          *)
KeysAgree ==
  source # "goal" /\ toPrivate = toPublic => pub = TimesB(low)

(* A signature made when the two keys belong together verifies: for        *)
(* expanded keys, after any additions, and for the secrets of the script,  *)
(* of which README.md:81 says that they do not sign payments.              *)
SignaturesVerify ==
  sig # NoSignature /\ sig.from # "goal" /\ sig.matching => Verifies(sig)

(* README.md:79-81: with a key exported by goal, payments are signed. *)
GoalKeysSign ==
  sig # NoSignature /\ sig.from = "goal" => Verifies(sig)
=============================================================================
