------------------------------- MODULE KeyText -------------------------------
(***************************************************************************)
(* The decoders of src/algorand_codec.cpp for what is configured as text:  *)
(* algorandDecodeAddress, a base32 address, and                            *)
(* algorandDecodePrivateKeyB64, a secret in hexadecimal or base64.         *)
(*                                                                         *)
(* Characters and bytes are their codes.  Keys are shorter than the 32 and *)
(* 64 bytes of the code.                                                   *)
(***************************************************************************)
EXTENDS Integers, Sequences

CONSTANTS
  PublicSize, \* 32: bytes of a public key
  DecodedCap, \* 36: decoded, a public key and its checksum
  SecretSize, \* 64: bytes of a secret
  Wrap,       \* 2^32: buffer is a uint32_t
  Addresses,  \* bound: the texts decoded as addresses
  Secrets,    \* bound: secrets
  SecretTexts \* bound: the texts decoded as secrets

ASSUME TextAssumption ==
  /\ {PublicSize, DecodedCap, SecretSize} \subseteq Nat /\ PublicSize <= DecodedCap
  /\ SecretSize % 3 # 0   \* in base64 it is padded
  /\ Wrap \in Nat \ {0} /\ Wrap % 4096 = 0
  /\ Addresses \cup SecretTexts \subseteq Seq(1..127)
  \* line ends and blanks, some of which mbedtls_base64_decode skips
  /\ \A t \in SecretTexts : \A i \in 1..Len(t) : t[i] \notin {10, 13, 32}
  /\ Secrets \subseteq [1..SecretSize -> 0..255]

Pad == 61   \* '='

(* n >> j and bit j of n.  The decoders shift by eleven bits at most. *)
Two == <<1, 2, 4, 8, 16, 32, 64, 128, 256, 512, 1024, 2048>>
Shifted(n, j) == n \div Two[j + 1]
Bit(n, j) == Shifted(n, j) % 2

VARIABLES
  kind,    \* "address" or "secret"
  text,    \* what is left of the argument
  at,      \* i: characters decoded
  buffer, bits,
  decoded, \* the bytes decoded so far: decoded, out
  form,    \* of a secret: "unknown", "hex" or "base64"
  result   \* "decoding", "OK", "FAIL", "NO_MEM" or "INVALID_SIZE"

textVars == <<kind, text, at, buffer, bits, decoded, form, result>>

TextInit ==
  /\ \/ kind = "address" /\ text \in Addresses
     \/ kind = "secret"  /\ text \in SecretTexts
  /\ at = 0 /\ buffer = 0 /\ bits = 0 /\ decoded = <<>>
  /\ form = "unknown" /\ result = "decoding"

-----------------------------------------------------------------------------
(* algorandDecodeAddress.                                                  *)

Base32Value(c) ==
  CASE c \in 65..90 -> c - 65           \* 'A' to 'Z'
    [] c \in 50..55 -> c - 50 + 26      \* '2' to '7'
    [] OTHER -> -1

(* Mutant: the buffer keeps eight bits. *)
ShiftedInByte(b, value) == (b * 32 + value) % 256

ShiftedIn(b, value) == (b * 32 + value) % Wrap

AtPad == text # <<>> /\ text[Len(text)] = Pad

DropPad ==
  /\ kind = "address" /\ result = "decoding" /\ AtPad
  /\ text' = SubSeq(text, 1, Len(text) - 1)
  /\ UNCHANGED <<kind, at, buffer, bits, decoded, form, result>>

(* Five more bits, and a byte when there are eight. *)
Accept(value) ==
  LET full == bits + 5 >= 8 IN
  /\ buffer' = ShiftedIn(buffer, value)
  /\ bits' = IF full THEN bits + 5 - 8 ELSE bits + 5
  /\ IF full /\ Len(decoded) >= DecodedCap
     THEN result' = "NO_MEM" /\ UNCHANGED <<at, decoded>>
     ELSE /\ at' = at + 1 /\ UNCHANGED result
          /\ decoded' = IF full THEN Append(decoded, Shifted(buffer', bits') % 256)
                                ELSE decoded

DecodeCharacter ==
  /\ kind = "address" /\ result = "decoding" /\ ~AtPad /\ at < Len(text)
  /\ LET value == Base32Value(text[at + 1]) IN
     IF value < 0 THEN result' = "FAIL" /\ UNCHANGED <<at, buffer, bits, decoded>>
                  ELSE Accept(value)
  /\ UNCHANGED <<kind, text, form>>

(* The checksum is not looked at. *)
FinishAddress ==
  /\ kind = "address" /\ result = "decoding" /\ ~AtPad /\ at = Len(text)
  /\ IF Len(decoded) < PublicSize
     THEN result' = "FAIL" /\ UNCHANGED decoded
     ELSE result' = "OK" /\ decoded' = SubSeq(decoded, 1, PublicSize)
  /\ UNCHANGED <<kind, text, at, buffer, bits, form>>

-----------------------------------------------------------------------------
(* algorandDecodePrivateKeyB64.                                            *)

(* Mutant: capital letters are left out. *)
HexValueLower(c) ==
  CASE c \in 48..57  -> c - 48
    [] c \in 97..102 -> c - 97 + 10
    [] OTHER -> -1

HexValue(c) ==
  CASE c \in 48..57  -> c - 48          \* '0' to '9'
    [] c \in 97..102 -> c - 97 + 10     \* 'a' to 'f'
    [] c \in 65..70  -> c - 65 + 10     \* 'A' to 'F'
    [] OTHER -> -1

IsHexString(s) == s # <<>> /\ Len(s) % 2 = 0 /\ \A i \in DOMAIN s : HexValue(s[i]) >= 0

(* mbedtls_base64_decode: <<>> where it reports an error, characters or    *)
(* padding it does not know or more bytes than there is room for, and for  *)
(* an empty text, which is refused as well.                                *)
Base64Value(c) ==
  CASE c \in 65..90  -> c - 65          \* 'A' to 'Z'
    [] c \in 97..122 -> c - 97 + 26     \* 'a' to 'z'
    [] c \in 48..57  -> c - 48 + 52     \* '0' to '9'
    [] c = 43 -> 62 [] c = 47 -> 63     \* '+', '/'
    [] OTHER -> -1

Pads(s) == IF s = <<>> \/ s[Len(s)] # Pad THEN 0
           ELSE IF Len(s) > 1 /\ s[Len(s) - 1] = Pad THEN 2 ELSE 1

DigitCount(s) == Len(s) - Pads(s)
DigitAt(s, i) == IF i <= DigitCount(s) THEN Base64Value(s[i]) ELSE 0

(* Byte j of the three of four digits. *)
GroupByte(a, b, c, d, j) ==
  ((((a * 64 + b) * 64 + c) * 64 + d) \div <<65536, 256, 1>>[j + 1]) % 256
DecodedByte(s, k) ==
  LET g == 4 * (k \div 3) IN
  GroupByte(DigitAt(s, g + 1), DigitAt(s, g + 2), DigitAt(s, g + 3), DigitAt(s, g + 4), k % 3)

Base64Decode(s, cap) ==
  LET size == (DigitCount(s) * 6) \div 8 IN
  IF Len(s) % 4 = 0 /\ size <= cap /\ \A i \in 1..DigitCount(s) : DigitAt(s, i) >= 0
  THEN [k \in 1..size |-> DecodedByte(s, k - 1)] ELSE <<>>

Classify ==
  /\ kind = "secret" /\ result = "decoding" /\ form = "unknown"
  /\ IF ~IsHexString(text) THEN form' = "base64" /\ UNCHANGED result
     ELSE /\ form' = "hex"
          /\ result' = IF Len(text) \div 2 > SecretSize THEN "INVALID_SIZE" ELSE result
  /\ UNCHANGED <<kind, text, at, buffer, bits, decoded>>

DecodePair ==
  /\ result = "decoding" /\ form = "hex" /\ at < Len(text)
  /\ decoded' = Append(decoded, HexValue(text[at + 1]) * 16 + HexValue(text[at + 2]))
  /\ at' = at + 2
  /\ UNCHANGED <<kind, text, buffer, bits, form, result>>

DecodeBase64 ==
  /\ result = "decoding" /\ form = "base64" /\ at = 0
  /\ decoded' = Base64Decode(text, SecretSize)
  /\ IF decoded' = <<>> THEN result' = "FAIL" /\ UNCHANGED at
                        ELSE at' = Len(text) /\ UNCHANGED result
  /\ UNCHANGED <<kind, text, buffer, bits, form>>

FinishSecret ==
  /\ result = "decoding" /\ form # "unknown" /\ text # <<>> /\ at = Len(text)
  /\ result' = IF Len(decoded) = SecretSize THEN "OK" ELSE "FAIL"
  /\ UNCHANGED <<kind, text, at, buffer, bits, decoded, form>>

TextNext == DropPad \/ DecodeCharacter \/ FinishAddress
              \/ Classify \/ DecodePair \/ DecodeBase64 \/ FinishSecret

TextSpec == TextInit /\ [][TextNext]_textVars

-----------------------------------------------------------------------------
TextTypeOK ==
  /\ kind \in {"address", "secret"} /\ text \in Seq(1..127) /\ at \in 0..Len(text)
  /\ buffer \in 0..Wrap-1 /\ bits \in 0..7
  /\ decoded \in Seq(0..255) /\ Len(decoded) <= DecodedCap + SecretSize
  /\ form \in {"unknown", "hex", "base64"}
  /\ result \in {"decoding", "OK", "FAIL", "NO_MEM", "INVALID_SIZE"}

(* Bit k of the text, five to a character. *)
TextBit(k) == Bit(Base32Value(text[k \div 5 + 1]), 4 - (k % 5))
(* Bit k of a sequence of bytes. *)
ByteBit(s, k) == Bit(s[k \div 8 + 1], 7 - (k % 8))

(* The public key is the first bits of the address, though the buffer they *)
(* go through forgets what was shifted out of it; every address that has   *)
(* them all is taken, those of the usual length among them, and none that  *)
(* has fewer, or a character that is no digit.                             *)
AddressReadsBack ==
  kind = "address" /\ result # "decoding" =>
    /\ result = "OK" => /\ Len(decoded) = PublicSize
                        /\ \A k \in 0..8 * PublicSize - 1 : ByteBit(decoded, k) = TextBit(k)
    /\ result = "OK" <=> /\ Len(text) * 5 \in 8 * PublicSize..8 * DecodedCap + 7
                         /\ \A i \in DOMAIN text : Base32Value(text[i]) >= 0

(* A text of s in base64: the bits of the digits are those of s, and the   *)
(* last group is padded.  What follows the last bit of s says nothing.     *)
IsDigitPlace(i, s) == 6 * (i - 1) < 8 * Len(s)
IsBase64Text(t, s) ==
  /\ Len(t) = 4 * ((Len(s) + 2) \div 3)
  /\ \A i \in DOMAIN t : IF IsDigitPlace(i, s) THEN Base64Value(t[i]) >= 0 ELSE t[i] = Pad
  /\ \A k \in 0..8 * Len(s) - 1 :
       Bit(Base64Value(t[k \div 6 + 1]), 5 - (k % 6)) = ByteBit(s, k)

(* Both cases of the digits from ten on. *)
HexDigits(v) == IF v < 10 THEN {48 + v} ELSE {65 + v - 10, 97 + v - 10}
IsHexText(t, s) ==
  Len(t) = 2 * Len(s) /\ \A i \in DOMAIN s : /\ t[2*i - 1] \in HexDigits(s[i] \div 16)
                                             /\ t[2*i] \in HexDigits(s[i] % 16)

Encodes(t, s) == IsBase64Text(t, s) \/ IsHexText(t, s)

(* The whole secret is read, in either form and either case: one in base64 *)
(* is never taken for hexadecimal, and what is accepted, to be signed      *)
(* with, is a secret of the full size and the one that the text says.      *)
SecretReadsBack ==
  kind = "secret" /\ result # "decoding" =>
    /\ result = "OK" => Len(decoded) = SecretSize /\ Encodes(text, decoded)
    /\ \A s \in Secrets : Encodes(text, s) => result = "OK" /\ decoded = s
=============================================================================
