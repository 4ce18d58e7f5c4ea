--------------------------- MODULE MCPaymentCodec ---------------------------
(***************************************************************************)
(* Small instances of PaymentCodec: integers on both sides of every limit  *)
(* of writeUint64, and 2^53, up to which a JSON number is exact.           *)
(***************************************************************************)
EXTENDS PaymentCodec, KeyText

VARIABLE part

Low(a, b, c, d) == <<0, 0, 0, 0, a, b, c, d>>

Limits ==
  {Zero, Low(0, 0, 0, 1), Low(0, 0, 0, 127), Low(0, 0, 0, 128),
   Low(0, 0, 0, 255), Low(0, 0, 1, 0), Low(0, 0, 255, 255), Low(0, 1, 0, 0),
   Low(255, 255, 255, 255), <<0, 0, 0, 1, 0, 0, 0, 0>>,
   <<0, 32, 0, 0, 0, 0, 0, 0>>, <<255, 255, 255, 255, 255, 255, 255, 255>>}

MinFee    == {Low(0, 0, 3, 232)}
SmallFees == MinFee \cup {Zero}
FewRounds == {Zero, Low(0, 0, 3, 232)}
SomeRounds == {Low(0, 0, 0, 255), Low(2, 250, 240, 128), <<0, 32, 0, 0, 0, 0, 0, 0>>}

(* Addresses of a key of two bytes and a checksum of one: digits with all, *)
(* no and every other bit, in texts of all lengths, padded or not, and     *)
(* texts with a character that is no digit.                                *)
Digits == {65, 55, 82}
Texts(S, n) == [1..n -> S]
SomeAddresses ==
  UNION {Texts(Digits, n) : n \in 0..7}
    \cup {t \o <<Pad>> : t \in Texts(Digits, 4)} \cup {t \o <<Pad, Pad>> : t \in Texts(Digits, 2)}
    \cup Texts({65, 48}, 5) \cup Texts({55, 97, Pad}, 4)

SomeSecrets == {<<0, 0, 0, 0>>, <<255, 255, 255, 255>>, <<171, 205, 239, 16>>,
                <<105, 183, 29, 121>>, <<9, 160, 15, 249>>}
HexDigit(v, ten) == IF v < 10 THEN 48 + v ELSE ten + v - 10
(* With letters from ten on, those at even places from other on. *)
HexText(s, ten, other) ==
  [i \in 1..2 * Len(s) |-> IF i % 2 = 1 THEN HexDigit(s[(i + 1) \div 2] \div 16, ten)
                                        ELSE HexDigit(s[i \div 2] % 16, other)]
HexForms(S) == {HexText(s, ten, other) : s \in S, ten \in {65, 97}, other \in {65, 97}}
OtherSizes == {<<105, 183, 29>>, <<255, 255, 255, 255, 255>>, <<105, 183, 29, 121, 231, 159>>, <<>>}

Base64Digit(v) ==
  CASE v \in 0..25 -> 65 + v [] v \in 26..51 -> 97 + v - 26
    [] v \in 52..61 -> 48 + v - 52 [] v = 62 -> 43 [] v = 63 -> 47

(* A text of s in base64, with rest in the bits that s does not fill. *)
Base64Text(s, rest) ==
  LET bit(k) == IF k < 8 * Len(s) THEN ByteBit(s, k) ELSE rest
      digit(i) == 32 * bit(6*i) + 16 * bit(6*i + 1) + 8 * bit(6*i + 2)
                    + 4 * bit(6*i + 3) + 2 * bit(6*i + 4) + bit(6*i + 5)
  IN [i \in 1..4 * ((Len(s) + 2) \div 3) |->
        IF IsDigitPlace(i, s) THEN Base64Digit(digit(i - 1)) ELSE Pad]

SomeSecretTexts ==
  HexForms(SomeSecrets \cup OtherSizes)
    \cup {Base64Text(s, rest) : s \in SomeSecrets \cup OtherSizes, rest \in {0, 1}}
    \cup {Tail(HexText(s, 97, 97)) : s \in SomeSecrets} \cup Texts({48, 103}, 8)

(* The part that does not run waits in one initial state. *)
OnePayment == LET any(S) == CHOOSE v \in S : TRUE IN
  [amount |-> any(Amounts), fee |-> any(SomeFees), first_valid |-> any(Rounds),
   last_valid |-> any(Rounds), genesis_len |-> 12]

CodecInit ==
  \/ part = "encode" /\ kind = "address" /\ text = <<>> /\ TextInit /\ Init
  \/ part = "text" /\ pay = OnePayment /\ Init /\ TextInit

CodecNext == /\ \/ part = "encode" /\ Next     /\ UNCHANGED textVars
                \/ part = "text"   /\ TextNext /\ UNCHANGED vars
             /\ UNCHANGED part

CodecSpec == CodecInit /\ [][CodecNext]_<<part, vars, textVars>>

(* Every variable of both modules keeps its type. *)
TypesOK == TypeOK /\ TextTypeOK
=============================================================================
