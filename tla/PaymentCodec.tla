---------------------------- MODULE PaymentCodec ----------------------------
(***************************************************************************)
(* The msgpack encoder of src/algorand_codec.cpp: encodePaymentTxn writes  *)
(* a payment field by field into s_txn_bytes, each key and value by way of *)
(* a scratch buffer that the writers do not check, and                     *)
(* algorandEncodeSignedPayment wraps the bytes and their signature.        *)
(*                                                                         *)
(* Integers are kept as eight big-endian bytes and written byte by byte;   *)
(* addresses, the genesis hash and the genesis id count by their size.     *)
(***************************************************************************)
EXTENDS Integers, Sequences

CONSTANTS
  Amounts, SomeFees, Rounds, \* bound: the integers tried, eight bytes each
  GenesisLengths             \* bound: lengths of algod's "genesis-id"

Uint64 == [1..8 -> 0..255]
Zero   == [i \in 1..8 |-> 0]

ASSUME InputAssumption ==
  /\ Amounts \subseteq Uint64 /\ SomeFees \subseteq Uint64
  /\ Rounds \subseteq Uint64 /\ GenesisLengths \subseteq Nat \ {0}

TxnCap      == 256   \* s_txn_bytes
MessageCap  == 258   \* s_sign_message
ScratchCap  == 72    \* scratch, s_scratch
SignedCap   == 512   \* s_signed_txn
GenesisCap  == 64    \* AlgodTxnParams.genesis_id
KeySize     == 32
SigSize     == 64

VARIABLES
  pay,     \* arguments of algorandEncodeSignedPayment
  field,   \* the field encodePaymentTxn writes next, an index of Fields
  txn,     \* fields written to s_txn_bytes so far
  pos,     \* bytes written to s_txn_bytes so far
  scratch, \* history: most bytes any write put into a scratch buffer
  signed,  \* *signed_txn_len, 0 before
  status   \* "encoding", "encoded", "signed" or "failed"

vars == <<pay, field, txn, pos, scratch, signed, status>>

-----------------------------------------------------------------------------
(* The writers.                                                            *)

FitsIn(v, k)     == \A i \in 1..8 - k : v[i] = 0
LowBytes(v, k)   == SubSeq(v, 9 - k, 8)

(* A tag byte in front of s. *)
Tagged(t, s) == <<t>> \o s

(* Mutant: the sign bit of the one-byte form is forgotten. *)
WriteUint64Fixint(v) ==
  CASE FitsIn(v, 1) -> LowBytes(v, 1)
    [] ~FitsIn(v, 1) /\ FitsIn(v, 2) -> Tagged(205, LowBytes(v, 2))
    [] ~FitsIn(v, 2) /\ FitsIn(v, 4) -> Tagged(206, LowBytes(v, 4))
    [] ~FitsIn(v, 4)                 -> Tagged(207, v)

(* Mutant: no four-byte form. *)
WriteUint64Wide(v) ==
  CASE FitsIn(v, 1) /\ v[8] <= 127   -> LowBytes(v, 1)
    [] FitsIn(v, 1) /\ v[8] > 127    -> Tagged(204, LowBytes(v, 1))
    [] ~FitsIn(v, 1) /\ FitsIn(v, 2) -> Tagged(205, LowBytes(v, 2))
    [] ~FitsIn(v, 2)                 -> Tagged(207, v)

(* writeUint64: a tag (none below 0x80, then 0xcc .. 0xcf) and the bytes. *)
WriteUint64(v) ==
  CASE FitsIn(v, 1) /\ v[8] <= 127   -> LowBytes(v, 1)
    [] FitsIn(v, 1) /\ v[8] > 127    -> Tagged(204, LowBytes(v, 1))
    [] ~FitsIn(v, 1) /\ FitsIn(v, 2) -> Tagged(205, LowBytes(v, 2))
    [] ~FitsIn(v, 2) /\ FitsIn(v, 4) -> Tagged(206, LowBytes(v, 4))
    [] ~FitsIn(v, 4)                 -> Tagged(207, v)

(* Size of writeString's output; 0 is its error return. *)
StringSize(n) == CASE n <= 31 -> 1 + n
                   [] n \in 32..255 -> 2 + n
                   [] n > 255 -> 0

(* Size of writeBinary's output for at most 255 bytes. *)
BinarySize(n) == 2 + n

(* Mutant: the size of genesis_hash_b64 is used for genesis_id. *)
CopyStringFieldWide(n) == IF n <= 95 THEN n ELSE 95

(* copy_string_field: what is left of a genesis id of n characters. *)
CopyStringField(n) == IF n <= GenesisCap - 1 THEN n ELSE GenesisCap - 1

-----------------------------------------------------------------------------
(* The fields of a pay transaction, in the order of the code.              *)

Fields == <<"amt", "fee", "fv", "gen", "gh", "lv", "rcv", "snd", "type">>

(* The keys as bytes. *)
KeyBytes ==
  [amt |-> <<97, 109, 116>>, fee |-> <<102, 101, 101>>, fv |-> <<102, 118>>,
   gen |-> <<103, 101, 110>>, gh |-> <<103, 104>>, lv |-> <<108, 118>>,
   rcv |-> <<114, 99, 118>>, snd |-> <<115, 110, 100>>,
   type |-> <<116, 121, 112, 101>>]

UintFields == {"amt", "fee", "fv", "lv"}
BinFields  == {"gh", "rcv", "snd"}
UintArg(p) == [amt |-> p.amount, fee |-> p.fee,
               fv  |-> p.first_valid, lv |-> p.last_valid]

(* The pair count of the map header, which is one byte. *)
FieldCount(p) == IF p.amount # Zero THEN 9 ELSE 8

(* "amt" is the only field that is left out when it is zero. *)
Omitted(p, f) == f = "amt" /\ p.amount = Zero

KeyBytesSize(f) == StringSize(Len(KeyBytes[f]))

ValueSize(p, f) ==
  CASE f \in UintFields -> Len(WriteUint64(UintArg(p)[f]))
    [] f \in BinFields  -> BinarySize(KeySize)
    [] f = "gen"        -> StringSize(p.genesis_len)
    [] f = "type"       -> StringSize(3)

(* What a reader of the bytes can tell about the field. *)
Written(p, f) ==
  [key |-> f, uint |-> IF f \in UintFields THEN WriteUint64(UintArg(p)[f])
                                           ELSE <<>>]

-----------------------------------------------------------------------------
Payments ==
  [amount : Uint64, fee : Uint64, first_valid : Uint64, last_valid : Uint64,
   genesis_len : 0..GenesisCap - 1]

WrittenFields == [key : {Fields[i] : i \in 1..9}, uint : Seq(0..255)]

TypeOK ==
  /\ pay \in Payments
  /\ field \in 1..10 /\ txn \in Seq(WrittenFields)
  /\ pos \in 0..TxnCap /\ scratch \in Nat /\ signed \in 0..SignedCap
  /\ status \in {"encoding", "encoded", "signed", "failed"}

Larger(a, b) == IF a > b THEN a ELSE b

(* The map header is written and the fields are to follow. *)
Init ==
  /\ \E a \in Amounts, f \in SomeFees, r \in Rounds, l \in Rounds,
        n \in GenesisLengths :
       pay = [amount |-> a, fee |-> f, first_valid |-> r, last_valid |-> l,
              genesis_len |-> CopyStringField(n)]
  /\ field = 1 /\ txn = <<>> /\ pos = 1 /\ scratch = 1
  /\ signed = 0 /\ status = "encoding"

(* One field: key and value go through scratch, then append checks that    *)
(* they fit; any failure makes encodePaymentTxn return 0.                  *)
EncodeField ==
  /\ status = "encoding" /\ field <= 9
  /\ LET f    == Fields[field]
         size == KeyBytesSize(f) + ValueSize(pay, f)
     IN IF Omitted(pay, f)
        THEN field' = field + 1 /\ UNCHANGED <<txn, pos, scratch, status>>
        ELSE /\ scratch' = Larger(scratch, Larger(KeyBytesSize(f), ValueSize(pay, f)))
             /\ IF ValueSize(pay, f) = 0 \/ pos + size > TxnCap
                THEN status' = "failed" /\ UNCHANGED <<field, txn, pos>>
                ELSE /\ field' = field + 1 /\ pos' = pos + size
                     /\ txn' = Append(txn, Written(pay, f))
                     /\ UNCHANGED status
  /\ UNCHANGED <<pay, signed>>

(* return pos; "TX" and the bytes are signed. *)
FinishEncoding ==
  /\ status = "encoding" /\ field = 10
  /\ status' = "encoded"
  /\ UNCHANGED <<pay, field, txn, pos, scratch, signed>>

SignedSize(n) ==
  1 + StringSize(3) + BinarySize(SigSize) + StringSize(3) + n

(* Wrap signature and transaction; each append checks signed_txn_cap. *)
WrapSigned ==
  /\ status = "encoded"
  /\ scratch' = Larger(scratch, BinarySize(SigSize))
  /\ IF SignedSize(pos) > SignedCap
     THEN status' = "failed" /\ UNCHANGED signed
     ELSE status' = "signed" /\ signed' = SignedSize(pos)
  /\ UNCHANGED <<pay, field, txn, pos>>

Next == EncodeField \/ FinishEncoding \/ WrapSigned

Spec == Init /\ [][Next]_vars

-----------------------------------------------------------------------------
(* Whatever algod reports, the fixed buffers are large enough: no payment  *)
(* fails to encode, no writer overruns its scratch buffer (they do not     *)
(* check), "TX" and the transaction fit the message that is signed.        *)
BuffersSuffice ==
  /\ status # "failed"
  /\ scratch <= ScratchCap
  /\ 2 + pos <= MessageCap

(* A reader of msgpack's unsigned integers. *)
Widen(s) == [i \in 1..8 |-> IF i <= 8 - Len(s) THEN 0 ELSE s[i - (8 - Len(s))]]
ReadUint64(s) == IF s[1] <= 127 THEN Widen(s) ELSE Widen(Tail(s))

(* The forms of msgpack's unsigned integers: tag and number of bytes. *)
Forms == {<<204, 1>>, <<205, 2>>, <<206, 4>>, <<207, 8>>}
WellFormed(s) == \/ Len(s) = 1 /\ s[1] <= 127
                 \/ \E t \in Forms : s[1] = t[1] /\ Len(s) = 1 + t[2]

Present(f)  == {i \in DOMAIN txn : txn[i].key = f}
ReadBack(f) == IF Present(f) = {} THEN Zero
               ELSE ReadUint64(txn[CHOOSE i \in Present(f) : TRUE].uint)

(* What is signed says what was asked for: the header announces the fields *)
(* that follow, each integer is well formed, and a reader gets the         *)
(* arguments back, an absent field being zero.                             *)
ReadsBack ==
  status \in {"encoded", "signed"} =>
    /\ Len(txn) = FieldCount(pay)
    /\ \A f \in UintFields :
         /\ \A i \in Present(f) : WellFormed(txn[i].uint)
         /\ ReadBack(f) = UintArg(pay)[f]

(* s precedes t in the order of byte strings. *)
Precedes(s, t) ==
  \/ \E i \in 1..Len(s) : /\ i <= Len(t) /\ s[i] < t[i]
                          /\ \A j \in 1..i - 1 : s[j] = t[j]
  \/ Len(s) < Len(t) /\ \A j \in 1..Len(s) : s[j] = t[j]

(* No other form would be shorter. *)
Shortest(s) ==
  \A t \in Forms : FitsIn(ReadUint64(s), t[2]) => Len(s) <= 1 + t[2]

(* Canonical msgpack: keys in ascending order, integers in their shortest  *)
(* form.  algod compares the bytes with its own encoding of what it reads. *)
SortedAndShortest ==
  /\ \A i \in 1..Len(txn) - 1 :
       Precedes(KeyBytes[txn[i].key], KeyBytes[txn[i + 1].key])
  /\ \A i \in DOMAIN txn : txn[i].key \in UintFields => Shortest(txn[i].uint)

(* algorand_codec.cpp:131: a zero amount is omitted, as canonical encoding *)
(* requires; the same goes for every integer field.                        *)
NoZeroField ==
  \A i \in DOMAIN txn :
    txn[i].key \in UintFields => ReadUint64(txn[i].uint) # Zero
=============================================================================
