------------------------ MODULE PaymentCodec_proofs ------------------------
(***************************************************************************)
(* Proofs about PaymentCodec for all 64-bit integers and every genesis id, *)
(* and about KeyText for keys of every size and every text.                *)
(***************************************************************************)
EXTENDS MCPaymentCodec, SequenceTheorems, ModLemmas

(* Bytes written at most when the n-th field is next. *)
Budget(n) == CASE n = 1 -> 1   [] n = 2 -> 14  [] n = 3 -> 27
               [] n = 4 -> 39  [] n = 5 -> 108 [] n = 6 -> 145
               [] n = 7 -> 157 [] n = 8 -> 195 [] n = 9 -> 233
               [] n = 10 -> 242

CodecInv ==
  /\ pay \in Payments /\ field \in 1..10
  /\ pos \in Nat /\ pos <= Budget(field)
  /\ scratch \in Nat /\ scratch <= 66
  /\ status \in {"encoding", "encoded", "signed"}

-----------------------------------------------------------------------------
(* The integers.                                                           *)

LEMMA LowBytesSeq ==
  ASSUME NEW v \in Uint64, NEW k \in {1, 2, 4}
  PROVE  /\ LowBytes(v, k) \in Seq(0..255) /\ Len(LowBytes(v, k)) = k
         /\ \A i \in 1..k : LowBytes(v, k)[i] = v[8 - k + i]
<1>1. CASE k = 1
  BY <1>1 DEF LowBytes, Uint64
<1>2. CASE k = 2
  BY <1>2 DEF LowBytes, Uint64
<1>3. CASE k = 4
  BY <1>3 DEF LowBytes, Uint64
<1> QED
  BY <1>1, <1>2, <1>3

(* b is the tag t and n bytes that read as v. *)
IsTagged(b, t, n, v) ==
  /\ b \in Seq(0..255) /\ Len(b) = 1 + n /\ b[1] = t /\ ReadUint64(b) = v

LEMMA TaggedBytes ==
  \A t \in 128..255, n \in 1..8, s \in Seq(0..255) :
    Len(s) = n => IsTagged(Tagged(t, s), t, n, Widen(s))
<1> SUFFICES ASSUME NEW t \in 128..255, NEW n \in 1..8,
                    NEW s \in Seq(0..255), Len(s) = n
             PROVE  IsTagged(Tagged(t, s), t, n, Widen(s))
  OBVIOUS
<1>1. /\ <<t>> \o s \in Seq(0..255) /\ Len(<<t>> \o s) = 1 + n
      /\ (<<t>> \o s)[1] = t
      /\ Tail(<<t>> \o s) = s
  OBVIOUS
<1>2. ~((<<t>> \o s)[1] <= 127)
  BY <1>1
<1> QED
  BY <1>1, <1>2 DEF Tagged, ReadUint64, IsTagged

(* The five forms of writeUint64. *)
LEMMA WriteForms ==
  ASSUME NEW v \in Uint64
  PROVE  \/ FitsIn(v, 1) /\ v[8] <= 127 /\ WriteUint64(v) = LowBytes(v, 1)
         \/ FitsIn(v, 1) /\ v[8] > 127 /\ WriteUint64(v) = Tagged(204, LowBytes(v, 1))
         \/ ~FitsIn(v, 1) /\ FitsIn(v, 2) /\ WriteUint64(v) = Tagged(205, LowBytes(v, 2))
         \/ ~FitsIn(v, 2) /\ FitsIn(v, 4) /\ WriteUint64(v) = Tagged(206, LowBytes(v, 4))
         \/ ~FitsIn(v, 4) /\ WriteUint64(v) = Tagged(207, v)
<1>1. v[8] \in 0..255
  BY DEF Uint64
<1>2. FitsIn(v, 1) => FitsIn(v, 2)
  BY DEF FitsIn
<1>3. FitsIn(v, 2) => FitsIn(v, 4)
  BY DEF FitsIn
<1>4. (v[8] <= 127) \/ (v[8] > 127)
  BY <1>1
<1>5. (v[8] <= 127) => ~(v[8] > 127)
  BY <1>1
<1> QED
  BY <1>2, <1>3, <1>4, <1>5 DEF WriteUint64

(* Dropping leading zero bytes and putting them back. *)
LEMMA WidenLow ==
  ASSUME NEW v \in Uint64, NEW k \in {1, 2, 4}, FitsIn(v, k)
  PROVE  Widen(LowBytes(v, k)) = v
<1> DEFINE s == LowBytes(v, k)
<1>1. Len(s) = k /\ \A i \in 1..k : s[i] = v[8 - k + i]
  BY LowBytesSeq
<1> HIDE DEF s
<1>2. ASSUME NEW i \in 1..8
      PROVE  (IF i <= 8 - Len(s) THEN 0 ELSE s[i - (8 - Len(s))]) = v[i]
  <2>1. CASE i <= 8 - k
    BY <1>1, <2>1 DEF FitsIn
  <2>2. CASE i > 8 - k
    <3>1. i - (8 - k) \in 1..k /\ 8 - k + (i - (8 - k)) = i
      BY <2>2
    <3> QED
      BY <1>1, <2>2, <3>1
  <2> QED
    BY <2>1, <2>2
<1>3. Widen(s) = [i \in 1..8 |-> v[i]]
  BY <1>2 DEF Widen
<1>4. v = [i \in 1..8 |-> v[i]]
  BY DEF Uint64
<1> QED
  BY <1>3, <1>4 DEF s

LEMMA WidenAll ==
  ASSUME NEW v \in Uint64
  PROVE  Widen(v) = v /\ v \in Seq(0..255) /\ Len(v) = 8
<1>1. v = [i \in 1..8 |-> v[i]] /\ \A i \in 1..8 : v[i] \in 0..255
  BY DEF Uint64
<1>2. [i \in 1..8 |-> v[i]] \in Seq(0..255) /\ Len([i \in 1..8 |-> v[i]]) = 8
  BY <1>1
<1>3. v \in Seq(0..255) /\ Len(v) = 8
  BY <1>1, <1>2
<1>4. Widen(v) = [i \in 1..8 |-> v[i]]
  BY <1>3 DEF Widen
<1> QED
  BY <1>1, <1>3, <1>4

LEMMA FormTags ==
  /\ \A t \in Forms : \/ t[1] = 204 /\ t[2] = 1
                      \/ t[1] = 205 /\ t[2] = 2
                      \/ t[1] = 206 /\ t[2] = 4
                      \/ t[1] = 207 /\ t[2] = 8
  /\ \E t \in Forms : t[1] = 204 /\ t[2] = 1
  /\ \E t \in Forms : t[1] = 205 /\ t[2] = 2
  /\ \E t \in Forms : t[1] = 206 /\ t[2] = 4
  /\ \E t \in Forms : t[1] = 207 /\ t[2] = 8
<1>1. /\ <<204, 1>> \in Forms /\ <<205, 2>> \in Forms
      /\ <<206, 4>> \in Forms /\ <<207, 8>> \in Forms
  BY DEF Forms
<1>2. /\ <<204, 1>>[1] = 204 /\ <<204, 1>>[2] = 1
      /\ <<205, 2>>[1] = 205 /\ <<205, 2>>[2] = 2
      /\ <<206, 4>>[1] = 206 /\ <<206, 4>>[2] = 4
      /\ <<207, 8>>[1] = 207 /\ <<207, 8>>[2] = 8
  OBVIOUS
<1>3. \A t \in Forms : t \in {<<204, 1>>, <<205, 2>>, <<206, 4>>, <<207, 8>>}
  BY DEF Forms
<1>4. \A t \in Forms : \/ t[1] = 204 /\ t[2] = 1
                       \/ t[1] = 205 /\ t[2] = 2
                       \/ t[1] = 206 /\ t[2] = 4
                       \/ t[1] = 207 /\ t[2] = 8
  BY <1>3
<1>5. \E t \in Forms : t[1] = 204 /\ t[2] = 1
  BY <1>1, <1>2, Zenon
<1>6. \E t \in Forms : t[1] = 205 /\ t[2] = 2
  BY <1>1, <1>2, Zenon
<1>7. \E t \in Forms : t[1] = 206 /\ t[2] = 4
  BY <1>1, <1>2, Zenon
<1>8. \E t \in Forms : t[1] = 207 /\ t[2] = 8
  BY <1>1, <1>2, Zenon
<1> QED
  BY <1>4, <1>5, <1>6, <1>7, <1>8

(* writeUint64 on every 64-bit integer: at most nine bytes, a well formed  *)
(* msgpack integer that reads back as the argument, in the shortest form.  *)
THEOREM Uint64Correct ==
  ASSUME NEW v \in Uint64
  PROVE  /\ WriteUint64(v) \in Seq(0..255)
         /\ Len(WriteUint64(v)) \in 1..9
         /\ WellFormed(WriteUint64(v))
         /\ ReadUint64(WriteUint64(v)) = v
         /\ Shortest(WriteUint64(v))
<1> DEFINE w == WriteUint64(v)
<1>1. v[8] \in 0..255
  BY DEF Uint64
<1>2. /\ FitsIn(v, 1) => FitsIn(v, 2)
      /\ FitsIn(v, 2) => FitsIn(v, 4)
  BY DEF FitsIn
<1> HIDE DEF w
<1> SUFFICES /\ w \in Seq(0..255) /\ Len(w) \in 1..9 /\ WellFormed(w)
             /\ ReadUint64(w) = v
             /\ \A t \in Forms : FitsIn(v, t[2]) => Len(w) <= 1 + t[2]
  BY DEF Shortest, w
<1>3. CASE FitsIn(v, 1) /\ v[8] <= 127 /\ w = LowBytes(v, 1)
  <2>1. w \in Seq(0..255) /\ Len(w) = 1 /\ w[1] = v[8]
    BY <1>3, LowBytesSeq
  <2>2. ReadUint64(w) = v
    BY <1>3, <2>1, WidenLow DEF ReadUint64
  <2>3. WellFormed(w)
    BY <1>3, <2>1 DEF WellFormed
  <2> QED
    BY <2>1, <2>2, <2>3, FormTags
<1>4. CASE FitsIn(v, 1) /\ v[8] > 127 /\ w = Tagged(204, LowBytes(v, 1))
  <2>1. 204 \in 128..255 /\ 1 \in 1..8
    OBVIOUS
  <2>2. LowBytes(v, 1) \in Seq(0..255) /\ Len(LowBytes(v, 1)) = 1
    BY LowBytesSeq
  <2>3. /\ w \in Seq(0..255) /\ Len(w) = 2 /\ w[1] = 204
        /\ ReadUint64(w) = Widen(LowBytes(v, 1))
    <3>1. IsTagged(Tagged(204, LowBytes(v, 1)), 204, 1, Widen(LowBytes(v, 1)))
      BY <2>1, <2>2, TaggedBytes, Zenon
    <3>2. Len(w) = 1 + 1
      BY <1>4, <3>1, Zenon DEF IsTagged
    <3> QED
      BY <1>4, <3>1, <3>2 DEF IsTagged
  <2>4. Widen(LowBytes(v, 1)) = v
    BY <1>4, WidenLow
  <2>5. WellFormed(w)
    BY <2>3, FormTags DEF WellFormed
  <2> QED
    <3>1. \A t \in Forms : FitsIn(v, t[2]) => 2 <= 1 + t[2]
      BY <1>2, <1>4, FormTags
    <3>2. \A t \in Forms : FitsIn(v, t[2]) => Len(w) <= 1 + t[2]
      BY <2>3, <3>1
    <3>3. Len(w) \in 1..9
      BY <2>3
    <3> QED
      BY <2>3, <2>4, <2>5, <3>2, <3>3, Zenon
<1>5. CASE ~FitsIn(v, 1) /\ FitsIn(v, 2) /\ w = Tagged(205, LowBytes(v, 2))
  <2>1. 205 \in 128..255 /\ 2 \in 1..8
    OBVIOUS
  <2>2. LowBytes(v, 2) \in Seq(0..255) /\ Len(LowBytes(v, 2)) = 2
    BY LowBytesSeq
  <2>3. /\ w \in Seq(0..255) /\ Len(w) = 3 /\ w[1] = 205
        /\ ReadUint64(w) = Widen(LowBytes(v, 2))
    <3>1. IsTagged(Tagged(205, LowBytes(v, 2)), 205, 2, Widen(LowBytes(v, 2)))
      BY <2>1, <2>2, TaggedBytes, Zenon
    <3>2. Len(w) = 1 + 2
      BY <1>5, <3>1, Zenon DEF IsTagged
    <3> QED
      BY <1>5, <3>1, <3>2 DEF IsTagged
  <2>4. Widen(LowBytes(v, 2)) = v
    BY <1>5, WidenLow
  <2>5. WellFormed(w)
    BY <2>3, FormTags DEF WellFormed
  <2> QED
    <3>1. \A t \in Forms : FitsIn(v, t[2]) => 3 <= 1 + t[2]
      BY <1>2, <1>5, FormTags
    <3>2. \A t \in Forms : FitsIn(v, t[2]) => Len(w) <= 1 + t[2]
      BY <2>3, <3>1
    <3>3. Len(w) \in 1..9
      BY <2>3
    <3> QED
      BY <2>3, <2>4, <2>5, <3>2, <3>3, Zenon
<1>6. CASE ~FitsIn(v, 2) /\ FitsIn(v, 4) /\ w = Tagged(206, LowBytes(v, 4))
  <2>1. 206 \in 128..255 /\ 4 \in 1..8
    OBVIOUS
  <2>2. LowBytes(v, 4) \in Seq(0..255) /\ Len(LowBytes(v, 4)) = 4
    BY LowBytesSeq
  <2>3. /\ w \in Seq(0..255) /\ Len(w) = 5 /\ w[1] = 206
        /\ ReadUint64(w) = Widen(LowBytes(v, 4))
    <3>1. IsTagged(Tagged(206, LowBytes(v, 4)), 206, 4, Widen(LowBytes(v, 4)))
      BY <2>1, <2>2, TaggedBytes, Zenon
    <3>2. Len(w) = 1 + 4
      BY <1>6, <3>1, Zenon DEF IsTagged
    <3> QED
      BY <1>6, <3>1, <3>2 DEF IsTagged
  <2>4. Widen(LowBytes(v, 4)) = v
    BY <1>6, WidenLow
  <2>5. WellFormed(w)
    BY <2>3, FormTags DEF WellFormed
  <2> QED
    <3>1. \A t \in Forms : FitsIn(v, t[2]) => 5 <= 1 + t[2]
      BY <1>2, <1>6, FormTags
    <3>2. \A t \in Forms : FitsIn(v, t[2]) => Len(w) <= 1 + t[2]
      BY <2>3, <3>1
    <3>3. Len(w) \in 1..9
      BY <2>3
    <3> QED
      BY <2>3, <2>4, <2>5, <3>2, <3>3, Zenon
<1>7. CASE ~FitsIn(v, 4) /\ w = Tagged(207, v)
  <2>1. 207 \in 128..255 /\ 8 \in 1..8
    OBVIOUS
  <2>2. v \in Seq(0..255) /\ Len(v) = 8 /\ Widen(v) = v
    BY WidenAll
  <2>3. /\ w \in Seq(0..255) /\ Len(w) = 9 /\ w[1] = 207
        /\ ReadUint64(w) = Widen(v)
    <3>1. IsTagged(Tagged(207, v), 207, 8, Widen(v))
      BY <2>1, <2>2, TaggedBytes, Zenon
    <3>2. Len(w) = 1 + 8
      BY <1>7, <3>1, Zenon DEF IsTagged
    <3> QED
      BY <1>7, <3>1, <3>2 DEF IsTagged
  <2>4. WellFormed(w)
    BY <2>3, FormTags DEF WellFormed
  <2> QED
    <3>1. \A t \in Forms : FitsIn(v, t[2]) => 9 <= 1 + t[2]
      BY <1>2, <1>7, FormTags
    <3>2. \A t \in Forms : FitsIn(v, t[2]) => Len(w) <= 1 + t[2]
      BY <2>3, <3>1
    <3>3. Len(w) \in 1..9
      BY <2>3
    <3> QED
      BY <2>2, <2>3, <2>4, <3>2, <3>3, Zenon
<1> QED
  BY <1>3, <1>4, <1>5, <1>6, <1>7, WriteForms DEF w

-----------------------------------------------------------------------------
(* The sizes.                                                              *)

LEMMA KeySizes ==
  /\ KeyBytesSize("amt") = 4 /\ KeyBytesSize("fee") = 4
  /\ KeyBytesSize("fv") = 3  /\ KeyBytesSize("gen") = 4
  /\ KeyBytesSize("gh") = 3  /\ KeyBytesSize("lv") = 3
  /\ KeyBytesSize("rcv") = 4 /\ KeyBytesSize("snd") = 4
  /\ KeyBytesSize("type") = 5
<1>1. \A n \in 0..31 : StringSize(n) = 1 + n
  BY DEF StringSize
<1>2. /\ Len(KeyBytes["amt"]) = 3 /\ Len(KeyBytes["fee"]) = 3
      /\ Len(KeyBytes["fv"]) = 2  /\ Len(KeyBytes["gen"]) = 3
      /\ Len(KeyBytes["gh"]) = 2  /\ Len(KeyBytes["lv"]) = 2
      /\ Len(KeyBytes["rcv"]) = 3 /\ Len(KeyBytes["snd"]) = 3
      /\ Len(KeyBytes["type"]) = 4
  BY DEF KeyBytes
<1> QED
  BY <1>1, <1>2 DEF KeyBytesSize

LEMMA UintSize ==
  ASSUME NEW p \in Payments, NEW f \in UintFields
  PROVE  ValueSize(p, f) \in 1..9
<1>1. UintArg(p)[f] \in Uint64
  BY DEF Payments, UintArg, UintFields
<1>2. Len(WriteUint64(UintArg(p)[f])) \in 1..9
  BY <1>1, Uint64Correct
<1> QED
  BY <1>2 DEF ValueSize, UintFields, BinFields

LEMMA OtherFieldSizes ==
  ASSUME NEW p \in Payments
  PROVE  /\ ValueSize(p, "gh") = 34 /\ ValueSize(p, "rcv") = 34
         /\ ValueSize(p, "snd") = 34 /\ ValueSize(p, "type") = 4
         /\ ValueSize(p, "gen") \in 1..65
<1>1. \A f \in BinFields : ValueSize(p, f) = 34
  BY DEF ValueSize, UintFields, BinFields, BinarySize, KeySize
<1>2. ValueSize(p, "type") = StringSize(3) /\ ValueSize(p, "gen") = StringSize(p.genesis_len)
  BY DEF ValueSize, UintFields, BinFields
<1>3. p.genesis_len \in 0..63
  BY DEF Payments, GenesisCap
<1>4. StringSize(3) = 4
  BY DEF StringSize
<1>5. StringSize(p.genesis_len) \in 1..65
  <2>1. CASE p.genesis_len <= 31
    BY <1>3, <2>1 DEF StringSize
  <2>2. CASE p.genesis_len > 31
    BY <1>3, <2>2 DEF StringSize
  <2> QED
    BY <1>3, <2>1, <2>2
<1> QED
  BY <1>1, <1>2, <1>4, <1>5 DEF BinFields

(* No field takes more than the budget has for it, nor more than 65 bytes  *)
(* of scratch.                                                             *)
LEMMA FieldFits ==
  ASSUME NEW p \in Payments, NEW n \in 1..9
  PROVE  LET f == Fields[n] IN
         /\ KeyBytesSize(f) \in 1..5 /\ ValueSize(p, f) \in 1..65
         /\ Budget(n) + KeyBytesSize(f) + ValueSize(p, f) <= Budget(n + 1)
         /\ Budget(n + 1) <= 242 /\ Budget(n) <= Budget(n + 1)
<1> USE KeySizes, OtherFieldSizes, UintSize DEF Fields, Budget
<1> USE DEF UintFields
<1>1. CASE n = 1 BY <1>1
<1>2. CASE n = 2 BY <1>2
<1>3. CASE n = 3 BY <1>3
<1>4. CASE n = 4 BY <1>4
<1>5. CASE n = 5 BY <1>5
<1>6. CASE n = 6 BY <1>6
<1>7. CASE n = 7 BY <1>7
<1>8. CASE n = 8 BY <1>8
<1>9. CASE n = 9 BY <1>9
<1> QED
  BY <1>1, <1>2, <1>3, <1>4, <1>5, <1>6, <1>7, <1>8, <1>9

-----------------------------------------------------------------------------
LEMMA InitInv == Init => CodecInv
<1> SUFFICES ASSUME Init PROVE CodecInv
  OBVIOUS
<1>1. \A n \in GenesisLengths : CopyStringField(n) \in 0..GenesisCap - 1
  BY InputAssumption DEF CopyStringField, GenesisCap
<1>2. pay \in Payments
  BY <1>1, InputAssumption DEF Init, Payments
<1> QED
  BY <1>2 DEF Init, CodecInv, Budget

LEMMA EncodeFieldInv == CodecInv /\ EncodeField => CodecInv'
<1> SUFFICES ASSUME CodecInv, EncodeField PROVE CodecInv'
  OBVIOUS
<1> DEFINE f == Fields[field]
           k == KeyBytesSize(f)
           v == ValueSize(pay, f)
<1>1. field \in 1..9 /\ pay \in Payments /\ pos \in Nat /\ pos <= Budget(field)
  BY DEF CodecInv, EncodeField
<1>2. /\ k \in 1..5 /\ v \in 1..65 /\ Budget(field) + k + v <= Budget(field + 1)
      /\ Budget(field + 1) <= 242 /\ Budget(field) <= Budget(field + 1)
  BY <1>1, FieldFits
<1>3. Budget(field) \in Nat /\ Budget(field + 1) \in Nat
  BY <1>1 DEF Budget
<1> HIDE DEF k, v
<1>4. v # 0 /\ ~(pos + (k + v) > TxnCap)
  BY <1>1, <1>2, <1>3 DEF TxnCap
<1>5. \/ field' = field + 1 /\ UNCHANGED <<pos, scratch, status>>
      \/ /\ field' = field + 1 /\ pos' = pos + (k + v)
         /\ scratch' = Larger(scratch, Larger(k, v)) /\ UNCHANGED status
  BY <1>4 DEF EncodeField, k, v
<1>6. pay' = pay
  BY DEF EncodeField
<1>7. pos' \in Nat /\ pos' <= Budget(field + 1)
  BY <1>1, <1>2, <1>3, <1>5
<1>8. scratch' \in Nat /\ scratch' <= 66
  BY <1>2, <1>5 DEF CodecInv, Larger
<1>9. field' \in 1..10 /\ field' = field + 1 /\ status' = status
  BY <1>1, <1>5
<1> QED
  BY <1>6, <1>7, <1>8, <1>9 DEF CodecInv

LEMMA WrapSignedInv == CodecInv /\ WrapSigned => CodecInv'
<1> SUFFICES ASSUME CodecInv, WrapSigned PROVE CodecInv'
  OBVIOUS
<1>1. pos \in Nat /\ pos <= 242
  BY DEF CodecInv, Budget
<1>2. StringSize(3) = 4 /\ BinarySize(SigSize) = 66
  BY DEF StringSize, BinarySize, SigSize
<1>3. ~(SignedSize(pos) > SignedCap)
  BY <1>1, <1>2 DEF SignedSize, SignedCap
<1> QED
  BY <1>2, <1>3 DEF CodecInv, WrapSigned, Larger

LEMMA NextInv == CodecInv /\ [Next]_vars => CodecInv'
<1>1. CodecInv /\ FinishEncoding => CodecInv'
  BY DEF CodecInv, FinishEncoding
<1>2. CodecInv /\ UNCHANGED vars => CodecInv'
  BY DEF CodecInv, vars
<1> QED
  BY <1>1, <1>2, EncodeFieldInv, WrapSignedInv DEF Next

THEOREM CodecInvAlways == Spec => []CodecInv
BY InitInv, NextInv, PTL DEF Spec

(* No payment fails to encode and no buffer is overrun. *)
THEOREM BuffersSufficeAlways == Spec => []BuffersSuffice
<1>1. CodecInv => BuffersSuffice
  <2> SUFFICES ASSUME CodecInv PROVE BuffersSuffice
    OBVIOUS
  <2>1. pos \in Nat /\ pos <= 242
    BY DEF CodecInv, Budget
  <2> QED
    BY <2>1 DEF CodecInv, BuffersSuffice, ScratchCap, MessageCap
<1> QED
  BY <1>1, CodecInvAlways, PTL

-----------------------------------------------------------------------------
(* The fields that were written: all before the next one, in their order,  *)
(* but for a zero amount.                                                  *)

Skip(p) == IF p.amount = Zero THEN 1 ELSE 0

TxnInv ==
  /\ txn \in Seq(WrittenFields)
  /\ Len(txn) = IF field = 1 THEN 0 ELSE field - 1 - Skip(pay)
  /\ \A i \in 1..Len(txn) : txn[i] = Written(pay, Fields[i + Skip(pay)])
  /\ signed \in 0..SignedCap
  /\ status # "encoding" => field = 10

LEMMA UintArgs ==
  ASSUME NEW p \in Payments, NEW f \in UintFields
  PROVE  UintArg(p)[f] \in Uint64
BY DEF Payments, UintArg, UintFields

LEMMA FieldNames ==
  /\ Fields[1] = "amt" /\ \A n \in 2..9 : Fields[n] # "amt"
  /\ \A f \in UintFields : f # "amt" => \E n \in 2..9 : Fields[n] = f
<1>1. /\ Fields[2] = "fee" /\ Fields[3] = "fv" /\ Fields[6] = "lv"
  BY DEF Fields
<1>2. Fields[1] = "amt" /\ \A n \in 2..9 : Fields[n] # "amt"
  BY DEF Fields
<1> QED
  BY <1>1, <1>2 DEF UintFields

LEMMA WrittenType ==
  ASSUME NEW p \in Payments, NEW n \in 1..9
  PROVE  Written(p, Fields[n]) \in WrittenFields
<1> DEFINE f == Fields[n]
<1>1. f \in UintFields => WriteUint64(UintArg(p)[f]) \in Seq(0..255)
  BY UintArgs, Uint64Correct
<1>2. f \in {Fields[i] : i \in 1..9}
  OBVIOUS
<1> HIDE DEF f
<1> QED
  BY <1>1, <1>2 DEF Written, WrittenFields, f

LEMMA EncodeFieldTxn == CodecInv /\ TxnInv /\ EncodeField => TxnInv'
<1> SUFFICES ASSUME CodecInv, TxnInv, EncodeField PROVE TxnInv'
  OBVIOUS
<1> DEFINE f == Fields[field]
           k == KeyBytesSize(f)
           v == ValueSize(pay, f)
<1>1. field \in 1..9 /\ pay \in Payments /\ pos \in Nat /\ pos <= Budget(field)
      /\ pay' = pay /\ signed' = signed
  BY DEF CodecInv, EncodeField
<1>2. /\ k \in 1..5 /\ v \in 1..65 /\ Budget(field) + k + v <= Budget(field + 1)
      /\ Budget(field + 1) <= 242 /\ Budget(field) <= Budget(field + 1)
  BY <1>1, FieldFits
<1>3. Budget(field) \in Nat /\ Budget(field + 1) \in Nat
  BY <1>1 DEF Budget
<1>4. f = "amt" <=> field = 1
  BY <1>1, FieldNames
<1>5. Written(pay, f) \in WrittenFields
  BY <1>1, WrittenType
<1>6. txn \in Seq(WrittenFields) /\ Skip(pay) \in 0..1
      /\ (Skip(pay) = 1 <=> pay.amount = Zero)
  BY DEF TxnInv, Skip
<1> HIDE DEF k, v
<1>7. v # 0 /\ ~(pos + (k + v) > TxnCap)
  BY <1>1, <1>2, <1>3 DEF TxnCap
<1>8. \/ Omitted(pay, f) /\ field' = field + 1 /\ UNCHANGED <<txn, status>>
      \/ /\ ~Omitted(pay, f) /\ field' = field + 1
         /\ txn' = Append(txn, Written(pay, f)) /\ UNCHANGED status
  BY <1>7 DEF EncodeField, k, v
<1>9. status' = "encoding"
  BY <1>8 DEF EncodeField
<1>10. CASE Omitted(pay, f)
  <2>1. field = 1 /\ Skip(pay) = 1 /\ field' = 2 /\ txn' = txn
    BY <1>4, <1>6, <1>8, <1>10 DEF Omitted
  <2>2. Len(txn) = 0
    BY <2>1 DEF TxnInv
  <2> QED
    BY <1>1, <1>6, <1>9, <2>1, <2>2 DEF TxnInv
<1>11. CASE ~Omitted(pay, f)
  <2> DEFINE w == Written(pay, f)
  <2> HIDE DEF w
  <2>1. ~(field = 1 /\ Skip(pay) = 1)
    BY <1>4, <1>6, <1>11 DEF Omitted
  <2>2. Len(txn) = field - 1 - Skip(pay) /\ Len(txn) \in Nat
    BY <1>1, <1>6, <2>1 DEF TxnInv
  <2>3. txn' = Append(txn, w) /\ field' = field + 1
    BY <1>8, <1>11 DEF w
  <2>4. /\ txn' \in Seq(WrittenFields) /\ Len(txn') = Len(txn) + 1
        /\ \A i \in 1..Len(txn) : txn'[i] = txn[i]
        /\ txn'[Len(txn) + 1] = w
    BY <1>5, <1>6, <2>3 DEF w
  <2>5. w = Written(pay, Fields[Len(txn) + 1 + Skip(pay)])
    <3>1. Len(txn) + 1 + Skip(pay) = field
      BY <1>1, <1>6, <2>2
    <3> QED
      BY <3>1 DEF w
  <2>6. ASSUME NEW i \in 1..Len(txn')
        PROVE  txn'[i] = Written(pay', Fields[i + Skip(pay')])
    <3>1. CASE i = Len(txn) + 1
      BY <1>1, <2>4, <2>5, <3>1
    <3>2. CASE i \in 1..Len(txn)
      BY <1>1, <2>4, <3>2 DEF TxnInv
    <3> QED
      BY <2>2, <2>4, <3>1, <3>2
  <2>7. Len(txn') = IF field' = 1 THEN 0 ELSE field' - 1 - Skip(pay')
    BY <1>1, <1>6, <2>2, <2>3, <2>4
  <2>8. signed' \in 0..SignedCap
    BY <1>1 DEF TxnInv
  <2> QED
    BY <1>9, <2>4, <2>6, <2>7, <2>8 DEF TxnInv
<1> QED
  BY <1>10, <1>11

LEMMA WrapSignedTxn == CodecInv /\ TxnInv /\ WrapSigned => TxnInv'
<1> SUFFICES ASSUME CodecInv, TxnInv, WrapSigned PROVE TxnInv'
  OBVIOUS
<1>1. pos \in Nat /\ pos <= 242
  BY DEF CodecInv, Budget
<1>2. StringSize(3) = 4 /\ BinarySize(SigSize) = 66
  BY DEF StringSize, BinarySize, SigSize
<1>3. SignedSize(pos) \in 0..SignedCap
  BY <1>1, <1>2 DEF SignedSize, SignedCap
<1>4. signed' \in 0..SignedCap /\ field = 10 /\ UNCHANGED <<pay, field, txn>>
  BY <1>3 DEF TxnInv, WrapSigned
<1> QED
  BY <1>4 DEF TxnInv

LEMMA TxnInvAlways == Spec => []TxnInv
<1>1. Init => TxnInv
  BY DEF Init, TxnInv, SignedCap
<1>2. CodecInv /\ TxnInv /\ [Next]_vars => TxnInv'
  <2>1. TxnInv /\ FinishEncoding => TxnInv'
    BY DEF TxnInv, FinishEncoding
  <2>2. TxnInv /\ UNCHANGED vars => TxnInv'
    BY DEF TxnInv, vars
  <2> QED
    BY <2>1, <2>2, EncodeFieldTxn, WrapSignedTxn DEF Next
<1> QED
  BY <1>1, <1>2, CodecInvAlways, PTL DEF Spec

(* The variables of the encoder keep their types: in particular no size    *)
(* leaves its buffer (algorand_codec.cpp:112-178).                         *)
THEOREM TypeCorrect == Spec => []TypeOK
<1>1. CodecInv /\ TxnInv => TypeOK
  <2> SUFFICES ASSUME CodecInv, TxnInv PROVE TypeOK
    OBVIOUS
  <2>1. pos \in 0..TxnCap
    BY DEF CodecInv, Budget, TxnCap
  <2> QED
    BY <2>1 DEF CodecInv, TxnInv, TypeOK
<1> QED
  BY <1>1, CodecInvAlways, TxnInvAlways, PTL

(* What is read back from the bytes are the arguments, for all amounts,    *)
(* fees and rounds (algorand_codec.cpp:57-178).                            *)
THEOREM ReadsBackAlways == Spec => []ReadsBack
<1>1. CodecInv /\ TxnInv => ReadsBack
  <2> SUFFICES ASSUME CodecInv, TxnInv, status \in {"encoded", "signed"}
               PROVE  /\ Len(txn) = FieldCount(pay)
                      /\ \A f \in UintFields :
                           /\ \A i \in Present(f) : WellFormed(txn[i].uint)
                           /\ ReadBack(f) = UintArg(pay)[f]
    BY DEF ReadsBack
  <2>1. /\ pay \in Payments /\ Skip(pay) \in 0..1 /\ Len(txn) = 9 - Skip(pay)
        /\ (Skip(pay) = 1 <=> pay.amount = Zero) /\ txn \in Seq(WrittenFields)
    BY DEF CodecInv, TxnInv, Skip
  <2>2. Len(txn) = FieldCount(pay)
    BY <2>1 DEF FieldCount
  <2>3. ASSUME NEW f \in UintFields
        PROVE  /\ \A i \in Present(f) : WellFormed(txn[i].uint)
               /\ ReadBack(f) = UintArg(pay)[f]
    <3> DEFINE v == UintArg(pay)[f]
    <3>1. v \in Uint64
      BY <2>1, UintArgs
    <3> HIDE DEF v
    <3>2. WellFormed(WriteUint64(v)) /\ ReadUint64(WriteUint64(v)) = v
      BY <3>1, Uint64Correct
    <3>3. ASSUME NEW i \in Present(f)
          PROVE  txn[i].uint = WriteUint64(v)
      <4>1. i \in 1..Len(txn) /\ txn[i].key = f
        BY <2>1 DEF Present
      <4>2. txn[i] = Written(pay, Fields[i + Skip(pay)])
        BY <4>1 DEF TxnInv
      <4>3. txn[i].key = Fields[i + Skip(pay)]
        BY <4>2 DEF Written
      <4> QED
        BY <4>1, <4>2, <4>3 DEF Written, v
    <3>4. CASE Present(f) = {}
      <4>1. \A n \in 1..9 : n - Skip(pay) \in 1..Len(txn) => Fields[n] # f
        <5> SUFFICES ASSUME NEW n \in 1..9, n - Skip(pay) \in 1..Len(txn), Fields[n] = f
                     PROVE  FALSE
          OBVIOUS
        <5> DEFINE i == n - Skip(pay)
        <5>1. i + Skip(pay) = n /\ i \in DOMAIN txn
          BY <2>1
        <5>2. txn[i] = Written(pay, Fields[n])
          BY <5>1 DEF TxnInv
        <5>3. i \in Present(f)
          BY <5>1, <5>2 DEF Present, Written
        <5> QED
          BY <3>4, <5>3
      <4>2. \A n \in 2..9 : Fields[n] # f
        BY <2>1, <4>1
      <4>3. f = "amt"
        BY <4>2, FieldNames
      <4>4. Skip(pay) = 1
        BY <2>1, <4>1, <4>3, FieldNames
      <4>5. v = Zero
        BY <2>1, <4>3, <4>4 DEF v, UintArg
      <4> QED
        BY <3>4, <4>5 DEF ReadBack, v
    <3>5. CASE Present(f) # {}
      <4> DEFINE i == CHOOSE j \in Present(f) : TRUE
      <4>1. i \in Present(f)
        BY <3>5
      <4> HIDE DEF i
      <4>2. ReadUint64(txn[i].uint) = v
        BY <3>2, <3>3, <4>1
      <4>3. ReadBack(f) = v
        BY <3>5, <4>2 DEF ReadBack, i
      <4> QED
        BY <3>2, <3>3, <4>3 DEF v
    <3> QED
      BY <3>2, <3>3, <3>4, <3>5 DEF v
  <2> QED
    BY <2>2, <2>3
<1> QED
  BY <1>1, CodecInvAlways, TxnInvAlways, PTL

LEMMA FirstByteLess ==
  ASSUME NEW s, NEW t, 1 \in 1..Len(s), 1 <= Len(t), s[1] < t[1]
  PROVE  Precedes(s, t)
BY DEF Precedes

LEMMA SecondByteLess ==
  ASSUME NEW s, NEW t, 2 \in 1..Len(s), 2 <= Len(t), s[1] = t[1], s[2] < t[2]
  PROVE  Precedes(s, t)
<1>1. \A j \in 1..2 - 1 : s[j] = t[j]
  OBVIOUS
<1> QED
  BY <1>1 DEF Precedes

LEMMA KeysSorted ==
  \A n \in 1..8 : Precedes(KeyBytes[Fields[n]], KeyBytes[Fields[n + 1]])
<1>1. Precedes(KeyBytes["amt"], KeyBytes["fee"])
  BY FirstByteLess DEF KeyBytes
<1>2. Precedes(KeyBytes["fee"], KeyBytes["fv"])
  BY SecondByteLess, SMTT(60) DEF KeyBytes
<1>3. Precedes(KeyBytes["fv"], KeyBytes["gen"])
  BY FirstByteLess DEF KeyBytes
<1>4. Precedes(KeyBytes["gen"], KeyBytes["gh"])
  BY SecondByteLess DEF KeyBytes
<1>5. Precedes(KeyBytes["gh"], KeyBytes["lv"])
  BY FirstByteLess DEF KeyBytes
<1>6. Precedes(KeyBytes["lv"], KeyBytes["rcv"])
  <2>1. KeyBytes["lv"] = <<108, 118>> /\ KeyBytes["rcv"] = <<114, 99, 118>>
    BY DEF KeyBytes
  <2>2. /\ 1 \in 1..Len(<<108, 118>>) /\ 1 <= Len(<<114, 99, 118>>)
        /\ <<108, 118>>[1] < <<114, 99, 118>>[1]
    OBVIOUS
  <2> QED
    BY <2>1, <2>2, FirstByteLess
<1>7. Precedes(KeyBytes["rcv"], KeyBytes["snd"])
  BY FirstByteLess DEF KeyBytes
<1>8. Precedes(KeyBytes["snd"], KeyBytes["type"])
  BY FirstByteLess DEF KeyBytes
<1> QED
  BY <1>1, <1>2, <1>3, <1>4, <1>5, <1>6, <1>7, <1>8 DEF Fields

(* The bytes are canonical at every moment: the keys ascend and no integer *)
(* has a shorter form (algorand_codec.cpp:57-178).                         *)
THEOREM SortedAndShortestAlways == Spec => []SortedAndShortest
<1>1. CodecInv /\ TxnInv => SortedAndShortest
  <2> SUFFICES ASSUME CodecInv, TxnInv PROVE SortedAndShortest
    OBVIOUS
  <2>1. /\ pay \in Payments /\ Skip(pay) \in 0..1 /\ field \in 1..10
        /\ txn \in Seq(WrittenFields)
    BY DEF CodecInv, TxnInv, Skip
  <2>2. Len(txn) \in 0..9 - Skip(pay)
    BY <2>1 DEF TxnInv
  <2>3. ASSUME NEW i \in 1..Len(txn)
        PROVE  /\ txn[i] = Written(pay, Fields[i + Skip(pay)])
               /\ i + Skip(pay) \in 1..9
    <3>1. txn[i] = Written(pay, Fields[i + Skip(pay)])
      BY DEF TxnInv
    <3> QED
      BY <2>1, <2>2, <3>1
  <2>4. ASSUME NEW i \in 1..Len(txn)
        PROVE  txn[i].key = Fields[i + Skip(pay)]
    <3>1. txn[i] = Written(pay, Fields[i + Skip(pay)])
      BY <2>3
    <3> QED
      BY <3>1 DEF Written
  <2>5. ASSUME NEW i \in 1..Len(txn) - 1
        PROVE  Precedes(KeyBytes[txn[i].key], KeyBytes[txn[i + 1].key])
    <3> DEFINE n == i + Skip(pay)
    <3>1. n \in 1..8 /\ i + 1 + Skip(pay) = n + 1 /\ i \in 1..Len(txn) /\ i + 1 \in 1..Len(txn)
      BY <2>1, <2>2
    <3>2. txn[i].key = Fields[n] /\ txn[i + 1].key = Fields[n + 1]
      BY <2>4, <3>1
    <3> QED
      BY <3>1, <3>2, KeysSorted
  <2>6. ASSUME NEW i \in DOMAIN txn, txn[i].key \in UintFields
        PROVE  Shortest(txn[i].uint)
    <3> DEFINE f == Fields[i + Skip(pay)]
    <3>1. i \in 1..Len(txn) /\ txn[i] = Written(pay, f) /\ f \in UintFields
      BY <2>1, <2>3, <2>4, <2>6
    <3> HIDE DEF f
    <3>2. txn[i].uint = WriteUint64(UintArg(pay)[f])
      BY <3>1 DEF Written
    <3>3. UintArg(pay)[f] \in Uint64
      BY <2>1, <3>1, UintArgs
    <3>4. Shortest(WriteUint64(UintArg(pay)[f]))
      BY <3>3, Uint64Correct
    <3> QED
      BY <3>2, <3>4
  <2> QED
    BY <2>5, <2>6 DEF SortedAndShortest
<1> QED
  BY <1>1, CodecInvAlways, TxnInvAlways, PTL

-----------------------------------------------------------------------------
(***************************************************************************)
(* The decoders of KeyText, for keys and texts of any length.              *)
(*                                                                         *)
(* The invariant of an address is ReadsSoFar: what has been decoded is the *)
(* first bits of the text and what is left in the buffer the next ones; a  *)
(* character adds five bits, eight make a byte, and the twelve lowest bits *)
(* of the buffer are all that is ever used.  That of a secret says which   *)
(* text its form was decided on and which digits have been read.           *)
(***************************************************************************)

LEMMA TextConstants ==
  /\ PublicSize \in Nat /\ DecodedCap \in Nat /\ SecretSize \in Nat
  /\ PublicSize <= DecodedCap /\ SecretSize % 3 # 0
  /\ Wrap \in Nat \ {0} /\ Wrap % 4096 = 0
  /\ Addresses \subseteq Seq(1..127) /\ SecretTexts \subseteq Seq(1..127)
  BY TextAssumption

(* What the digits are worth. *)
LEMMA DigitValues ==
  ASSUME NEW c \in Int
  PROVE  /\ Base32Value(c) \in -1..31
         /\ HexValue(c) \in -1..15
         /\ Base64Value(c) \in -1..63
  BY DEF Base32Value, HexValue, Base64Value

LEMMA PadIsNoDigit ==
  Base32Value(Pad) = -1 /\ HexValue(Pad) = -1 /\ Base64Value(Pad) = -1
  BY DEF Base32Value, HexValue, Base64Value, Pad

(* Bits of numbers. *)
LEMMA ShiftedType ==
  ASSUME NEW n \in Nat, NEW j \in 0..11
  PROVE  Shifted(n, j) \in Nat
<1>1. Two[j + 1] \in Nat \ {0}
  BY DEF Two
<1> QED
  BY <1>1 DEF Shifted

(* Five bits are shifted in below. *)
LEMMA BitShiftedIn ==
  ASSUME NEW n \in Nat, NEW v \in 0..31, NEW j \in 0..4
  PROVE  Bit(n * 32 + v, j) = Bit(v, j)
<1>1. CASE j = 0
  BY <1>1 DEF Bit, Shifted, Two
<1>2. CASE j = 1
  BY <1>2 DEF Bit, Shifted, Two
<1>3. CASE j = 2
  BY <1>3 DEF Bit, Shifted, Two
<1>4. CASE j = 3
  BY <1>4 DEF Bit, Shifted, Two
<1>5. CASE j = 4
  BY <1>5 DEF Bit, Shifted, Two
<1> QED
  BY <1>1, <1>2, <1>3, <1>4, <1>5

LEMMA BitShiftedUp ==
  ASSUME NEW n \in Nat, NEW v \in 0..31, NEW j \in 0..6
  PROVE  Bit(n * 32 + v, j + 5) = Bit(n, j)
<1>1. ASSUME NEW m \in {1, 2, 4, 8, 16, 32, 64}
      PROVE  (n * 32 + v) \div (m * 32) = n \div m
  <2>1. PICK q \in Int, r \in Int : n = m * q + r /\ r \in 0..m-1 /\ n \div m = q
    <3>1. n = m * (n \div m) + (n % m) /\ n \div m \in Int /\ n % m \in 0..m-1
      OBVIOUS
    <3> QED
      BY <3>1
  <2>2. q \in Nat
    BY <2>1
  <2> DEFINE x == n * 32 + v
             y == r * 32 + v
  <2>3. x = (m * 32) * q + y /\ y \in 0..m*32-1 /\ x \in Int
    BY <2>1, <2>2
  <2> HIDE DEF x, y
  <2>4. x \div (m * 32) = q
    BY <2>3, <2>2
  <2> QED
    BY <2>1, <2>4 DEF x
<1>2. Two[j + 1] \in {1, 2, 4, 8, 16, 32, 64} /\ Two[j + 5 + 1] = Two[j + 1] * 32
  BY DEF Two
<1> QED
  BY <1>1, <1>2 DEF Bit, Shifted

(* What leaves the top of buffer is not missed: twelve bits stay. *)
LEMMA BitKept ==
  ASSUME NEW n \in Nat, NEW j \in 0..11
  PROVE  Bit(n % Wrap, j) = Bit(n, j)
<1>1. PICK q \in Int, z \in 0..Wrap-1 : n = Wrap * q + z /\ n % Wrap = z
  <2>1. n = Wrap * (n \div Wrap) + (n % Wrap) /\ n \div Wrap \in Int /\ n % Wrap \in 0..Wrap-1
    BY TextConstants
  <2> QED
    BY <2>1
<1>2. PICK w \in Int : Wrap = 4096 * w
  BY TextConstants
<1>3. Wrap * q = 4096 * (w * q) /\ w * q \in Int
  BY <1>2
<1>4. PICK t \in Int : n = 4096 * t + z
  BY <1>1, <1>3
<1>5. z \in Nat
  BY TextConstants
<1> DEFINE powers == {1, 2, 4, 8, 16, 32, 64, 128, 256, 512, 1024, 2048}
<1>6. \A m \in powers : (n \div m) % 2 = (z \div m) % 2
  BY <1>4, <1>5
<1>7. Two[j + 1] \in powers
  BY DEF Two
<1> HIDE DEF powers
<1>8. (n \div Two[j + 1]) % 2 = (z \div Two[j + 1]) % 2
  BY <1>6, <1>7, Zenon
<1>9. Bit(n, j) = Bit(z, j)
  BY <1>8 DEF Bit, Shifted
<1> QED
  BY <1>1, <1>9

(* The byte that is taken out of n after b bits. *)
LEMMA BitOfByte ==
  ASSUME NEW n \in Nat, NEW b \in 0..4, NEW i \in 0..7
  PROVE  Bit(Shifted(n, b) % 256, i) = Bit(n, b + i)
<1> DEFINE y == Shifted(n, b)
<1>1. y \in Nat
  <2>1. b \in 0..11
    OBVIOUS
  <2> QED
    BY <2>1, ShiftedType
<1>2. \A k \in 0..7 : Bit(y % 256, k) = Bit(y, k)
  <2>1. ASSUME NEW m \in {1, 2, 4, 8, 16, 32, 64, 128}
        PROVE  ((y % 256) \div m) % 2 = (y \div m) % 2
    <3> HIDE DEF y
    <3> QED
      BY <1>1
  <2>2. \A k \in 0..7 : Two[k + 1] \in {1, 2, 4, 8, 16, 32, 64, 128}
    BY DEF Two
  <2> HIDE DEF y
  <2> QED
    BY <2>1, <2>2 DEF Bit, Shifted
<1>3. Bit(y, i) = Bit(n, b + i)
  <2>1. ASSUME NEW l \in {1, 2, 4, 8, 16}, NEW m \in {1, 2, 4, 8, 16, 32, 64, 128}
        PROVE  (n \div l) \div m = n \div (l * m)
    <3>1. PICK q \in Nat, r \in 0..l-1 : n = l * q + r /\ n \div l = q
      <4>1. n = l * (n \div l) + (n % l) /\ n \div l \in Nat /\ n % l \in 0..l-1
        OBVIOUS
      <4> QED
        BY <4>1
    <3>2. PICK p \in Nat, s \in 0..m-1 : q = m * p + s /\ q \div m = p
      <4>1. q = m * (q \div m) + (q % m) /\ q \div m \in Nat /\ q % m \in 0..m-1
        OBVIOUS
      <4> QED
        BY <4>1
    <3>3. n = (l * m) * p + (l * s + r) /\ l * s + r \in 0..l*m-1
      BY <3>1, <3>2
    <3>4. n \div (l * m) = p
      BY <3>3
    <3> QED
      BY <3>1, <3>2, <3>4
  <2>2. /\ Two[b + 1] \in {1, 2, 4, 8, 16} /\ Two[i + 1] \in {1, 2, 4, 8, 16, 32, 64, 128}
        /\ Two[b + i + 1] = Two[b + 1] * Two[i + 1]
    BY DEF Two
  <2>3. (n \div Two[b + 1]) \div Two[i + 1] = n \div Two[b + i + 1]
    BY <2>1, <2>2
  <2> QED
    BY <2>3 DEF Bit, Shifted
<1> QED
  BY <1>2, <1>3

(* A byte is known by its bits, and so is a sequence of bytes. *)
LEMMA ByteByBits ==
  ASSUME NEW x \in 0..255, NEW y \in 0..255,
         \A i \in 0..7 : Bit(x, i) = Bit(y, i)
  PROVE  x = y
<1>1. /\ Bit(x, 0) = x % 2          /\ Bit(y, 0) = y % 2
      /\ Bit(x, 1) = (x \div 2) % 2  /\ Bit(y, 1) = (y \div 2) % 2
      /\ Bit(x, 2) = (x \div 4) % 2  /\ Bit(y, 2) = (y \div 4) % 2
      /\ Bit(x, 3) = (x \div 8) % 2  /\ Bit(y, 3) = (y \div 8) % 2
      /\ Bit(x, 4) = (x \div 16) % 2 /\ Bit(y, 4) = (y \div 16) % 2
      /\ Bit(x, 5) = (x \div 32) % 2 /\ Bit(y, 5) = (y \div 32) % 2
      /\ Bit(x, 6) = (x \div 64) % 2 /\ Bit(y, 6) = (y \div 64) % 2
      /\ Bit(x, 7) = (x \div 128) % 2 /\ Bit(y, 7) = (y \div 128) % 2
  BY DEF Bit, Shifted, Two
<1>2. /\ x % 2 = y % 2                   /\ (x \div 2) % 2 = (y \div 2) % 2
      /\ (x \div 4) % 2 = (y \div 4) % 2   /\ (x \div 8) % 2 = (y \div 8) % 2
      /\ (x \div 16) % 2 = (y \div 16) % 2 /\ (x \div 32) % 2 = (y \div 32) % 2
      /\ (x \div 64) % 2 = (y \div 64) % 2 /\ (x \div 128) % 2 = (y \div 128) % 2
  BY <1>1
<1>3. x \div 128 = y \div 128
  BY <1>2
<1>4. x \div 64 = y \div 64
  BY <1>2, <1>3
<1>5. x \div 32 = y \div 32
  BY <1>2, <1>4
<1>6. x \div 16 = y \div 16
  BY <1>2, <1>5
<1>7. x \div 8 = y \div 8
  BY <1>2, <1>6
<1>8. x \div 4 = y \div 4
  BY <1>2, <1>7
<1>9. x \div 2 = y \div 2
  BY <1>2, <1>8
<1> QED
  BY <1>2, <1>9

LEMMA BytesByBits ==
  ASSUME NEW s \in Seq(0..255), NEW t \in Seq(0..255), Len(s) = Len(t),
         \A k \in 0..8 * Len(s) - 1 : ByteBit(s, k) = ByteBit(t, k)
  PROVE  s = t
<1>0. Len(s) \in Nat /\ Len(t) \in Nat
  OBVIOUS
<1>1. ASSUME NEW n \in 1..Len(s)
      PROVE  s[n] = t[n]
  <2>1. ASSUME NEW i \in 0..7
        PROVE  Bit(s[n], i) = Bit(t[n], i)
    <3> DEFINE k == 8 * (n - 1) + 7 - i
           d == n - 1
           r == 7 - i
    <3>1. d \in Nat /\ d < Len(s) /\ r \in 0..7 /\ k = 8 * d + r
      BY <1>0
    <3> HIDE DEF k, d, r
    <3>2. k \in Nat /\ k <= 8 * Len(s) - 1
      BY <1>0, <3>1
    <3>3. k \div 8 = d
      BY <3>1
    <3>4. k % 8 = r
      BY <3>1, ModUnique
    <3>5. 8 * Len(s) - 1 \in Int
      BY <1>0
    <3>6. k \in 0..8 * Len(s) - 1 /\ k \div 8 = d /\ k % 8 = r
      BY <3>2, <3>3, <3>4, <3>5
    <3>7. k \in 0..8 * Len(s) - 1 /\ k \div 8 + 1 = n /\ 7 - (k % 8) = i
      BY <3>6 DEF d, r
    <3> QED
      BY <3>7 DEF ByteBit
  <2>2. s[n] \in 0..255 /\ t[n] \in 0..255
    <3>1. n \in 1..Len(t)
      OBVIOUS
    <3> QED
      BY <3>1, ElementOfSeq
  <2> QED
    BY <2>1, <2>2, ByteByBits
<1> QED
  BY <1>1

-----------------------------------------------------------------------------
(* Addresses.                                                              *)

(* Bit k of a text in base32. *)
AddressBit(t, k) == Bit(Base32Value(t[k \div 5 + 1]), 4 - (k % 5))

(* After n characters: the bytes and the bits that are not yet a byte are  *)
(* the bits of the characters.                                             *)
ReadsSoFar(t, n, b, rest, d) ==
  /\ 5 * n = 8 * Len(d) + rest
  /\ \A i \in 1..n : Base32Value(t[i]) >= 0
  /\ \A k \in 0..8 * Len(d) - 1 : ByteBit(d, k) = AddressBit(t, k)
  /\ \A j \in 0..rest - 1 : Bit(b, j) = AddressBit(t, 5 * n - 1 - j)

LEMMA BufferType ==
  ASSUME NEW b \in Nat, NEW v \in 0..31
  PROVE  b * 32 + v \in Nat /\ ShiftedIn(b, v) \in 0..Wrap-1
<1>1. b * 32 + v \in Nat
  OBVIOUS
<1> QED
  BY <1>1, TextConstants DEF ShiftedIn

LEMMA OneMoreDigit ==
  ASSUME NEW t, NEW n \in Nat, NEW v \in 0..31, v = Base32Value(t[n + 1]),
         \A i \in 1..n : Base32Value(t[i]) >= 0
  PROVE  \A i \in 1..n + 1 : Base32Value(t[i]) >= 0
<1> SUFFICES ASSUME NEW i \in 1..n + 1
             PROVE  Base32Value(t[i]) >= 0
  OBVIOUS
<1>1. CASE i = n + 1
  BY <1>1
<1>2. CASE i # n + 1
  BY <1>2
<1> QED
  BY <1>1, <1>2

(* The bits in the buffer after one more character. *)
LEMMA BufferBits ==
  ASSUME NEW t \in Seq(1..127), NEW n \in 0..Len(t) - 1, NEW b \in Nat,
         NEW rest \in 0..7, NEW d \in Seq(0..255), ReadsSoFar(t, n, b, rest, d),
         NEW v \in 0..31, v = Base32Value(t[n + 1]),
         NEW j \in 0..rest + 4
  PROVE  Bit(ShiftedIn(b, v), j) = AddressBit(t, 5 * (n + 1) - 1 - j)
<1>0. n \in Nat /\ j \in 0..11 /\ b * 32 + v \in Nat
  <2>1. n \in Nat
    OBVIOUS
  <2>2. j \in 0..11
    OBVIOUS
  <2>3. b * 32 + v \in Nat
    BY BufferType
  <2> QED
    BY <2>1, <2>2, <2>3
<1>1. Bit(ShiftedIn(b, v), j) = Bit(b * 32 + v, j)
  BY <1>0, BitKept DEF ShiftedIn
<1>2. CASE j <= 4
  <2>1. j \in 0..4
    BY <1>2
  <2>2. Bit(b * 32 + v, j) = Bit(v, j)
    BY <2>1, BitShiftedIn
  <2> DEFINE k == 5 * (n + 1) - 1 - j
  <2>3. k = 5 * n + (4 - j) /\ 4 - j \in 0..4
    BY <1>0, <2>1
  <2>4. k \div 5 = n
    BY <1>0, <2>3
  <2>5. k % 5 = 4 - j
    BY <1>0, <2>3, ModUnique
  <2>6. 4 - (k % 5) = j
    BY <2>5
  <2>7. AddressBit(t, k) = Bit(v, j)
    BY <2>4, <2>6 DEF AddressBit
  <2> QED
    BY <1>1, <2>2, <2>7
<1>3. CASE ~(j <= 4)
  <2>1. j - 5 \in 0..6 /\ j - 5 \in 0..rest - 1 /\ j - 5 + 5 = j
    BY <1>3
  <2>2. Bit(b * 32 + v, j - 5 + 5) = Bit(b, j - 5)
    BY <2>1, BitShiftedUp
  <2>3. Bit(b, j - 5) = AddressBit(t, 5 * n - 1 - (j - 5))
    BY <2>1 DEF ReadsSoFar
  <2>4. 5 * n - 1 - (j - 5) = 5 * (n + 1) - 1 - j
    BY <1>0
  <2> QED
    BY <1>1, <2>1, <2>2, <2>3, <2>4
<1> QED
  BY <1>2, <1>3

LEMMA ReadsOnWithout ==
  ASSUME NEW t \in Seq(1..127), NEW n \in 0..Len(t) - 1, NEW b \in Nat,
         NEW rest \in 0..7, NEW d \in Seq(0..255), ReadsSoFar(t, n, b, rest, d),
         NEW v \in 0..31, v = Base32Value(t[n + 1])
  PROVE  ReadsSoFar(t, n + 1, ShiftedIn(b, v), rest + 5, d)
<1>0. n \in Nat /\ Len(d) \in Nat
  OBVIOUS
<1>1. 5 * (n + 1) = 8 * Len(d) + (rest + 5)
  BY <1>0 DEF ReadsSoFar
<1>2. \A i \in 1..n + 1 : Base32Value(t[i]) >= 0
  BY <1>0, OneMoreDigit DEF ReadsSoFar
<1>3. \A j \in 0..(rest + 5) - 1 :
        Bit(ShiftedIn(b, v), j) = AddressBit(t, 5 * (n + 1) - 1 - j)
  <2>1. 0..(rest + 5) - 1 = 0..rest + 4
    OBVIOUS
  <2> QED
    BY <2>1, BufferBits, ZenonT(60)
<1> QED
  BY <1>1, <1>2, <1>3 DEF ReadsSoFar

(* Eight bits make a byte. *)
IsNextDigit(t, n, v) == v \in 0..31 /\ v = Base32Value(t[n + 1])
ReadsByte(t, n, b, rest, d, v) ==
  ReadsSoFar(t, n + 1, ShiftedIn(b, v), rest - 3,
             Append(d, Shifted(ShiftedIn(b, v), rest - 3) % 256))

LEMMA ReadsOnWith ==
  ASSUME NEW t \in Seq(1..127), NEW n \in 0..Len(t) - 1, NEW b \in Nat,
         NEW rest \in 3..7, NEW d \in Seq(0..255), ReadsSoFar(t, n, b, rest, d),
         NEW v, IsNextDigit(t, n, v)
  PROVE  ReadsByte(t, n, b, rest, d, v)
<1> v \in 0..31 /\ v = Base32Value(t[n + 1])
  BY DEF IsNextDigit
<1> DEFINE c == ShiftedIn(b, v)
           x == Shifted(c, rest - 3) % 256
           e == Append(d, x)
<1>0. n \in Nat /\ Len(d) \in Nat /\ rest \in 0..7 /\ rest - 3 \in 0..4 /\ rest - 3 \in 0..11
  OBVIOUS
<1>1. c \in Nat
  <2>1. c \in 0..Wrap-1
    BY BufferType
  <2> HIDE DEF c
  <2> QED
    BY <2>1
<1>2. x \in 0..255
  <2> DEFINE y == Shifted(c, rest - 3)
  <2>1. y \in Nat
    BY <1>0, <1>1, ShiftedType
  <2> HIDE DEF y
  <2>2. y % 256 \in 0..255
    BY <2>1
  <2> QED
    BY <2>2 DEF y
<1>3. Len(e) = Len(d) + 1 /\ e[Len(d) + 1] = x /\ \A i \in 1..Len(d) : e[i] = d[i]
  <2> HIDE DEF x
  <2> QED
    BY <1>2
<1>4. 5 * n = 8 * Len(d) + rest
  BY DEF ReadsSoFar
<1>5. 5 * (n + 1) = 8 * Len(e) + (rest - 3)
  BY <1>0, <1>3, <1>4
<1>6. \A i \in 1..n + 1 : Base32Value(t[i]) >= 0
  BY <1>0, OneMoreDigit DEF ReadsSoFar
<1>7. \A j \in 0..rest + 4 : Bit(c, j) = AddressBit(t, 5 * (n + 1) - 1 - j)
  BY <1>0, BufferBits
<1> HIDE DEF c, x, e
<1>8. \A j \in 0..(rest - 3) - 1 : Bit(c, j) = AddressBit(t, 5 * (n + 1) - 1 - j)
  BY <1>0, <1>7
<1>9. ASSUME NEW k \in 0..8 * Len(e) - 1
      PROVE  ByteBit(e, k) = AddressBit(t, k)
  <2>1. CASE k < 8 * Len(d)
    <3>1. k \in 0..8 * Len(d) - 1 /\ k \div 8 + 1 \in 1..Len(d)
      BY <1>0, <2>1
    <3>2. ByteBit(e, k) = ByteBit(d, k)
      BY <1>3, <3>1 DEF ByteBit
    <3> QED
      BY <3>1, <3>2 DEF ReadsSoFar
  <2>2. CASE ~(k < 8 * Len(d))
    <3> DEFINE r == k - 8 * Len(d)
    <3> HIDE DEF r
    <3>9. k \in Int /\ Len(e) = Len(d) + 1 /\ k <= 8 * Len(e) - 1
      BY <1>0, <1>3
    <3>10. k <= 8 * Len(d) + 7 /\ k >= 8 * Len(d)
      BY <1>0, <2>2, <3>9
    <3> DEFINE a == 8 * Len(d)
    <3>11. k \in Int /\ a \in Int /\ a <= k /\ k <= a + 7 /\ r = k - a
      BY <1>0, <3>9, <3>10 DEF r
    <3> HIDE DEF a
    <3>12. k = a + r /\ r \in 0..7
      BY <3>11
    <3>1. k = 8 * Len(d) + r /\ r \in 0..7
      BY <3>12 DEF a
    <3>2. k \div 8 = Len(d)
      BY <1>0, <3>1
    <3>3. k % 8 = r
      BY <1>0, <3>1, ModUnique
    <3>4. 7 - r \in 0..7
      BY <3>1
    <3>5. ByteBit(e, k) = Bit(x, 7 - r)
      BY <1>3, <3>2, <3>3 DEF ByteBit
    <3>6. Bit(x, 7 - r) = Bit(c, (rest - 3) + (7 - r))
      BY SMTT(60), <1>0, <1>1, <3>4, BitOfByte DEF x
    <3>7. (rest - 3) + (7 - r) \in 0..rest + 4
      BY <3>1
    <3>8. 5 * (n + 1) - 1 - ((rest - 3) + (7 - r)) = k
      BY <1>0, <1>4, <3>1
    <3> QED
      BY <1>7, <3>5, <3>6, <3>7, <3>8
  <2> QED
    BY <2>1, <2>2
<1> QED
  BY <1>5, <1>6, <1>8, <1>9 DEF ReadsByte, ReadsSoFar, c, x, e

-----------------------------------------------------------------------------
(* Secrets in hexadecimal.                                                 *)

PairsRead(t, d) ==
  \A i \in 1..Len(d) : d[i] = HexValue(t[2*i - 1]) * 16 + HexValue(t[2*i])

LEMMA HexDigitsRead ==
  /\ \A v \in 0..15 : \A c \in HexDigits(v) : HexValue(c) = v
  /\ \A c \in Int : HexValue(c) >= 0 => c \in HexDigits(HexValue(c))
<1>1. ASSUME NEW v \in 0..15, NEW c \in HexDigits(v)
      PROVE  HexValue(c) = v
  <2>1. CASE v < 10
    BY <2>1 DEF HexDigits, HexValue
  <2>2. CASE ~(v < 10)
    BY <2>2 DEF HexDigits, HexValue
  <2> QED
    BY <2>1, <2>2
<1>2. ASSUME NEW c \in Int, HexValue(c) >= 0
      PROVE  c \in HexDigits(HexValue(c))
  BY <1>2 DEF HexDigits, HexValue
<1> QED
  BY <1>1, <1>2

(* A pair of digits is a byte and a byte its pair. *)
LEMMA PairOfByte ==
  /\ \A x \in 0..255 : x \div 16 \in 0..15 /\ x % 16 \in 0..15
                       /\ x = (x \div 16) * 16 + (x % 16)
  /\ \A a, b \in 0..15 : /\ a * 16 + b \in 0..255
                         /\ (a * 16 + b) \div 16 = a /\ (a * 16 + b) % 16 = b
  OBVIOUS

LEMMA HexTextRead ==
  ASSUME NEW t, NEW s \in Seq(0..255), IsHexText(t, s)
  PROVE  PairsRead(t, s)
<1> SUFFICES ASSUME NEW i \in 1..Len(s)
             PROVE  s[i] = HexValue(t[2*i - 1]) * 16 + HexValue(t[2*i])
  BY DEF PairsRead
<1>1. i \in DOMAIN s /\ s[i] \in 0..255
  OBVIOUS
<1>2. t[2*i - 1] \in HexDigits(s[i] \div 16) /\ t[2*i] \in HexDigits(s[i] % 16)
  BY <1>1 DEF IsHexText
<1>3. /\ s[i] \div 16 \in 0..15 /\ s[i] % 16 \in 0..15
      /\ s[i] = (s[i] \div 16) * 16 + (s[i] % 16)
  BY <1>1, PairOfByte
<1>4. HexValue(t[2*i - 1]) = s[i] \div 16 /\ HexValue(t[2*i]) = s[i] % 16
  BY <1>2, <1>3, HexDigitsRead
<1> QED
  BY <1>3, <1>4

LEMMA HexTextIsHex ==
  ASSUME NEW t \in Seq(1..127), NEW s \in Seq(0..255), s # <<>>, IsHexText(t, s)
  PROVE  IsHexString(t)
<1>1. Len(t) = 2 * Len(s) /\ Len(s) \in Nat /\ Len(s) # 0
  BY DEF IsHexText
<1>2. t # <<>> /\ Len(t) % 2 = 0
  BY <1>1
<1>3. ASSUME NEW j \in DOMAIN t
      PROVE  HexValue(t[j]) >= 0
  <2>1. j \in 1..Len(t)
    OBVIOUS
  <2>2. PICK i \in 1..Len(s) : j = 2*i - 1 \/ j = 2*i
    <3>1. CASE j % 2 = 0
      <4>1. j \div 2 \in 1..Len(s) /\ j = 2 * (j \div 2)
        BY <1>1, <2>1, <3>1
      <4> QED
        BY <4>1
    <3>2. CASE j % 2 # 0
      <4> DEFINE m == j \div 2
      <4>1. m \in Nat /\ j = 2 * m + 1
        BY <2>1, <3>2
      <4> HIDE DEF m
      <4>2. m + 1 \in 1..Len(s) /\ j = 2 * (m + 1) - 1
        BY <1>1, <2>1, <4>1
      <4> QED
        BY <4>2
    <3> QED
      BY <3>1, <3>2
  <2>3. i \in DOMAIN s /\ s[i] \in 0..255
    OBVIOUS
  <2>4. s[i] \div 16 \in 0..15 /\ s[i] % 16 \in 0..15
    BY <2>3, PairOfByte
  <2>5. t[2*i - 1] \in HexDigits(s[i] \div 16) /\ t[2*i] \in HexDigits(s[i] % 16)
    BY <2>3 DEF IsHexText
  <2>6. HexValue(t[2*i - 1]) = s[i] \div 16 /\ HexValue(t[2*i]) = s[i] % 16
    BY <2>4, <2>5, HexDigitsRead
  <2>7. s[i] \div 16 >= 0 /\ s[i] % 16 >= 0
    BY <2>4
  <2>8. HexValue(t[2*i - 1]) >= 0 /\ HexValue(t[2*i]) >= 0
    BY <2>6, <2>7
  <2> QED
    BY <2>2, <2>8
<1> QED
  BY <1>2, <1>3 DEF IsHexString

LEMMA PairDigits ==
  ASSUME NEW t \in Seq(1..127), IsHexString(t), NEW i \in Nat \ {0}, 2*i <= Len(t)
  PROVE  /\ HexValue(t[2*i - 1]) \in 0..15 /\ HexValue(t[2*i]) \in 0..15
         /\ t[2*i - 1] \in HexDigits(HexValue(t[2*i - 1]))
         /\ t[2*i] \in HexDigits(HexValue(t[2*i]))
<1>1. 2*i - 1 \in 1..Len(t) /\ 2*i \in 1..Len(t)
  OBVIOUS
<1>2. ASSUME NEW j \in 1..Len(t)
      PROVE  HexValue(t[j]) \in 0..15 /\ t[j] \in HexDigits(HexValue(t[j]))
  <2>1. t[j] \in Int /\ j \in DOMAIN t
    <3>1. t[j] \in 1..127
      BY ElementOfSeq
    <3>2. \A x \in 1..127 : x \in Int
      OBVIOUS
    <3>3. j \in DOMAIN t
      OBVIOUS
    <3> QED
      BY <3>1, <3>2, <3>3
  <2>2. HexValue(t[j]) >= 0
    BY <2>1 DEF IsHexString
  <2> QED
    BY <2>1, <2>2, DigitValues, HexDigitsRead
<1> QED
  BY <1>1, <1>2

LEMMA PairsAreText ==
  ASSUME NEW t \in Seq(1..127), IsHexString(t),
         NEW d \in Seq(0..255), Len(t) = 2 * Len(d), PairsRead(t, d)
  PROVE  IsHexText(t, d)
<1> SUFFICES ASSUME NEW i \in DOMAIN d
             PROVE  /\ t[2*i - 1] \in HexDigits(d[i] \div 16)
                    /\ t[2*i] \in HexDigits(d[i] % 16)
  BY DEF IsHexText
<1> DEFINE a == HexValue(t[2*i - 1])
           b == HexValue(t[2*i])
<1>1. i \in Nat \ {0} /\ 2*i <= Len(t) /\ i \in 1..Len(d)
  OBVIOUS
<1>2. a \in 0..15 /\ b \in 0..15 /\ t[2*i - 1] \in HexDigits(a) /\ t[2*i] \in HexDigits(b)
  BY <1>1, PairDigits
<1>3. d[i] = a * 16 + b
  BY <1>1 DEF PairsRead
<1> HIDE DEF a, b
<1>4. (a * 16 + b) \div 16 = a /\ (a * 16 + b) % 16 = b
  BY <1>2, PairOfByte
<1>5. d[i] \div 16 = a /\ d[i] % 16 = b
  BY <1>3, <1>4
<1> QED
  BY <1>2, <1>5

LEMMA PairsUnique ==
  ASSUME NEW t, NEW s \in Seq(0..255), NEW d \in Seq(0..255), Len(s) = Len(d),
         PairsRead(t, s), PairsRead(t, d)
  PROVE  s = d
<1>1. ASSUME NEW i \in 1..Len(s)
      PROVE  s[i] = d[i]
  BY DEF PairsRead
<1> QED
  BY <1>1

-----------------------------------------------------------------------------
(* Secrets in base64.                                                      *)

Sextet == 0..63

(* The bytes of four digits, and their bits. *)
LEMMA GroupBytes ==
  ASSUME NEW a \in Sextet, NEW b \in Sextet, NEW c \in Sextet, NEW d \in Sextet
  PROVE  /\ GroupByte(a, b, c, d, 0) = a * 4 + (b \div 16)
         /\ GroupByte(a, b, c, d, 1) = (b % 16) * 16 + (c \div 4)
         /\ GroupByte(a, b, c, d, 2) = (c % 4) * 64 + d
<1> DEFINE n == ((a * 64 + b) * 64 + c) * 64 + d
<1>0. a \in 0..63 /\ b \in 0..63 /\ c \in 0..63 /\ d \in 0..63
  BY DEF Sextet
<1>1. PICK h \in 0..3, l \in 0..15 : b = 16 * h + l /\ b \div 16 = h /\ b % 16 = l
  <2>1. b \div 16 \in 0..3 /\ b % 16 \in 0..15 /\ b = 16 * (b \div 16) + (b % 16)
    BY <1>0
  <2> QED
    BY <2>1
<1>2. PICK u \in 0..15, w \in 0..3 : c = 4 * u + w /\ c \div 4 = u /\ c % 4 = w
  <2>1. c \div 4 \in 0..15 /\ c % 4 \in 0..3 /\ c = 4 * (c \div 4) + (c % 4)
    BY <1>0
  <2> QED
    BY <2>1
<1> DEFINE m == 1024 * a + 256 * h + 16 * l + u
           r == 64 * w + d
<1>3. n = 256 * m + r /\ r \in 0..255 /\ m \in Nat /\ n \in Nat
  BY <1>0, <1>1, <1>2, SMT
<1>4. m = 256 * (a * 4 + h) + (16 * l + u) /\ 16 * l + u \in 0..255 /\ a * 4 + h \in 0..255
  BY <1>0, <1>1, <1>2, SMT DEF m
<1> HIDE DEF n, m, r
<1>5. n \div 256 = m /\ (n \div 1) % 256 = r
  BY <1>3, SMT
<1> DEFINE top == a * 4 + h
           low == 16 * l + u
<1> HIDE DEF top, low
<1>11. m = 256 * top + low /\ low \in 0..255 /\ top \in 0..255
  BY <1>4, SMT DEF top, low
<1>12. m \div 256 = top
  BY <1>11, SMT
<1>13. m % 256 = low
  BY <1>11, ModUnique, SMT
<1>6. m \div 256 = a * 4 + h /\ m % 256 = 16 * l + u
  BY <1>12, <1>13 DEF top, low
<1>7. n \div 65536 = m \div 256
  BY <1>3, SMT
<1>8. /\ GroupByte(a, b, c, d, 0) = (n \div 65536) % 256
      /\ GroupByte(a, b, c, d, 1) = (n \div 256) % 256
      /\ GroupByte(a, b, c, d, 2) = (n \div 1) % 256
  BY SMT DEF GroupByte, n
<1>9. (n \div 65536) % 256 = a * 4 + h
  <2>1. (a * 4 + h) % 256 = a * 4 + h
    BY <1>4, SMT
  <2> QED
    BY <1>6, <1>7, <2>1, SMT
<1>10. /\ a * 4 + (b \div 16) = a * 4 + h
       /\ (b % 16) * 16 + (c \div 4) = 16 * l + u
       /\ (c % 4) * 64 + d = r
  BY <1>0, <1>1, <1>2, SMT DEF r
<1> QED
  BY <1>5, <1>6, <1>8, <1>9, <1>10, SMT

BitsAgree(a, b, c, d, p) ==
  Bit(GroupByte(a, b, c, d, p \div 8), 7 - (p % 8))
    = Bit(<<a, b, c, d>>[(p \div 6) + 1], 5 - (p % 6))

LEMMA GroupBits ==
  ASSUME NEW a \in Sextet, NEW b \in Sextet, NEW c \in Sextet, NEW d \in Sextet,
         NEW p \in 0..23
  PROVE  BitsAgree(a, b, c, d, p)
<1> DEFINE x == a * 4 + (b \div 16)
           y == (b % 16) * 16 + (c \div 4)
           z == (c % 4) * 64 + d
<1>0. /\ GroupByte(a, b, c, d, 0) = x /\ GroupByte(a, b, c, d, 1) = y
      /\ GroupByte(a, b, c, d, 2) = z
  <2>1. GroupByte(a, b, c, d, 0) = x
    BY GroupBytes
  <2>2. GroupByte(a, b, c, d, 1) = y
    BY GroupBytes
  <2>3. GroupByte(a, b, c, d, 2) = z
    BY GroupBytes
  <2> HIDE DEF x, y, z
  <2> QED
    BY <2>1, <2>2, <2>3
<1> DEFINE digit(k) == <<a, b, c, d>>[k + 1]
<1>9. digit(0) = a /\ digit(1) = b /\ digit(2) = c /\ digit(3) = d
  OBVIOUS
<1>10. a \in 0..63 /\ b \in 0..63 /\ c \in 0..63 /\ d \in 0..63
  BY DEF Sextet
<1> HIDE DEF digit
<1>1. CASE p \in 0..5
  <2>1. p \div 8 = 0 /\ p % 8 = p /\ p \div 6 = 0 /\ p % 6 = p
    BY <1>1
  <2>2. \A i \in 0..5 : Bit(x, 7 - i) = Bit(a, 5 - i)
    <3>1. Bit(x, 7) = Bit(a, 5)
      BY <1>10 DEF Bit, Shifted, Two
    <3>2. Bit(x, 6) = Bit(a, 4)
      BY <1>10 DEF Bit, Shifted, Two
    <3>3. Bit(x, 5) = Bit(a, 3)
      BY <1>10 DEF Bit, Shifted, Two
    <3>4. Bit(x, 4) = Bit(a, 2)
      BY <1>10 DEF Bit, Shifted, Two
    <3>5. Bit(x, 3) = Bit(a, 1)
      BY <1>10 DEF Bit, Shifted, Two
    <3>6. Bit(x, 2) = Bit(a, 0)
      BY <1>10 DEF Bit, Shifted, Two
    <3> HIDE DEF x, y, z
    <3> QED
      BY <3>1, <3>2, <3>3, <3>4, <3>5, <3>6
  <2> HIDE DEF x, y, z
  <2>3. Bit(x, 7 - p) = Bit(a, 5 - p)
    BY <1>1, <2>2
  <2>4. GroupByte(a, b, c, d, p \div 8) = x /\ digit(p \div 6) = a
    BY <1>0, <1>9, <2>1
  <2>5. Bit(GroupByte(a, b, c, d, p \div 8), 7 - (p % 8)) = Bit(digit(p \div 6), 5 - (p % 6))
    BY <2>1, <2>3, <2>4
  <2> QED
    BY <2>5 DEF digit, BitsAgree
<1>2. CASE p \in 6..7
  <2>1. p \div 8 = 0 /\ p % 8 = p /\ p \div 6 = 1 /\ p % 6 = p - 6
    BY <1>2
  <2>2. \A i \in 6..7 : Bit(x, 7 - i) = Bit(b, 5 - (i - 6))
    <3>1. Bit(x, 1) = Bit(b, 5)
      BY <1>10 DEF Bit, Shifted, Two
    <3>2. Bit(x, 0) = Bit(b, 4)
      BY <1>10 DEF Bit, Shifted, Two
    <3> HIDE DEF x, y, z
    <3> QED
      BY <3>1, <3>2
  <2> HIDE DEF x, y, z
  <2>3. Bit(x, 7 - p) = Bit(b, 5 - (p - 6))
    BY <1>2, <2>2
  <2>4. GroupByte(a, b, c, d, p \div 8) = x /\ digit(p \div 6) = b
    BY <1>0, <1>9, <2>1
  <2>5. Bit(GroupByte(a, b, c, d, p \div 8), 7 - (p % 8)) = Bit(digit(p \div 6), 5 - (p % 6))
    BY <2>1, <2>3, <2>4
  <2> QED
    BY <2>5 DEF digit, BitsAgree
<1>3. CASE p \in 8..11
  <2>1. p \div 8 = 1 /\ p % 8 = p - 8 /\ p \div 6 = 1 /\ p % 6 = p - 6
    BY <1>3
  <2>2. \A i \in 8..11 : Bit(y, 7 - (i - 8)) = Bit(b, 5 - (i - 6))
    <3>1. Bit(y, 7) = Bit(b, 3)
      BY <1>10 DEF Bit, Shifted, Two
    <3>2. Bit(y, 6) = Bit(b, 2)
      BY <1>10 DEF Bit, Shifted, Two
    <3>3. Bit(y, 5) = Bit(b, 1)
      BY <1>10 DEF Bit, Shifted, Two
    <3>4. Bit(y, 4) = Bit(b, 0)
      BY <1>10 DEF Bit, Shifted, Two
    <3> HIDE DEF x, y, z
    <3> QED
      BY <3>1, <3>2, <3>3, <3>4
  <2> HIDE DEF x, y, z
  <2>3. Bit(y, 7 - (p - 8)) = Bit(b, 5 - (p - 6))
    BY <1>3, <2>2
  <2>4. GroupByte(a, b, c, d, p \div 8) = y /\ digit(p \div 6) = b
    BY <1>0, <1>9, <2>1
  <2>5. Bit(GroupByte(a, b, c, d, p \div 8), 7 - (p % 8)) = Bit(digit(p \div 6), 5 - (p % 6))
    BY <2>1, <2>3, <2>4
  <2> QED
    BY <2>5 DEF digit, BitsAgree
<1>4. CASE p \in 12..15
  <2>1. p \div 8 = 1 /\ p % 8 = p - 8 /\ p \div 6 = 2 /\ p % 6 = p - 12
    BY <1>4
  <2>2. \A i \in 12..15 : Bit(y, 7 - (i - 8)) = Bit(c, 5 - (i - 12))
    <3>1. Bit(y, 3) = Bit(c, 5)
      BY <1>10 DEF Bit, Shifted, Two
    <3>2. Bit(y, 2) = Bit(c, 4)
      BY <1>10 DEF Bit, Shifted, Two
    <3>3. Bit(y, 1) = Bit(c, 3)
      BY <1>10 DEF Bit, Shifted, Two
    <3>4. Bit(y, 0) = Bit(c, 2)
      BY <1>10 DEF Bit, Shifted, Two
    <3> HIDE DEF x, y, z
    <3> QED
      BY <3>1, <3>2, <3>3, <3>4
  <2> HIDE DEF x, y, z
  <2>3. Bit(y, 7 - (p - 8)) = Bit(c, 5 - (p - 12))
    BY <1>4, <2>2
  <2>4. GroupByte(a, b, c, d, p \div 8) = y /\ digit(p \div 6) = c
    BY <1>0, <1>9, <2>1
  <2>5. Bit(GroupByte(a, b, c, d, p \div 8), 7 - (p % 8)) = Bit(digit(p \div 6), 5 - (p % 6))
    BY <2>1, <2>3, <2>4
  <2> QED
    BY <2>5 DEF digit, BitsAgree
<1>5. CASE p \in 16..17
  <2>1. p \div 8 = 2 /\ p % 8 = p - 16 /\ p \div 6 = 2 /\ p % 6 = p - 12
    BY <1>5
  <2>2. \A i \in 16..17 : Bit(z, 7 - (i - 16)) = Bit(c, 5 - (i - 12))
    <3>1. Bit(z, 7) = Bit(c, 1)
      BY <1>10 DEF Bit, Shifted, Two
    <3>2. Bit(z, 6) = Bit(c, 0)
      BY <1>10 DEF Bit, Shifted, Two
    <3> HIDE DEF x, y, z
    <3> QED
      BY <3>1, <3>2
  <2> HIDE DEF x, y, z
  <2>3. Bit(z, 7 - (p - 16)) = Bit(c, 5 - (p - 12))
    BY <1>5, <2>2
  <2>4. GroupByte(a, b, c, d, p \div 8) = z /\ digit(p \div 6) = c
    BY <1>0, <1>9, <2>1
  <2>5. Bit(GroupByte(a, b, c, d, p \div 8), 7 - (p % 8)) = Bit(digit(p \div 6), 5 - (p % 6))
    BY <2>1, <2>3, <2>4
  <2> QED
    BY <2>5 DEF digit, BitsAgree
<1>6. CASE p \in 18..23
  <2>1. p \div 8 = 2 /\ p % 8 = p - 16 /\ p \div 6 = 3 /\ p % 6 = p - 18
    BY <1>6
  <2>2. \A i \in 18..23 : Bit(z, 7 - (i - 16)) = Bit(d, 5 - (i - 18))
    <3>1. Bit(z, 5) = Bit(d, 5)
      BY <1>10 DEF Bit, Shifted, Two
    <3>2. Bit(z, 4) = Bit(d, 4)
      BY <1>10 DEF Bit, Shifted, Two
    <3>3. Bit(z, 3) = Bit(d, 3)
      BY <1>10 DEF Bit, Shifted, Two
    <3>4. Bit(z, 2) = Bit(d, 2)
      BY <1>10 DEF Bit, Shifted, Two
    <3>5. Bit(z, 1) = Bit(d, 1)
      BY <1>10 DEF Bit, Shifted, Two
    <3>6. Bit(z, 0) = Bit(d, 0)
      BY <1>10 DEF Bit, Shifted, Two
    <3> HIDE DEF x, y, z
    <3> QED
      BY <3>1, <3>2, <3>3, <3>4, <3>5, <3>6
  <2> HIDE DEF x, y, z
  <2>3. Bit(z, 7 - (p - 16)) = Bit(d, 5 - (p - 18))
    BY <1>6, <2>2
  <2>4. GroupByte(a, b, c, d, p \div 8) = z /\ digit(p \div 6) = d
    BY <1>0, <1>9, <2>1
  <2>5. Bit(GroupByte(a, b, c, d, p \div 8), 7 - (p % 8)) = Bit(digit(p \div 6), 5 - (p % 6))
    BY <2>1, <2>3, <2>4
  <2> QED
    BY <2>5 DEF digit, BitsAgree
<1>7. p \in 0..5 \/ p \in 6..7 \/ p \in 8..11 \/ p \in 12..15 \/ p \in 16..17 \/ p \in 18..23
  OBVIOUS
<1> QED
  BY <1>1, <1>2, <1>3, <1>4, <1>5, <1>6, <1>7

LEMMA PadCount ==
  ASSUME NEW s \in Seq(1..127)
  PROVE  Pads(s) \in 0..2 /\ Pads(s) <= Len(s) /\ DigitCount(s) \in 0..Len(s)
<1>1. Len(s) \in Nat /\ (s # <<>> => Len(s) > 0)
  OBVIOUS
<1>2. Pads(s) \in 0..2 /\ Pads(s) <= Len(s)
  BY <1>1 DEF Pads
<1> QED
  BY <1>1, <1>2 DEF DigitCount

LEMMA DigitTypes ==
  ASSUME NEW s \in Seq(1..127), NEW i \in Nat \ {0}
  PROVE  DigitAt(s, i) \in -1..63
<1>1. CASE i <= DigitCount(s)
  <2>1. i \in 1..Len(s)
    BY <1>1, PadCount
  <2>2. s[i] \in 1..127
    BY <2>1, ElementOfSeq
  <2>3. \A x \in 1..127 : x \in Int
    OBVIOUS
  <2>4. Base64Value(s[i]) \in -1..63
    BY <2>2, <2>3, DigitValues
  <2> QED
    BY <1>1, <2>4 DEF DigitAt
<1>2. CASE ~(i <= DigitCount(s))
  BY <1>2 DEF DigitAt
<1> QED
  BY <1>1, <1>2

LEMMA GroupByteType ==
  ASSUME NEW a \in Int, NEW b \in Int, NEW c \in Int, NEW d \in Int, NEW j \in 0..2
  PROVE  GroupByte(a, b, c, d, j) \in 0..255
<1> DEFINE n == ((a * 64 + b) * 64 + c) * 64 + d
           m == <<65536, 256, 1>>[j + 1]
<1>1. n \in Int
  OBVIOUS
<1>2. m \in {65536, 256, 1}
  OBVIOUS
<1> HIDE DEF n, m
<1>3. (n \div m) % 256 \in 0..255
  BY <1>1, <1>2
<1> QED
  BY <1>3 DEF GroupByte, n, m

LEMMA DecodedByteType ==
  ASSUME NEW s \in Seq(1..127), NEW k \in Nat
  PROVE  DecodedByte(s, k) \in 0..255
<1> DEFINE g == 4 * (k \div 3)
<1>1. /\ g + 1 \in Nat \ {0} /\ g + 2 \in Nat \ {0} /\ g + 3 \in Nat \ {0} /\ g + 4 \in Nat \ {0}
      /\ k % 3 \in 0..2
  OBVIOUS
<1> HIDE DEF g
<1>2. /\ DigitAt(s, g + 1) \in -1..63 /\ DigitAt(s, g + 2) \in -1..63
      /\ DigitAt(s, g + 3) \in -1..63 /\ DigitAt(s, g + 4) \in -1..63
  BY <1>1, DigitTypes
<1>3. \A x \in -1..63 : x \in Int
  OBVIOUS
<1>4. /\ DigitAt(s, g + 1) \in Int /\ DigitAt(s, g + 2) \in Int
      /\ DigitAt(s, g + 3) \in Int /\ DigitAt(s, g + 4) \in Int
  BY <1>2, <1>3
<1> QED
  BY <1>1, <1>4, GroupByteType DEF DecodedByte, g

(* What the decoder accepts, and what it makes of it. *)
IsAccepted(s, cap) ==
  /\ Len(s) % 4 = 0 /\ (DigitCount(s) * 6) \div 8 <= cap
  /\ \A i \in 1..DigitCount(s) : DigitAt(s, i) >= 0
DecodedBytes(s) == [k \in 1..(DigitCount(s) * 6) \div 8 |-> DecodedByte(s, k - 1)]

LEMMA DecodeCases ==
  ASSUME NEW s, NEW cap
  PROVE  Base64Decode(s, cap) = IF IsAccepted(s, cap) THEN DecodedBytes(s) ELSE <<>>
  BY DEF Base64Decode, IsAccepted, DecodedBytes

LEMMA DecodedBytesType ==
  ASSUME NEW s \in Seq(1..127)
  PROVE  /\ DecodedBytes(s) \in Seq(0..255)
         /\ Len(DecodedBytes(s)) = (DigitCount(s) * 6) \div 8
         /\ \A k \in 1..(DigitCount(s) * 6) \div 8 : DecodedBytes(s)[k] = DecodedByte(s, k - 1)
<1> DEFINE size == (DigitCount(s) * 6) \div 8
<1>1. size \in Nat
  BY PadCount
<1> HIDE DEF size
<1>2. \A k \in 1..size : DecodedByte(s, k - 1) \in 0..255
  <2>1. \A k \in 1..size : k - 1 \in Nat
    BY <1>1
  <2> QED
    BY <2>1, DecodedByteType
<1>3. DecodedBytes(s) = [k \in 1..size |-> DecodedByte(s, k - 1)]
  BY DEF DecodedBytes, size
<1>4. /\ DecodedBytes(s) \in Seq(0..255) /\ Len(DecodedBytes(s)) = size
      /\ \A k \in 1..size : DecodedBytes(s)[k] = DecodedByte(s, k - 1)
  BY <1>1, <1>2, <1>3
<1> QED
  BY <1>4 DEF size

LEMMA Base64Type ==
  ASSUME NEW s \in Seq(1..127), NEW cap \in Nat
  PROVE  Base64Decode(s, cap) \in Seq(0..255) /\ Len(Base64Decode(s, cap)) <= cap
<1>1. CASE IsAccepted(s, cap)
  <2>1. (DigitCount(s) * 6) \div 8 <= cap
    BY <1>1 DEF IsAccepted
  <2> QED
    BY <1>1, <2>1, DecodeCases, DecodedBytesType
<1>2. CASE ~IsAccepted(s, cap)
  <2>1. <<>> \in Seq(0..255) /\ Len(<<>>) <= cap
    OBVIOUS
  <2> QED
    BY <1>2, <2>1, DecodeCases
<1> QED
  BY <1>1, <1>2

(* Bit k of what is decoded is bit k of the digits. *)
LEMMA DecodedBits ==
  ASSUME NEW s \in Seq(1..127), NEW cap \in Nat, IsAccepted(s, cap),
         NEW k \in 0..8 * ((DigitCount(s) * 6) \div 8) - 1
  PROVE  ByteBit(DecodedBytes(s), k) = Bit(Base64Value(s[k \div 6 + 1]), 5 - (k % 6))
<1> DEFINE n == DigitCount(s)
           g == k \div 24
           p == k % 24
           a == DigitAt(s, 4*g + 1)
           b == DigitAt(s, 4*g + 2)
           c == DigitAt(s, 4*g + 3)
           d == DigitAt(s, 4*g + 4)
<1>1. n \in Nat
  BY PadCount
<1>2. k \in Nat /\ k < 6 * n /\ k \div 8 + 1 \in 1..(n * 6) \div 8
  <2> HIDE DEF n
  <2>1. k \in 0..8 * ((n * 6) \div 8) - 1
    BY DEF n
  <2> QED
    BY <1>1, <2>1
<1>3. /\ g \in Nat /\ p \in 0..23
      /\ (k \div 8) \div 3 = g /\ (k \div 8) % 3 = p \div 8 /\ k % 8 = p % 8
      /\ k \div 6 = 4 * g + (p \div 6) /\ k % 6 = p % 6
  <2>1. k \in Nat
    BY <1>2
  <2>2. g \in Nat /\ p \in 0..23 /\ k = 24 * g + p
    BY <2>1
  <2> HIDE DEF g, p
  <2>3. k \div 8 = 3 * g + (p \div 8) /\ p \div 8 \in 0..2
    BY <2>2
  <2>4. (k \div 8) \div 3 = g /\ (k \div 8) % 3 = p \div 8
    BY <2>2, <2>3
  <2>5. k % 8 = p % 8
    BY <2>2
  <2>6. k \div 6 = 4 * g + (p \div 6)
    BY <2>2
  <2>7. k % 6 = p % 6
    BY <2>2
  <2> QED
    BY <2>2, <2>4, <2>5, <2>6, <2>7
<1>4. a \in Sextet /\ b \in Sextet /\ c \in Sextet /\ d \in Sextet
  <2>1. ASSUME NEW i \in Nat \ {0}
        PROVE  DigitAt(s, i) \in Sextet
    <3>1. DigitAt(s, i) \in -1..63
      BY DigitTypes
    <3>2. DigitAt(s, i) >= 0
      <4>1. CASE i <= n
        BY <1>1, <4>1 DEF IsAccepted
      <4>2. CASE ~(i <= n)
        BY <4>2 DEF DigitAt
      <4> QED
        BY <4>1, <4>2
    <3> QED
      BY <3>1, <3>2 DEF Sextet
  <2>2. 4*g + 1 \in Nat \ {0} /\ 4*g + 2 \in Nat \ {0} /\ 4*g + 3 \in Nat \ {0} /\ 4*g + 4 \in Nat \ {0}
    BY <1>3
  <2> QED
    BY <2>1, <2>2
<1>5. DecodedByte(s, k \div 8) = GroupByte(a, b, c, d, p \div 8)
  <2>1. DecodedByte(s, k \div 8)
          = GroupByte(DigitAt(s, 4 * ((k \div 8) \div 3) + 1), DigitAt(s, 4 * ((k \div 8) \div 3) + 2),
                      DigitAt(s, 4 * ((k \div 8) \div 3) + 3), DigitAt(s, 4 * ((k \div 8) \div 3) + 4),
                      (k \div 8) % 3)
    BY DEF DecodedByte
  <2> HIDE DEF g, p
  <2> QED
    BY <1>3, <2>1
<1>6. ByteBit(DecodedBytes(s), k) = Bit(GroupByte(a, b, c, d, p \div 8), 7 - (p % 8))
  <2>1. DecodedBytes(s)[k \div 8 + 1] = DecodedByte(s, (k \div 8 + 1) - 1)
    BY <1>2, DecodedBytesType
  <2>2. (k \div 8 + 1) - 1 = k \div 8
    BY <1>2
  <2>3. DecodedBytes(s)[k \div 8 + 1] = GroupByte(a, b, c, d, p \div 8)
    BY <1>5, <2>1, <2>2
  <2> HIDE DEF a, b, c, d, g, p
  <2> QED
    BY <1>3, <2>3 DEF ByteBit
<1>7. Base64Value(s[k \div 6 + 1]) = <<a, b, c, d>>[(p \div 6) + 1]
  <2>1. k \div 6 + 1 <= n
    BY <1>1, <1>2
  <2>2. Base64Value(s[k \div 6 + 1]) = DigitAt(s, k \div 6 + 1)
    BY <2>1 DEF DigitAt
  <2>3. p \div 6 \in 0..3 /\ k \div 6 + 1 = 4 * g + ((p \div 6) + 1)
    BY <1>3
  <2> HIDE DEF p, g
  <2> DEFINE q == p \div 6
  <2>4. q \in 0..3 /\ Base64Value(s[k \div 6 + 1]) = DigitAt(s, 4 * g + (q + 1))
    BY <2>2, <2>3
  <2> HIDE DEF q
  <2> DEFINE v == Base64Value(s[k \div 6 + 1])
  <2>5. (q = 0 => v = a) /\ (q = 1 => v = b) /\ (q = 2 => v = c) /\ (q = 3 => v = d)
    BY <2>4
  <2>9. v = <<a, b, c, d>>[q + 1]
    <3> HIDE DEF a, b, c, d, v
    <3> QED
      BY <2>4, <2>5
  <2> QED
    BY <2>9 DEF q
<1>8. BitsAgree(a, b, c, d, p)
  <2> HIDE DEF a, b, c, d, p
  <2>1. p \in 0..23
    BY <1>3
  <2> QED
    BY <1>4, <2>1, GroupBits
<1> QED
  <2> HIDE DEF a, b, c, d, p, g
  <2> QED
    BY <1>3, <1>6, <1>7, <1>8 DEF BitsAgree

(* How long a text of as many bytes is: one or two characters of padding. *)
LEMMA TextLengths ==
  ASSUME NEW l \in Nat, l % 3 # 0
  PROVE  \E q \in Nat : \/ l = 3*q + 1 /\ (l + 2) \div 3 = q + 1
                        \/ l = 3*q + 2 /\ (l + 2) \div 3 = q + 1
<1> DEFINE q == l \div 3
<1>1. q \in Nat /\ (l = 3*q + 1 \/ l = 3*q + 2)
  OBVIOUS
<1> HIDE DEF q
<1>2. (l + 2) \div 3 = q + 1
  BY <1>1
<1> QED
  BY <1>1, <1>2

(* The digits of a text of s are those that the decoder counts. *)
LEMMA CountsOfText ==
  ASSUME NEW t \in Seq(1..127), NEW s \in Seq(0..255), Len(s) % 3 # 0, IsBase64Text(t, s)
  PROVE  /\ t # <<>> /\ t[Len(t)] = Pad /\ Len(t) % 4 = 0
         /\ (DigitCount(t) * 6) \div 8 = Len(s)
         /\ \A i \in 1..DigitCount(t) : IsDigitPlace(i, s)
<1> DEFINE l == Len(s)
           n == Len(t)
<1>0. l \in Nat /\ n \in Nat /\ l % 3 # 0 /\ n = 4 * ((l + 2) \div 3)
  BY DEF IsBase64Text
<1>1. \A i \in 1..n : IF 6 * (i - 1) < 8 * l THEN Base64Value(t[i]) >= 0 ELSE t[i] = Pad
  BY SMTT(60) DEF IsBase64Text, IsDigitPlace
<1>2. PICK q \in Nat : \/ l = 3*q + 1 /\ n = 4*q + 4
                       \/ l = 3*q + 2 /\ n = 4*q + 4
  <2> HIDE DEF l, n
  <2>1. PICK q \in Nat : \/ l = 3*q + 1 /\ (l + 2) \div 3 = q + 1
                         \/ l = 3*q + 2 /\ (l + 2) \div 3 = q + 1
    BY <1>0, TextLengths
  <2> QED
    BY <1>0, <2>1
<1>3. t # <<>>
  BY <1>2
<1>4. t[n] = Pad
  <2> HIDE DEF l, n
  <2>1. n \in 1..n /\ ~(6 * (n - 1) < 8 * l)
    BY <1>0, <1>2
  <2> QED
    BY <1>1, <2>1
<1>5. n > 1 /\ n % 4 = 0
  <2> HIDE DEF l, n
  <2> QED
    BY <1>2
<1>6. CASE l = 3*q + 1
  <2>1. n = 4*q + 4
    BY <1>2, <1>6
  <2>2. t[n - 1] = Pad
    <3> HIDE DEF l, n
    <3>1. n - 1 \in 1..n /\ ~(6 * ((n - 1) - 1) < 8 * l)
      BY <1>6, <2>1
    <3> QED
      BY <1>1, <3>1
  <2>3. Pads(t) = 2
    BY <1>3, <1>4, <1>5, <2>2 DEF Pads
  <2>4. DigitCount(t) = 4*q + 2
    BY <2>1, <2>3 DEF DigitCount
  <2>5. ((4*q + 2) * 6) \div 8 = 3*q + 1
    OBVIOUS
  <2>6. \A i \in 1..4*q + 2 : 6 * (i - 1) < 8 * (3*q + 1)
    OBVIOUS
  <2> QED
    BY <1>3, <1>4, <1>5, <1>6, <2>4, <2>5, <2>6 DEF IsDigitPlace
<1>7. CASE l = 3*q + 2
  <2>1. n = 4*q + 4
    BY <1>2, <1>7
  <2>2. t[n - 1] # Pad
    <3> HIDE DEF l, n
    <3>1. n - 1 \in 1..n /\ 6 * ((n - 1) - 1) < 8 * l
      BY <1>7, <2>1
    <3>2. Base64Value(t[n - 1]) >= 0
      BY <1>1, <3>1
    <3> QED
      BY <3>2, PadIsNoDigit
  <2>3. Pads(t) = 1
    BY <1>3, <1>4, <2>2 DEF Pads
  <2>4. DigitCount(t) = 4*q + 3
    BY <2>1, <2>3 DEF DigitCount
  <2>5. ((4*q + 3) * 6) \div 8 = 3*q + 2
    OBVIOUS
  <2>6. \A i \in 1..4*q + 3 : 6 * (i - 1) < 8 * (3*q + 2)
    OBVIOUS
  <2> QED
    BY <1>3, <1>4, <1>5, <1>7, <2>4, <2>5, <2>6 DEF IsDigitPlace
<1> QED
  BY <1>2, <1>6, <1>7

LEMMA Base64NotHex ==
  ASSUME NEW t \in Seq(1..127), NEW s \in Seq(0..255), Len(s) % 3 # 0, IsBase64Text(t, s)
  PROVE  ~IsHexString(t)
<1>1. t # <<>> /\ t[Len(t)] = Pad
  BY CountsOfText
<1>2. Len(t) \in DOMAIN t
  BY <1>1
<1>3. ~(HexValue(t[Len(t)]) >= 0)
  BY <1>1, PadIsNoDigit
<1> QED
  BY <1>2, <1>3 DEF IsHexString

LEMMA Base64Read ==
  ASSUME NEW t \in Seq(1..127), NEW s \in Seq(0..255), Len(s) % 3 # 0, IsBase64Text(t, s)
  PROVE  Base64Decode(t, Len(s)) = s
<1> DEFINE d == DecodedBytes(t)
           n == DigitCount(t)
<1>1. /\ Len(t) % 4 = 0 /\ (n * 6) \div 8 = Len(s)
      /\ \A i \in 1..n : IsDigitPlace(i, s)
  BY CountsOfText
<1>2. n \in 0..Len(t) /\ Len(t) \in Nat /\ Len(s) \in Nat
  <2>1. n \in 0..Len(t)
    BY PadCount
  <2>2. Len(t) \in Nat /\ Len(s) \in Nat
    OBVIOUS
  <2> QED
    BY <2>1, <2>2
<1>3. \A i \in 1..n : DigitAt(t, i) >= 0
  <2> SUFFICES ASSUME NEW i \in 1..n
               PROVE  DigitAt(t, i) >= 0
    OBVIOUS
  <2>1. i \in DOMAIN t /\ IsDigitPlace(i, s) /\ i <= n
    <3>1. IsDigitPlace(i, s)
      BY <1>1
    <3>2. DOMAIN t = 1..Len(t)
      OBVIOUS
    <3> HIDE DEF n
    <3>3. i \in 1..Len(t) /\ i <= n
      BY <1>2
    <3> QED
      BY <3>1, <3>2, <3>3
  <2>2. Base64Value(t[i]) >= 0
    BY <2>1 DEF IsBase64Text
  <2> QED
    BY <2>1, <2>2 DEF DigitAt
<1>4. IsAccepted(t, Len(s))
  BY <1>1, <1>2, <1>3 DEF IsAccepted
<1>5. d \in Seq(0..255) /\ Len(d) = Len(s)
  BY <1>1, DecodedBytesType
<1>6. \A k \in 0..8 * Len(s) - 1 : ByteBit(d, k) = ByteBit(s, k)
  <2> SUFFICES ASSUME NEW k \in 0..8 * Len(s) - 1
               PROVE  ByteBit(d, k) = ByteBit(s, k)
    OBVIOUS
  <2>1. k \in 0..8 * ((DigitCount(t) * 6) \div 8) - 1
    BY <1>1
  <2>2. ByteBit(d, k) = Bit(Base64Value(t[k \div 6 + 1]), 5 - (k % 6))
    BY <1>2, <1>4, <2>1, DecodedBits
  <2>3. Bit(Base64Value(t[k \div 6 + 1]), 5 - (k % 6)) = ByteBit(s, k)
    BY DEF IsBase64Text
  <2> QED
    BY <2>2, <2>3
<1> HIDE DEF d
<1>7. d = s
  BY <1>5, <1>6, BytesByBits
<1> QED
  BY <1>4, <1>7, DecodeCases DEF d

(* And what is decoded is what the text says. *)
LEMMA DecodedIsText ==
  ASSUME NEW t \in Seq(1..127), NEW cap \in Nat, IsAccepted(t, cap),
         Len(DecodedBytes(t)) % 3 # 0
  PROVE  IsBase64Text(t, DecodedBytes(t))
<1> DEFINE d == DecodedBytes(t)
           l == Len(d)
           n == DigitCount(t)
           p == Pads(t)
<1>1. d \in Seq(0..255) /\ l = (n * 6) \div 8 /\ l \in Nat /\ l % 3 # 0
  BY DecodedBytesType
<1>2. n = Len(t) - p /\ p \in 0..2 /\ p <= Len(t) /\ Len(t) \in Nat
  BY PadCount DEF DigitCount
<1>3. PICK m \in Nat : Len(t) = 4 * m
  <2>1. Len(t) % 4 = 0
    BY DEF IsAccepted
  <2>2. Len(t) \div 4 \in Nat /\ Len(t) = 4 * (Len(t) \div 4)
    BY <1>2, <2>1
  <2> QED
    BY <2>2
<1>4. /\ p \in {1, 2} /\ m > 0
      /\ p = 1 => n = 4*m - 1 /\ l = 3*m - 1
      /\ p = 2 => n = 4*m - 2 /\ l = 3*m - 2
  <2> HIDE DEF d, l, n, p
  <2>1. l = ((4*m - p) * 6) \div 8 /\ n = 4*m - p
    BY <1>1, <1>2, <1>3
  <2>2. p # 0
    <3>1. p = 0 => l = 3*m
      BY <2>1
    <3> QED
      BY <1>1, <3>1
  <2> QED
    BY <1>2, <1>3, <2>1, <2>2
<1>5. Len(t) = 4 * ((l + 2) \div 3)
  <2> HIDE DEF d, l, n, p
  <2>1. l + 2 = 3*m + 1 \/ l + 2 = 3*m
    BY <1>4
  <2>2. (3*m + 1) \div 3 = m /\ (3*m) \div 3 = m
    OBVIOUS
  <2>3. (l + 2) \div 3 = m
    BY <2>1, <2>2
  <2> QED
    BY <1>3, <2>3
<1>6. \A i \in 1..4*m : 6 * (i - 1) < 8 * l <=> i <= n
  <2> HIDE DEF d, l, n, p
  <2> QED
    BY <1>4
<1>7. t # <<>> /\ t[Len(t)] = Pad /\ (p = 2 => t[Len(t) - 1] = Pad)
  BY <1>4 DEF Pads
<1>8. ASSUME NEW i \in DOMAIN t
      PROVE  IF IsDigitPlace(i, d) THEN Base64Value(t[i]) >= 0 ELSE t[i] = Pad
  <2>0. i \in 1..4*m /\ i \in Nat
    BY <1>3
  <2>1. CASE i <= n
    <3>1. DigitAt(t, i) >= 0 /\ DigitAt(t, i) = Base64Value(t[i])
      <4>1. i \in 1..n
        BY <1>2, <2>0, <2>1
      <4> QED
        BY <2>1, <4>1 DEF IsAccepted, DigitAt
    <3>2. IsDigitPlace(i, d)
      BY <1>6, <2>0, <2>1 DEF IsDigitPlace
    <3> QED
      BY <3>1, <3>2
  <2>2. CASE ~(i <= n)
    <3>1. ~IsDigitPlace(i, d)
      BY <1>6, <2>0, <2>2 DEF IsDigitPlace
    <3>2. i = Len(t) \/ (p = 2 /\ i = Len(t) - 1)
      <4> HIDE DEF d, l, n, p
      <4> QED
        BY <1>3, <1>4, <2>0, <2>2
    <3>3. t[i] = Pad
      BY <1>7, <3>2
    <3> QED
      BY <3>1, <3>3
  <2> QED
    BY <2>1, <2>2
<1>9. ASSUME NEW k \in 0..8 * l - 1
      PROVE  Bit(Base64Value(t[k \div 6 + 1]), 5 - (k % 6)) = ByteBit(d, k)
  <2>1. k \in 0..8 * ((DigitCount(t) * 6) \div 8) - 1
    BY <1>1
  <2> QED
    BY <2>1, DecodedBits
<1> QED
  BY <1>5, <1>8, <1>9 DEF IsBase64Text

-----------------------------------------------------------------------------
(* What is said when an address has been read.                             *)

AddressVerdict(t, d, r) ==
  /\ r = "OK" => /\ Len(d) = PublicSize
                 /\ \A k \in 0..8 * PublicSize - 1 : ByteBit(d, k) = AddressBit(t, k)
  /\ r = "OK" <=> /\ Len(t) * 5 \in 8 * PublicSize..8 * DecodedCap + 7
                  /\ \A i \in DOMAIN t : Base32Value(t[i]) >= 0

LEMMA AddressBitIsTextBit == \A k \in Int : AddressBit(text, k) = TextBit(k)
  BY DEF AddressBit, TextBit

LEMMA VerdictIsReadBack ==
  AddressReadsBack <=>
    (kind = "address" /\ result # "decoding" => AddressVerdict(text, decoded, result))
<1>1. \A k \in 0..8 * PublicSize - 1 : AddressBit(text, k) = TextBit(k)
  BY AddressBitIsTextBit
<1> QED
  BY <1>1 DEF AddressReadsBack, AddressVerdict

LEMMA NoDigitVerdict ==
  ASSUME NEW t \in Seq(1..127), NEW n \in 0..Len(t) - 1, Base32Value(t[n + 1]) < 0, NEW d
  PROVE  AddressVerdict(t, d, "FAIL")
<1>1. n + 1 \in DOMAIN t
  OBVIOUS
<1>2. Base32Value(t[n + 1]) \in Int
  <2>1. t[n + 1] \in Int
    <3>1. n + 1 \in 1..Len(t)
      OBVIOUS
    <3>2. t[n + 1] \in 1..127
      BY <3>1, ElementOfSeq
    <3> QED
      BY <3>2
  <2> QED
    BY <2>1, DigitValues
<1>3. ~(Base32Value(t[n + 1]) >= 0)
  BY <1>2
<1> QED
  BY <1>1, <1>3 DEF AddressVerdict

LEMMA FullVerdict ==
  ASSUME NEW t \in Seq(1..127), NEW n \in 0..Len(t) - 1, NEW b, NEW rest \in 3..7,
         NEW d \in Seq(0..255), ReadsSoFar(t, n, b, rest, d), Len(d) >= DecodedCap
  PROVE  AddressVerdict(t, d, "NO_MEM")
<1>1. 5 * n = 8 * Len(d) + rest /\ n \in Nat /\ Len(t) \in Nat /\ n + 1 <= Len(t) /\ Len(d) \in Nat
  BY DEF ReadsSoFar
<1>2. Len(t) * 5 >= 8 * Len(d) + 8
  BY <1>1
<1>3. ~(Len(t) * 5 \in 8 * PublicSize..8 * DecodedCap + 7)
  BY <1>1, <1>2, TextConstants
<1> QED
  BY <1>3 DEF AddressVerdict

LEMMA EndVerdict ==
  ASSUME NEW t \in Seq(1..127), NEW b, NEW rest \in 0..7,
         NEW d \in Seq(0..255), ReadsSoFar(t, Len(t), b, rest, d), Len(d) <= DecodedCap
  PROVE  /\ Len(d) < PublicSize => AddressVerdict(t, d, "FAIL")
         /\ Len(d) >= PublicSize => /\ AddressVerdict(t, SubSeq(d, 1, PublicSize), "OK")
                                    /\ SubSeq(d, 1, PublicSize) \in Seq(0..255)
                                    /\ Len(SubSeq(d, 1, PublicSize)) = PublicSize
<1>1. 5 * Len(t) = 8 * Len(d) + rest /\ Len(t) \in Nat /\ Len(d) \in Nat
  BY DEF ReadsSoFar
<1>2. \A i \in DOMAIN t : Base32Value(t[i]) >= 0
  BY DEF ReadsSoFar
<1>3. ASSUME Len(d) < PublicSize
      PROVE  AddressVerdict(t, d, "FAIL")
  <2>1. ~(Len(t) * 5 \in 8 * PublicSize..8 * DecodedCap + 7)
    BY <1>1, <1>3, TextConstants
  <2> QED
    BY <2>1 DEF AddressVerdict
<1>4. ASSUME Len(d) >= PublicSize
      PROVE  /\ AddressVerdict(t, SubSeq(d, 1, PublicSize), "OK")
             /\ SubSeq(d, 1, PublicSize) \in Seq(0..255)
             /\ Len(SubSeq(d, 1, PublicSize)) = PublicSize
  <2> DEFINE e == SubSeq(d, 1, PublicSize)
  <2>1. /\ e \in Seq(0..255) /\ Len(e) = PublicSize
        /\ \A i \in 1..PublicSize : e[i] = d[i]
    <3>1. \A i \in 1..PublicSize : i \in 1..Len(d) /\ 1 + i - 1 = i
      BY <1>1, <1>4, TextConstants
    <3>2. \A i \in 1..PublicSize : d[i] \in 0..255
      BY <3>1, ElementOfSeq
    <3>3. PublicSize \in Int /\ 1 \in Int /\ PublicSize - 1 + 1 = PublicSize
      BY TextConstants
    <3>4. /\ e \in Seq(0..255)
          /\ Len(e) = IF 1 <= PublicSize THEN PublicSize - 1 + 1 ELSE 0
          /\ \A i \in 1..PublicSize - 1 + 1 : e[i] = d[1 + i - 1]
      BY <3>2, <3>3, SubSeqProperties
    <3>5. Len(e) = PublicSize
      BY <3>4, TextConstants
    <3> HIDE DEF e
    <3>6. \A i \in 1..PublicSize : e[i] = d[i]
      BY <3>1, <3>3, <3>4
    <3> QED
      BY <3>4, <3>5, <3>6
  <2>2. Len(t) * 5 \in 8 * PublicSize..8 * DecodedCap + 7
    BY <1>1, <1>4, TextConstants
  <2> HIDE DEF e
  <2>3. ASSUME NEW k \in 0..8 * PublicSize - 1
        PROVE  ByteBit(e, k) = AddressBit(t, k)
    <3>1. k \div 8 + 1 \in 1..PublicSize
      BY TextConstants
    <3>2. ByteBit(e, k) = ByteBit(d, k)
      BY <2>1, <3>1 DEF ByteBit
    <3>3. k \in 0..8 * Len(d) - 1
      BY <1>1, <1>4, TextConstants
    <3> QED
      BY <3>2, <3>3 DEF ReadsSoFar
  <2>4. AddressVerdict(t, e, "OK")
    BY <1>2, <2>1, <2>2, <2>3 DEF AddressVerdict
  <2> QED
    BY <2>1, <2>4 DEF e
<1> QED
  BY <1>3, <1>4

-----------------------------------------------------------------------------
(* What is said when a secret has been read.                               *)

SecretVerdict(t, d, r) ==
  /\ r = "OK" => Len(d) = SecretSize /\ Encodes(t, d)
  /\ \A s \in Secrets : Encodes(t, s) => r = "OK" /\ d = s

LEMMA SecretTypes ==
  \A s \in Secrets : s \in Seq(0..255) /\ Len(s) = SecretSize /\ Len(s) % 3 # 0 /\ s # <<>>
<1> SUFFICES ASSUME NEW s \in Secrets
             PROVE  s \in Seq(0..255) /\ Len(s) = SecretSize /\ Len(s) % 3 # 0 /\ s # <<>>
  OBVIOUS
<1>1. s \in [1..SecretSize -> 0..255] /\ SecretSize \in Nat /\ SecretSize % 3 # 0
  BY TextAssumption
<1>2. s \in Seq(0..255) /\ Len(s) = SecretSize
  <2>1. s \in Seq(0..255)
    <3> DEFINE S == 0..255
    <3>1. s \in [1..SecretSize -> S] /\ SecretSize \in Nat
      BY <1>1
    <3> HIDE DEF S
    <3>2. s \in Seq(S)
      BY <3>1
    <3> QED
      BY <3>2 DEF S
  <2>2. DOMAIN s = 1..SecretSize
    BY <1>1
  <2>3. s \in [1..Len(s) -> 0..255] /\ Len(s) \in Nat
    BY <2>1, LenProperties
  <2> QED
    BY <1>1, <2>1, <2>2, <2>3
<1>3. SecretSize # 0
  BY <1>1
<1> QED
  BY <1>1, <1>2, <1>3

(* A text is in one form only. *)
LEMMA FormOfText ==
  ASSUME NEW t \in Seq(1..127), NEW s \in Secrets, Encodes(t, s)
  PROVE  IF IsHexString(t) THEN IsHexText(t, s) ELSE IsBase64Text(t, s)
<1>1. s \in Seq(0..255) /\ Len(s) % 3 # 0 /\ s # <<>>
  BY SecretTypes
<1>2. CASE IsBase64Text(t, s)
  BY <1>1, <1>2, Base64NotHex
<1>3. CASE IsHexText(t, s)
  BY <1>1, <1>3, HexTextIsHex
<1> QED
  BY <1>2, <1>3 DEF Encodes

LEMMA LongHexVerdict ==
  ASSUME NEW t \in Seq(1..127), NEW d, IsHexString(t), Len(t) \div 2 > SecretSize
  PROVE  SecretVerdict(t, d, "INVALID_SIZE")
<1> SUFFICES ASSUME NEW s \in Secrets, Encodes(t, s)
             PROVE  FALSE
  BY DEF SecretVerdict
<1>1. IsHexText(t, s)
  BY FormOfText
<1>2. Len(t) = 2 * SecretSize
  BY <1>1, SecretTypes DEF IsHexText
<1> QED
  BY <1>2, TextConstants

LEMMA HexVerdict ==
  ASSUME NEW t \in Seq(1..127), NEW d \in Seq(0..255), IsHexString(t),
         Len(t) = 2 * Len(d), PairsRead(t, d)
  PROVE  SecretVerdict(t, d, IF Len(d) = SecretSize THEN "OK" ELSE "FAIL")
<1>1. IsHexText(t, d)
  BY PairsAreText
<1>2. ASSUME NEW s \in Secrets, Encodes(t, s)
      PROVE  Len(d) = SecretSize /\ d = s
  <2>1. IsHexText(t, s) /\ s \in Seq(0..255) /\ Len(s) = SecretSize
    BY <1>2, FormOfText, SecretTypes
  <2>2. PairsRead(t, s)
    BY <2>1, HexTextRead
  <2>3. Len(s) = Len(d)
    <3>1. Len(t) = 2 * Len(s) /\ Len(s) \in Nat /\ Len(d) \in Nat
      BY <2>1 DEF IsHexText
    <3> QED
      BY <3>1
  <2>4. s = d
    BY <2>1, <2>2, <2>3, PairsUnique
  <2> QED
    BY <2>1, <2>3, <2>4
<1> QED
  BY <1>1, <1>2 DEF SecretVerdict, Encodes

LEMMA BadBase64Verdict ==
  ASSUME NEW t \in Seq(1..127), NEW d, ~IsHexString(t), Base64Decode(t, SecretSize) = <<>>
  PROVE  SecretVerdict(t, d, "FAIL")
<1> SUFFICES ASSUME NEW s \in Secrets, Encodes(t, s)
             PROVE  FALSE
  BY DEF SecretVerdict
<1>1. IsBase64Text(t, s)
  BY FormOfText
<1>2. s \in Seq(0..255) /\ Len(s) = SecretSize /\ Len(s) % 3 # 0 /\ s # <<>>
  BY SecretTypes
<1>3. Base64Decode(t, SecretSize) = s
  BY <1>1, <1>2, Base64Read
<1> QED
  BY <1>2, <1>3

LEMMA Base64Verdict ==
  ASSUME NEW t \in Seq(1..127), ~IsHexString(t), Base64Decode(t, SecretSize) # <<>>
  PROVE  SecretVerdict(t, Base64Decode(t, SecretSize),
                       IF Len(Base64Decode(t, SecretSize)) = SecretSize THEN "OK" ELSE "FAIL")
<1> DEFINE d == Base64Decode(t, SecretSize)
<1>1. IsAccepted(t, SecretSize) /\ d = DecodedBytes(t)
  BY DecodeCases
<1>2. Len(d) = SecretSize => IsBase64Text(t, d)
  BY <1>1, TextConstants, DecodedIsText
<1>3. ASSUME NEW s \in Secrets, Encodes(t, s)
      PROVE  Len(d) = SecretSize /\ d = s
  <2>1. IsBase64Text(t, s)
    BY <1>3, FormOfText
  <2>2. s \in Seq(0..255) /\ Len(s) = SecretSize /\ Len(s) % 3 # 0
    BY SecretTypes
  <2>3. d = s
    BY <2>1, <2>2, Base64Read
  <2> QED
    BY <2>2, <2>3
<1> HIDE DEF d
<1>4. SecretVerdict(t, d, IF Len(d) = SecretSize THEN "OK" ELSE "FAIL")
  BY <1>2, <1>3 DEF SecretVerdict, Encodes
<1> QED
  BY <1>4 DEF d

-----------------------------------------------------------------------------
(* The invariant.                                                          *)

AddressInv ==
  kind = "address" =>
    /\ form = "unknown"
    /\ at > 0 => ~AtPad
    /\ result = "decoding" => /\ ReadsSoFar(text, at, buffer, bits, decoded)
                              /\ Len(decoded) <= DecodedCap
    /\ result # "decoding" => AddressVerdict(text, decoded, result)

HexInv ==
  /\ IsHexString(text) /\ at = 2 * Len(decoded) /\ PairsRead(text, decoded)
  /\ result = "decoding" => Len(text) \div 2 <= SecretSize

Base64Inv ==
  /\ ~IsHexString(text)
  /\ at # 0 => decoded = Base64Decode(text, SecretSize) /\ decoded # <<>>

SecretInv ==
  kind = "secret" =>
    /\ form = "unknown" => result = "decoding" /\ at = 0 /\ decoded = <<>>
    /\ form = "hex" => HexInv
    /\ form = "base64" => Base64Inv
    /\ result # "decoding" => SecretVerdict(text, decoded, result)

TextInv == TextTypeOK /\ AddressInv /\ SecretInv

LEMMA TextTypes ==
  ASSUME TextTypeOK
  PROVE  /\ kind \in {"address", "secret"} /\ text \in Seq(1..127) /\ Len(text) \in Nat
         /\ at \in Nat /\ at <= Len(text)
         /\ buffer \in Nat /\ bits \in 0..7
         /\ decoded \in Seq(0..255) /\ Len(decoded) \in Nat
         /\ Len(decoded) <= DecodedCap + SecretSize
         /\ form \in {"unknown", "hex", "base64"}
         /\ result \in {"decoding", "OK", "FAIL", "NO_MEM", "INVALID_SIZE"}
  BY TextConstants DEF TextTypeOK

LEMMA TextInitInv == TextInit => TextInv
<1> SUFFICES ASSUME TextInit
             PROVE  TextInv
  OBVIOUS
<1>1. kind \in {"address", "secret"} /\ text \in Seq(1..127)
  BY TextConstants DEF TextInit
<1>2. /\ at = 0 /\ buffer = 0 /\ bits = 0 /\ decoded = <<>>
      /\ form = "unknown" /\ result = "decoding"
  BY DEF TextInit
<1>3. decoded \in Seq(0..255) /\ Len(decoded) = 0
  BY <1>2
<1>4. TextTypeOK
  BY <1>1, <1>2, <1>3, TextConstants DEF TextTypeOK
<1>5. AddressInv
  <2>1. ReadsSoFar(text, at, buffer, bits, decoded)
    BY <1>2, <1>3 DEF ReadsSoFar
  <2> QED
    BY <1>2, <1>3, <2>1, TextConstants DEF AddressInv
<1>6. SecretInv
  BY <1>2 DEF SecretInv
<1> QED
  BY <1>4, <1>5, <1>6 DEF TextInv

LEMMA DropPadInv == TextInv /\ DropPad => TextInv'
<1> SUFFICES ASSUME TextInv, DropPad
             PROVE  TextInv'
  OBVIOUS
<1> DEFINE t == SubSeq(text, 1, Len(text) - 1)
<1>1. /\ kind = "address" /\ result = "decoding" /\ AtPad /\ text' = t
      /\ kind' = kind /\ at' = at /\ buffer' = buffer /\ bits' = bits
      /\ decoded' = decoded /\ form' = form /\ result' = result
  BY DEF DropPad
<1>2. TextTypeOK /\ AddressInv
  BY DEF TextInv
<1>3. /\ at = 0 /\ form = "unknown" /\ ReadsSoFar(text, at, buffer, bits, decoded)
      /\ Len(decoded) <= DecodedCap
  BY <1>1, <1>2, TextTypes DEF AddressInv
<1>4. t \in Seq(1..127) /\ Len(t) \in Nat
  <2>1. text \in Seq(1..127) /\ text # <<>>
    BY <1>1, <1>2, TextTypes DEF AtPad
  <2>2. \A i \in 1..Len(text) - 1 : text[i] \in 1..127
    <3>1. \A i \in 1..Len(text) - 1 : i \in 1..Len(text)
      BY <2>1
    <3> QED
      BY <2>1, <3>1, ElementOfSeq
  <2>3. Len(text) - 1 \in Int /\ 1 \in Int
    BY <2>1
  <2>4. t \in Seq(1..127)
    BY <2>2, <2>3, SubSeqProperties
  <2> HIDE DEF t
  <2> QED
    BY <2>4
<1> HIDE DEF t
<1>5. TextTypeOK'
  <2>1. at' \in 0..Len(text')
    BY <1>1, <1>3, <1>4
  <2> QED
    BY <1>1, <1>2, <1>4, <2>1 DEF TextTypeOK
<1>6. ReadsSoFar(text, at, buffer, bits, decoded)'
  <2>1. bits \in 0..7 /\ Len(decoded) \in Nat
    BY <1>2, TextTypes
  <2>2. Len(decoded) = 0 /\ bits = 0
    BY <1>3, <2>1 DEF ReadsSoFar
  <2> QED
    BY <1>1, <1>3, <2>2 DEF ReadsSoFar
<1>7. AddressInv'
  BY <1>1, <1>3, <1>6 DEF AddressInv
<1>8. SecretInv'
  BY <1>1 DEF SecretInv
<1> QED
  BY <1>5, <1>7, <1>8 DEF TextInv

LEMMA DecodeCharacterInv == TextInv /\ DecodeCharacter => TextInv'
<1> SUFFICES ASSUME TextInv, DecodeCharacter
             PROVE  TextInv'
  OBVIOUS
<1> DEFINE v == Base32Value(text[at + 1])
<1>1. /\ kind = "address" /\ result = "decoding" /\ ~AtPad /\ at < Len(text)
      /\ kind' = kind /\ text' = text /\ form' = form
  BY DEF DecodeCharacter
<1>2. TextTypeOK /\ AddressInv
  BY DEF TextInv
<1>3. /\ form = "unknown" /\ ReadsSoFar(text, at, buffer, bits, decoded)
      /\ Len(decoded) <= DecodedCap
  BY <1>1, <1>2 DEF AddressInv
<1>4. ~AtPad'
  BY <1>1 DEF AtPad
<1>5. SecretInv'
  BY <1>1 DEF SecretInv
<1>6. text \in Seq(1..127) /\ at \in 0..Len(text) - 1 /\ at + 1 \in 1..Len(text)
  BY <1>1, <1>2, TextTypes
<1>7. v \in -1..31
  <2>1. text[at + 1] \in 1..127
    BY <1>6, ElementOfSeq
  <2>2. text[at + 1] \in Int
    BY <2>1
  <2> QED
    BY <2>2, DigitValues
<1>8. CASE v < 0
  <2>1. result' = "FAIL" /\ at' = at /\ buffer' = buffer /\ bits' = bits /\ decoded' = decoded
    BY <1>8 DEF DecodeCharacter
  <2>2. TextTypeOK'
    BY <1>1, <1>2, <2>1 DEF TextTypeOK
  <2>3. AddressVerdict(text, decoded, "FAIL")
    BY <1>6, <1>8, NoDigitVerdict
  <2>4. AddressInv'
    BY <1>1, <1>3, <1>4, <2>1, <2>3 DEF AddressInv
  <2> QED
    BY <1>5, <2>2, <2>4 DEF TextInv
<1>9. CASE ~(v < 0)
  <2> DEFINE c == ShiftedIn(buffer, v)
             x == Shifted(c, bits - 3) % 256
  <2>1. v \in 0..31 /\ v = Base32Value(text[at + 1])
    BY <1>7, <1>9
  <2>2. Accept(v)
    BY <1>9 DEF DecodeCharacter
  <2>3. /\ buffer \in Nat /\ bits \in 0..7 /\ decoded \in Seq(0..255) /\ Len(decoded) \in Nat
        /\ at \in Nat
    BY <1>2, TextTypes
  <2> HIDE DEF v
  <2>4. buffer' = c /\ c \in 0..Wrap-1 /\ c \in Nat
    <3>1. buffer' = c
      BY <2>2 DEF Accept
    <3>2. c \in 0..Wrap-1
      BY <2>1, <2>3, BufferType
    <3> HIDE DEF c
    <3> QED
      BY <3>1, <3>2
  <2>5. CASE ~(bits + 5 >= 8)
    <3>1. bits' = bits + 5 /\ result' = result /\ at' = at + 1 /\ decoded' = decoded
      BY <2>2, <2>5 DEF Accept
    <3>2. ReadsSoFar(text, at + 1, c, bits + 5, decoded)
      BY <1>3, <1>6, <2>1, <2>3, ReadsOnWithout
    <3>3. TextTypeOK'
      <4>1. at' \in 0..Len(text') /\ bits' \in 0..7
        BY <1>1, <1>6, <2>3, <2>5, <3>1
      <4> QED
        BY <1>1, <1>2, <2>4, <3>1, <4>1 DEF TextTypeOK
    <3>4. AddressInv'
      BY <1>1, <1>3, <1>4, <2>4, <3>1, <3>2 DEF AddressInv
    <3> QED
      BY <1>5, <3>3, <3>4 DEF TextInv
  <2>6. CASE bits + 5 >= 8
    <3>1. bits \in 3..7 /\ bits' = bits - 3
      BY <2>2, <2>3, <2>6 DEF Accept
    <3>2. bits' \in 0..7
      BY <3>1
    <3>3. CASE Len(decoded) >= DecodedCap
      <4>1. result' = "NO_MEM" /\ at' = at /\ decoded' = decoded
        BY <2>2, <2>6, <3>3 DEF Accept
      <4>2. TextTypeOK'
        BY <1>1, <1>2, <2>4, <3>2, <4>1 DEF TextTypeOK
      <4>3. AddressVerdict(text, decoded, "NO_MEM")
        BY <1>3, <1>6, <2>3, <3>1, <3>3, FullVerdict
      <4>4. AddressInv'
        BY <1>1, <1>3, <1>4, <4>1, <4>3 DEF AddressInv
      <4> QED
        BY <1>5, <4>2, <4>4 DEF TextInv
    <3>4. CASE ~(Len(decoded) >= DecodedCap)
      <4>1. result' = result /\ at' = at + 1 /\ decoded' = Append(decoded, x)
        BY <2>2, <2>4, <2>6, <3>1, <3>4 DEF Accept
      <4>2. ReadsSoFar(text, at + 1, c, bits - 3, Append(decoded, x))
        <5>1. bits \in 3..7
          BY <3>1
        <5>2. ReadsByte(text, at, buffer, bits, decoded, v)
          <6>1. text \in Seq(1..127) /\ at \in 0..Len(text) - 1
            BY <1>6
          <6>2. buffer \in Nat /\ decoded \in Seq(0..255)
            BY <2>3
          <6>3. ReadsSoFar(text, at, buffer, bits, decoded)
            BY <1>3
          <6>4. IsNextDigit(text, at, v)
            BY <2>1 DEF IsNextDigit
          <6> QED
            BY <5>1, <6>1, <6>2, <6>3, <6>4, ReadsOnWith
        <5> QED
          BY <5>2 DEF ReadsByte
      <4>3. x \in 0..255
        <5> DEFINE y == Shifted(c, bits - 3)
        <5>1. bits - 3 \in 0..11
          BY <3>1
        <5>2. y \in Nat
          BY <2>4, <5>1, ShiftedType
        <5> HIDE DEF y
        <5>3. y % 256 \in 0..255
          BY <5>2
        <5> QED
          BY <5>3 DEF y
      <4>4. decoded' \in Seq(0..255) /\ Len(decoded') = Len(decoded) + 1
        <5> HIDE DEF x
        <5> QED
          BY <2>3, <4>1, <4>3
      <4>5. Len(decoded') <= DecodedCap
        BY <2>3, <3>4, <4>4, TextConstants
      <4>6. TextTypeOK'
        <5>1. at' \in 0..Len(text') /\ Len(decoded') <= DecodedCap + SecretSize
          BY <1>1, <1>6, <2>3, <4>1, <4>4, <4>5, TextConstants
        <5> QED
          BY <1>1, <1>2, <2>4, <3>2, <4>1, <4>4, <5>1 DEF TextTypeOK
      <4>7. AddressInv'
        BY <1>1, <1>3, <1>4, <2>4, <3>1, <4>1, <4>2, <4>5 DEF AddressInv
      <4> QED
        BY <1>5, <4>6, <4>7 DEF TextInv
    <3> QED
      BY <3>3, <3>4
  <2> QED
    BY <2>5, <2>6
<1> QED
  BY <1>8, <1>9

LEMMA FinishAddressInv == TextInv /\ FinishAddress => TextInv'
<1> SUFFICES ASSUME TextInv, FinishAddress
             PROVE  TextInv'
  OBVIOUS
<1>1. /\ kind = "address" /\ result = "decoding" /\ ~AtPad /\ at = Len(text)
      /\ kind' = kind /\ text' = text /\ at' = at /\ buffer' = buffer
      /\ bits' = bits /\ form' = form
  BY DEF FinishAddress
<1>2. TextTypeOK /\ AddressInv
  BY DEF TextInv
<1>3. /\ form = "unknown" /\ ReadsSoFar(text, Len(text), buffer, bits, decoded)
      /\ Len(decoded) <= DecodedCap
  BY <1>1, <1>2 DEF AddressInv
<1>4. ~AtPad'
  BY <1>1 DEF AtPad
<1>5. SecretInv'
  BY <1>1 DEF SecretInv
<1>6. text \in Seq(1..127) /\ bits \in 0..7 /\ decoded \in Seq(0..255)
  BY <1>2, TextTypes
<1>7. CASE Len(decoded) < PublicSize
  <2>1. result' = "FAIL" /\ decoded' = decoded
    BY <1>7 DEF FinishAddress
  <2>2. AddressVerdict(text, decoded, "FAIL")
    BY <1>3, <1>6, <1>7, EndVerdict
  <2>3. TextTypeOK'
    BY <1>1, <1>2, <2>1 DEF TextTypeOK
  <2>4. AddressInv'
    BY <1>1, <1>3, <1>4, <2>1, <2>2 DEF AddressInv
  <2> QED
    BY <1>5, <2>3, <2>4 DEF TextInv
<1>8. CASE ~(Len(decoded) < PublicSize)
  <2> DEFINE e == SubSeq(decoded, 1, PublicSize)
  <2>1. result' = "OK" /\ decoded' = e
    BY <1>8 DEF FinishAddress
  <2>2. Len(decoded) >= PublicSize
    BY <1>6, <1>8, TextConstants
  <2>3. AddressVerdict(text, e, "OK") /\ e \in Seq(0..255) /\ Len(e) = PublicSize
    BY <1>3, <1>6, <2>2, EndVerdict
  <2> HIDE DEF e
  <2>4. Len(decoded') <= DecodedCap + SecretSize
    BY <2>1, <2>3, TextConstants
  <2>5. TextTypeOK'
    BY <1>1, <1>2, <2>1, <2>3, <2>4 DEF TextTypeOK
  <2>6. AddressInv'
    BY <1>1, <1>3, <1>4, <2>1, <2>3 DEF AddressInv
  <2> QED
    BY <1>5, <2>5, <2>6 DEF TextInv
<1> QED
  BY <1>7, <1>8

LEMMA ClassifyInv == TextInv /\ Classify => TextInv'
<1> SUFFICES ASSUME TextInv, Classify
             PROVE  TextInv'
  OBVIOUS
<1>1. /\ kind = "secret" /\ result = "decoding" /\ form = "unknown"
      /\ kind' = kind /\ text' = text /\ at' = at /\ buffer' = buffer
      /\ bits' = bits /\ decoded' = decoded
  BY DEF Classify
<1>2. TextTypeOK /\ SecretInv
  BY DEF TextInv
<1>3. at = 0 /\ decoded = <<>>
  BY <1>1, <1>2 DEF SecretInv
<1>4. AddressInv'
  BY <1>1 DEF AddressInv
<1>5. text \in Seq(1..127)
  BY <1>2, TextTypes
<1>6. CASE ~IsHexString(text)
  <2>1. form' = "base64" /\ result' = result
    BY <1>6 DEF Classify
  <2>2. TextTypeOK'
    BY <1>1, <1>2, <2>1 DEF TextTypeOK
  <2>3. Base64Inv'
    BY <1>1, <1>3, <1>6 DEF Base64Inv
  <2>4. SecretInv'
    BY <1>1, <2>1, <2>3 DEF SecretInv
  <2> QED
    BY <1>4, <2>2, <2>4 DEF TextInv
<1>7. CASE IsHexString(text)
  <2>1. /\ form' = "hex"
        /\ result' = IF Len(text) \div 2 > SecretSize THEN "INVALID_SIZE" ELSE result
    BY <1>7 DEF Classify
  <2>2. TextTypeOK'
    BY <1>1, <1>2, <2>1 DEF TextTypeOK
  <2>3. result' = "decoding" => Len(text) \div 2 <= SecretSize
    <3>1. CASE Len(text) \div 2 > SecretSize
      BY <2>1, <3>1
    <3>2. CASE ~(Len(text) \div 2 > SecretSize)
      <4>1. Len(text) \in Nat
        BY <1>5
      <4> QED
        BY <3>2, <4>1, TextConstants
    <3> QED
      BY <3>1, <3>2
  <2>4. HexInv'
    <3>1. at = 2 * Len(decoded) /\ PairsRead(text, decoded)
      BY <1>3 DEF PairsRead
    <3> QED
      BY <1>1, <1>7, <2>3, <3>1 DEF HexInv
  <2>5. result' # "decoding" => SecretVerdict(text, decoded, result')
    BY <1>1, <1>5, <1>7, <2>1, LongHexVerdict
  <2>6. SecretInv'
    BY <1>1, <2>1, <2>4, <2>5 DEF SecretInv
  <2> QED
    BY <1>4, <2>2, <2>6 DEF TextInv
<1> QED
  BY <1>6, <1>7

LEMMA DecodePairInv == TextInv /\ DecodePair => TextInv'
<1> SUFFICES ASSUME TextInv, DecodePair
             PROVE  TextInv'
  OBVIOUS
<1> DEFINE x == HexValue(text[at + 1]) * 16 + HexValue(text[at + 2])
<1>1. /\ result = "decoding" /\ form = "hex" /\ at < Len(text)
      /\ decoded' = Append(decoded, x) /\ at' = at + 2
      /\ kind' = kind /\ text' = text /\ buffer' = buffer /\ bits' = bits
      /\ form' = form /\ result' = result
  BY DEF DecodePair
<1>2. TextTypeOK /\ AddressInv /\ SecretInv
  BY DEF TextInv
<1>3. kind = "secret"
  BY <1>1, <1>2, TextTypes DEF AddressInv
<1>4. /\ IsHexString(text) /\ at = 2 * Len(decoded) /\ PairsRead(text, decoded)
      /\ Len(text) \div 2 <= SecretSize
  BY <1>1, <1>2, <1>3 DEF SecretInv, HexInv
<1>5. /\ text \in Seq(1..127) /\ Len(text) \in Nat /\ at \in Nat
      /\ decoded \in Seq(0..255) /\ Len(decoded) \in Nat
  BY <1>2, TextTypes
<1> DEFINE n == Len(decoded) + 1
<1>6. /\ n \in Nat \ {0} /\ 2 * n <= Len(text) /\ at + 1 = 2 * n - 1 /\ at + 2 = 2 * n
      /\ n <= SecretSize
  <2>1. Len(text) % 2 = 0
    BY <1>4 DEF IsHexString
  <2>2. PICK m \in Nat : Len(text) = 2 * m /\ Len(text) \div 2 = m
    <3>1. Len(text) \div 2 \in Nat /\ Len(text) = 2 * (Len(text) \div 2)
      BY <1>5, <2>1
    <3> QED
      BY <3>1
  <2> QED
    <3> DEFINE l == Len(decoded)
    <3>1. l \in Nat /\ n = l + 1 /\ at = 2 * l /\ 2 * l < 2 * m
      BY <1>1, <1>4, <1>5, <2>2
    <3> HIDE DEF l, n
    <3>2. n \in Nat \ {0} /\ 2 * n <= 2 * m /\ at + 1 = 2 * n - 1 /\ at + 2 = 2 * n /\ n <= m
      BY <3>1
    <3>3. m <= SecretSize
      BY <1>4, <2>2
    <3>4. n <= SecretSize
      BY <3>2, <3>3, TextConstants
    <3> QED
      BY <2>2, <3>2, <3>4
<1>7. x \in 0..255
  <2>1. HexValue(text[at + 1]) \in 0..15 /\ HexValue(text[at + 2]) \in 0..15
    <3> HIDE DEF n
    <3>1. HexValue(text[2*n - 1]) \in 0..15 /\ HexValue(text[2*n]) \in 0..15
      BY <1>4, <1>5, <1>6, PairDigits
    <3> QED
      BY <1>6, <3>1
  <2> QED
    BY <2>1, PairOfByte
<1> HIDE DEF x
<1>8. /\ decoded' \in Seq(0..255) /\ Len(decoded') = n /\ decoded'[n] = x
      /\ \A i \in 1..Len(decoded) : decoded'[i] = decoded[i]
  BY <1>1, <1>5, <1>7
<1>9. PairsRead(text, decoded')
  <2> SUFFICES ASSUME NEW i \in 1..n
               PROVE  decoded'[i] = HexValue(text[2*i - 1]) * 16 + HexValue(text[2*i])
    BY <1>8 DEF PairsRead
  <2>1. CASE i = n
    BY <1>6, <1>8, <2>1 DEF x
  <2>2. CASE i # n
    <3>1. i \in 1..Len(decoded)
      BY <1>5, <2>2
    <3> QED
      BY <1>4, <1>8, <3>1 DEF PairsRead
  <2> QED
    BY <2>1, <2>2
<1>10. TextTypeOK'
  <2>1. at' \in 0..Len(text') /\ Len(decoded') <= DecodedCap + SecretSize
    BY <1>1, <1>5, <1>6, <1>8, TextConstants, SMTT(60)
  <2> QED
    BY <1>1, <1>2, <1>8, <2>1 DEF TextTypeOK
<1>11. HexInv'
  <2>1. at' = 2 * Len(decoded')
    BY <1>1, <1>6, <1>8
  <2> QED
    BY <1>1, <1>4, <1>9, <2>1 DEF HexInv
<1>12. SecretInv'
  BY <1>1, <1>11 DEF SecretInv
<1>13. AddressInv'
  BY <1>1, <1>3 DEF AddressInv
<1> QED
  BY <1>10, <1>12, <1>13 DEF TextInv

LEMMA DecodeBase64Inv == TextInv /\ DecodeBase64 => TextInv'
<1> SUFFICES ASSUME TextInv, DecodeBase64
             PROVE  TextInv'
  OBVIOUS
<1>1. /\ result = "decoding" /\ form = "base64" /\ at = 0
      /\ decoded' = Base64Decode(text, SecretSize)
      /\ kind' = kind /\ text' = text /\ buffer' = buffer /\ bits' = bits
      /\ form' = form
  BY DEF DecodeBase64
<1>2. TextTypeOK /\ AddressInv /\ SecretInv
  BY DEF TextInv
<1>3. kind = "secret"
  BY <1>1, <1>2, TextTypes DEF AddressInv
<1>4. ~IsHexString(text)
  BY <1>1, <1>2, <1>3 DEF SecretInv, Base64Inv
<1>5. text \in Seq(1..127) /\ Len(text) \in Nat
  BY <1>2, TextTypes
<1>6. decoded' \in Seq(0..255) /\ Len(decoded') <= SecretSize /\ Len(decoded') \in Nat
  <2>1. decoded' \in Seq(0..255) /\ Len(decoded') <= SecretSize
    BY <1>1, <1>5, TextConstants, Base64Type
  <2> QED
    BY <2>1
<1>7. Len(decoded') <= DecodedCap + SecretSize
  BY <1>6, TextConstants
<1>8. AddressInv'
  BY <1>1, <1>3 DEF AddressInv
<1>9. CASE decoded' = <<>>
  <2>1. result' = "FAIL" /\ at' = at
    BY <1>9 DEF DecodeBase64
  <2>2. TextTypeOK'
    BY <1>1, <1>2, <1>6, <1>7, <2>1 DEF TextTypeOK
  <2>3. SecretVerdict(text, decoded', "FAIL")
    BY <1>1, <1>4, <1>5, <1>9, BadBase64Verdict
  <2>4. Base64Inv'
    BY <1>1, <1>4, <2>1 DEF Base64Inv
  <2>5. SecretInv'
    BY <1>1, <2>1, <2>3, <2>4 DEF SecretInv
  <2> QED
    BY <1>8, <2>2, <2>5 DEF TextInv
<1>10. CASE decoded' # <<>>
  <2>1. result' = result /\ at' = Len(text)
    BY <1>10 DEF DecodeBase64
  <2>2. at' \in 0..Len(text')
    BY <1>1, <1>5, <2>1
  <2>3. TextTypeOK'
    BY <1>1, <1>2, <1>6, <1>7, <2>1, <2>2 DEF TextTypeOK
  <2>4. Base64Inv'
    BY <1>1, <1>4, <1>10 DEF Base64Inv
  <2>5. SecretInv'
    BY <1>1, <2>1, <2>4 DEF SecretInv
  <2> QED
    BY <1>8, <2>3, <2>5 DEF TextInv
<1> QED
  BY <1>9, <1>10

LEMMA FinishSecretInv == TextInv /\ FinishSecret => TextInv'
<1> SUFFICES ASSUME TextInv, FinishSecret
             PROVE  TextInv'
  OBVIOUS
<1> DEFINE r == IF Len(decoded) = SecretSize THEN "OK" ELSE "FAIL"
<1>1. /\ result = "decoding" /\ form # "unknown" /\ text # <<>> /\ at = Len(text)
      /\ result' = r
      /\ kind' = kind /\ text' = text /\ at' = at /\ buffer' = buffer /\ bits' = bits
      /\ decoded' = decoded /\ form' = form
  BY DEF FinishSecret
<1>2. TextTypeOK /\ AddressInv /\ SecretInv
  BY DEF TextInv
<1>3. kind = "secret" /\ form \in {"hex", "base64"}
  BY <1>1, <1>2, TextTypes DEF AddressInv
<1>4. text \in Seq(1..127) /\ decoded \in Seq(0..255) /\ at # 0
  <2>1. text \in Seq(1..127) /\ decoded \in Seq(0..255)
    BY <1>2, TextTypes
  <2> QED
    BY <1>1, <2>1
<1>5. SecretVerdict(text, decoded, r)
  <2>1. CASE form = "hex"
    <3>1. IsHexString(text) /\ at = 2 * Len(decoded) /\ PairsRead(text, decoded)
      BY <1>2, <1>3, <2>1 DEF SecretInv, HexInv
    <3> QED
      BY <1>1, <1>4, <3>1, HexVerdict
  <2>2. CASE form = "base64"
    <3>1. ~IsHexString(text) /\ decoded = Base64Decode(text, SecretSize) /\ decoded # <<>>
      BY <1>2, <1>3, <1>4, <2>2 DEF SecretInv, Base64Inv
    <3> QED
      BY <1>4, <3>1, Base64Verdict
  <2> QED
    BY <1>3, <2>1, <2>2
<1>6. TextTypeOK'
  <2>1. r \in {"OK", "FAIL"}
    OBVIOUS
  <2> HIDE DEF r
  <2> QED
    BY <1>1, <1>2, <2>1 DEF TextTypeOK
<1>7. SecretInv'
  <2>1. form = "hex" => HexInv'
    BY <1>1, <1>2, <1>3 DEF SecretInv, HexInv
  <2>2. form = "base64" => Base64Inv'
    BY <1>1, <1>2, <1>3 DEF SecretInv, Base64Inv
  <2> HIDE DEF r
  <2> QED
    BY <1>1, <1>5, <2>1, <2>2 DEF SecretInv
<1>8. AddressInv'
  BY <1>1, <1>3 DEF AddressInv
<1> QED
  BY <1>6, <1>7, <1>8 DEF TextInv

LEMMA TextNextInv == TextInv /\ [TextNext]_textVars => TextInv'
<1> SUFFICES ASSUME TextInv, [TextNext]_textVars
             PROVE  TextInv'
  OBVIOUS
<1>1. CASE DropPad
  BY <1>1, DropPadInv
<1>2. CASE DecodeCharacter
  BY <1>2, DecodeCharacterInv
<1>3. CASE FinishAddress
  BY <1>3, FinishAddressInv
<1>4. CASE Classify
  BY <1>4, ClassifyInv
<1>5. CASE DecodePair
  BY <1>5, DecodePairInv
<1>6. CASE DecodeBase64
  BY <1>6, DecodeBase64Inv
<1>7. CASE FinishSecret
  BY <1>7, FinishSecretInv
<1>8. CASE UNCHANGED textVars
  <2>1. TextTypeOK'
    BY <1>8 DEF TextInv, TextTypeOK, textVars
  <2>2. AddressInv'
    BY <1>8 DEF TextInv, AddressInv, AtPad, textVars
  <2>3. SecretInv'
    BY <1>8 DEF TextInv, SecretInv, HexInv, Base64Inv, textVars
  <2> QED
    BY <2>1, <2>2, <2>3 DEF TextInv
<1> QED
  BY <1>1, <1>2, <1>3, <1>4, <1>5, <1>6, <1>7, <1>8 DEF TextNext

LEMMA TextInvAlways == TextSpec => []TextInv
<1> QED
  BY TextInitInv, TextNextInv, PTL DEF TextSpec

(* Every variable of the decoders keeps its type: at stays in the text and *)
(* what is decoded in the buffers (algorand_codec.cpp:230-249, 274-349).   *)
THEOREM TextTypeCorrect == TextSpec => []TextTypeOK
<1>1. TextInv => TextTypeOK
  BY DEF TextInv
<1> QED
  BY <1>1, TextInvAlways, PTL

(* An address of any length is read bit by bit: the public key is its      *)
(* first bits, though the 32-bit buffer drops bits all the time, and it is *)
(* taken just when it has enough digits and no more than fit               *)
(* (algorandDecodeAddress, algorand_codec.cpp:274-314).                    *)
THEOREM AddressReadsBackAlways == TextSpec => []AddressReadsBack
<1>1. TextInv => AddressReadsBack
  BY VerdictIsReadBack DEF TextInv, AddressInv
<1> QED
  BY <1>1, TextInvAlways, PTL

(* A secret of the full size is read from every text of it, hexadecimal in *)
(* either case or base64 whatever its unused bits are, and what is         *)
(* accepted is what the text says: no base64 text of a secret can be taken *)
(* for hexadecimal, as its padding is no digit                             *)
(* (algorandDecodePrivateKeyB64, algorand_codec.cpp:316-349).              *)
THEOREM SecretReadsBackAlways == TextSpec => []SecretReadsBack
<1>1. TextInv => SecretReadsBack
  BY DEF TextInv, SecretInv, SecretReadsBack, SecretVerdict
<1> QED
  BY <1>1, TextInvAlways, PTL

-----------------------------------------------------------------------------
(* Both modules together: each takes its own steps.                        *)

LEMMA PartsKeepTheirSpecs == CodecSpec => Spec /\ TextSpec
<1>1. CodecInit => Init /\ TextInit
  BY DEF CodecInit
<1>2. [CodecNext]_<<part, vars, textVars>> => [Next]_vars /\ [TextNext]_textVars
  BY DEF CodecNext
<1> QED
  BY <1>1, <1>2, PTL DEF CodecSpec, Spec, TextSpec

(* Every variable of the encoder and of the decoders keeps its type: pos   *)
(* and scratch are counts of bytes and field one of the ten steps of       *)
(* encodePaymentTxn, at never leaves the text and what is decoded never    *)
(* the buffer it is decoded to (algorand_codec.cpp:60-349).                *)
THEOREM TypesOKAlways == CodecSpec => []TypesOK
<1>1. TypeOK /\ TextTypeOK => TypesOK
  BY DEF TypesOK
<1> QED
  BY <1>1, PartsKeepTheirSpecs, TypeCorrect, TextTypeCorrect, PTL
=============================================================================
