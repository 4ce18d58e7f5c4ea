------------------------ MODULE AlgodClient_proofs -------------------------
(***************************************************************************)
(* Proofs about AlgodClient for every buffer size, every size of answer    *)
(* and every number of calls.                                              *)
(***************************************************************************)
EXTENDS AlgodClient, SequenceTheorems, TLAPS

(* What the server sends in call c: text, or bytes of a document for it. *)
Fresh(c) == [doc : {d \in Docs : d.call = c}, pos : Nat] \cup {NUL, TextByte}

(* Both ends of the transfer carry bytes of the current call only, and     *)
(* nothing is read before the call ends.                                   *)
Transfer ==
  /\ rest \in Seq(Fresh(calls)) /\ received \in Seq(Fresh(calls))
  /\ op = "none" => rest = <<>>
  /\ op # "none" => result = Pending

ClientInv == TypeOK /\ Transfer /\ BufferHoldsAnswer /\ OnlyOwnAnswer

-----------------------------------------------------------------------------
(* Lemmas.                                                                 *)

LEMMA FreshIsByte == \A c : Fresh(c) \subseteq Byte
BY DEF Fresh, Byte

LEMMA EmptyFresh == \A c : <<>> \in Seq(Fresh(c)) /\ <<>> \in Seq(Byte)
BY EmptySeq

LEMMA DocSize ==
  ASSUME NEW d \in Docs
  PROVE  d.size \in Nat /\ d.size >= 1
<1>1. d.size \in DocSizes
  BY DEF Docs
<1>2. d.size \in Nat /\ d.size # 0
  BY <1>1, ServerAssumption
<1> QED
  BY <1>2

(* Every answer the server may decide on. *)
LEMMA AnswerFresh ==
  ASSUME NEW n \in TextSizes, NEW d \in Docs
  PROVE  /\ Text(n) \in Seq(Fresh(d.call))
         /\ Text(n) \o Document(d) \in Seq(Fresh(d.call))
<1>1. n \in Nat /\ d.size \in Nat
  BY ServerAssumption DEF Docs
<1>2. Text(n) \in Seq(Fresh(d.call))
  BY <1>1 DEF Text, Fresh
<1>3. \A i \in 1..d.size : DocByte(d, i) \in Fresh(d.call)
  BY <1>1 DEF DocByte, Fresh
<1>4. Document(d) \in Seq(Fresh(d.call))
  BY <1>1, <1>3 DEF Document
<1> QED
  BY <1>2, <1>4, ConcatProperties

(* Handing n bytes over: nothing is lost, reordered or made up. *)
LEMMA HandOver ==
  ASSUME NEW S, NEW r \in Seq(S), NEW g \in Seq(S), NEW n \in 1..Len(r)
  PROVE  LET data == SubSeq(r, 1, n) IN
         /\ data \in Seq(S) /\ Len(data) = n
         /\ g \o data \in Seq(S) /\ Len(g \o data) = Len(g) + n
         /\ \A i \in 1..Len(g) : (g \o data)[i] = g[i]
         /\ \A i \in 1..n : (g \o data)[Len(g) + i] = data[i]
         /\ SubSeq(r, n + 1, Len(r)) \in Seq(S)
<1> DEFINE data == SubSeq(r, 1, n)
<1>1. Len(r) \in Nat /\ Len(g) \in Nat /\ n \in Nat /\ n >= 1 /\ n <= Len(r)
  BY LenProperties
<1>2. \A i \in 1..Len(r) : r[i] \in S
  BY ElementOfSeq
<1>3. data \in Seq(S) /\ Len(data) = n
  BY <1>1, <1>2, SubSeqProperties
<1>4. SubSeq(r, n + 1, Len(r)) \in Seq(S)
  BY <1>1, <1>2, SubSeqProperties
<1> HIDE DEF data
<1>5. /\ g \o data \in Seq(S) /\ Len(g \o data) = Len(g) + n
      /\ \A i \in 1..Len(g) + n : (g \o data)[i] =
           IF i <= Len(g) THEN g[i] ELSE data[i - Len(g)]
  BY <1>3, ConcatProperties
<1>6. \A i \in 1..Len(g) : (g \o data)[i] = g[i]
  BY <1>1, <1>5
<1>7. \A i \in 1..n : (g \o data)[Len(g) + i] = data[i]
  BY <1>1, <1>5
<1> QED
  BY <1>3, <1>4, <1>5, <1>6, <1>7 DEF data

(* copy_len never reaches past the last byte of the buffer. *)
LEMMA CopyLenBounds ==
  ASSUME len \in 0..Cap-1, NEW n \in Nat, n >= 1
  PROVE  /\ CopyLen(n) \in 0..n
         /\ len + CopyLen(n) <= Cap - 1
         /\ len + CopyLen(n) = IF len + n < Cap THEN len + n ELSE Cap - 1
BY CapAssumption DEF CopyLen

(* A complete document at the start of what the handler was given is what  *)
(* the parser finds, and conversely.                                       *)
LEMMA ParsesIffSent ==
  ASSUME ClientInv, op # "none", NEW d \in Docs
  PROVE  Parses(d) <=> SentWhole(d) /\ d.size < Cap
<1>1. d.size \in Nat /\ d.size >= 1 /\ Len(received) \in Nat /\ Cap \in Nat
  BY DocSize, CapAssumption, LenProperties DEF ClientInv, TypeOK
<1>2. /\ len = (IF Len(received) < Cap THEN Len(received) ELSE Cap - 1)
      /\ \A i \in 1..len : buf[i - 1] = received[i]
      /\ buf[len] = NUL
  BY DEF ClientInv, BufferHoldsAnswer
<1>3. ASSUME Parses(d)  PROVE SentWhole(d) /\ d.size < Cap
  <2>1. d.size < Cap /\ \A i \in 1..d.size : buf[i - 1] = DocByte(d, i)
    BY <1>3 DEF Parses
  <2>2. d # NoDoc
    BY <1>1 DEF NoDoc, Docs
  <2>3. d.size <= len
    <3>1. SUFFICES ASSUME len < d.size PROVE FALSE
      BY <1>1, <1>2
    <3>2. len + 1 \in 1..d.size /\ (len + 1) - 1 = len
      <4>1. len \in Nat
        BY DEF ClientInv, TypeOK
      <4> QED
        BY <1>1, <3>1, <4>1
    <3>3. buf[len] = DocByte(d, len + 1)
      BY <2>1, <3>2
    <3> QED
      BY <1>2, <2>2, <3>3 DEF DocByte, NUL
  <2>4. \A i \in 1..d.size : received[i] = DocByte(d, i)
    BY <1>1, <1>2, <2>1, <2>3
  <2> QED
    BY <1>1, <1>2, <2>1, <2>3, <2>4 DEF SentWhole
<1>4. ASSUME SentWhole(d), d.size < Cap  PROVE Parses(d)
  <2>1. d.size <= len
    BY <1>1, <1>2, <1>4 DEF SentWhole
  <2> QED
    BY <1>1, <1>2, <1>4, <2>1 DEF SentWhole, Parses
<1> QED
  BY <1>3, <1>4

(* Only one document can begin a string. *)
LEMMA ParsesUnique ==
  ASSUME NEW d \in Docs, NEW e \in Docs, Parses(d), Parses(e)
  PROVE  d = e
<1>1. d.size >= 1 /\ d.size \in Nat /\ e.size >= 1 /\ e.size \in Nat
  BY DocSize
<1>2. buf[0] = DocByte(d, 1) /\ buf[0] = DocByte(e, 1)
  <2>1. 1 \in 1..d.size /\ 1 \in 1..e.size /\ 1 - 1 = 0
    BY <1>1
  <2> QED
    BY <2>1 DEF Parses
<1> QED
  BY <1>2 DEF DocByte

(* A document found by the parser answers the current call. *)
LEMMA ParsedIsOwn ==
  ASSUME ClientInv, op # "none", NEW d \in Docs, Parses(d)
  PROVE  d.call = calls /\ SentWhole(d)
<1>1. SentWhole(d)
  BY ParsesIffSent
<1>2. d.size \in Nat /\ d.size >= 1
  BY DocSize
<1>3. 1 \in 1..Len(received) /\ received[1] = DocByte(d, 1)
  BY <1>1, <1>2, LenProperties DEF SentWhole, ClientInv, TypeOK
<1>4. DocByte(d, 1) \in Fresh(calls)
  BY <1>3, ElementOfSeq DEF ClientInv, Transfer
<1>5. d # NoDoc
  BY <1>2 DEF NoDoc, Docs
<1> QED
  BY <1>1, <1>4, <1>5 DEF DocByte, Fresh, NUL, TextByte

-----------------------------------------------------------------------------
(* The invariant.                                                          *)

LEMMA InitInv == Init => ClientInv
<1> SUFFICES ASSUME Init PROVE ClientInv
  OBVIOUS
<1>1. TypeOK
  BY CapAssumption, ServerAssumption, EmptyFresh
  DEF Init, TypeOK, Byte, Ops, Pending
<1>2. Transfer
  BY EmptyFresh DEF Init, Transfer
<1>3. BufferHoldsAnswer /\ OnlyOwnAnswer
  BY DEF Init, BufferHoldsAnswer, OnlyOwnAnswer, Pending
<1> QED
  BY <1>1, <1>2, <1>3 DEF ClientInv

LEMMA NotMadeInv == ClientInv /\ NotMade => ClientInv'
<1> SUFFICES ASSUME ClientInv, NotMade PROVE ClientInv'
  OBVIOUS
<1> USE DEF ClientInv, NotMade, Failed
<1>1. TypeOK'
  BY EmptyFresh, ServerAssumption DEF TypeOK
<1>2. Transfer'
  BY EmptyFresh DEF Transfer
<1>3. BufferHoldsAnswer' /\ OnlyOwnAnswer'
  BY DEF BufferHoldsAnswer, OnlyOwnAnswer
<1> QED
  BY <1>1, <1>2, <1>3

LEMMA BeginInv == ClientInv /\ Begin => ClientInv'
<1> SUFFICES ASSUME ClientInv, Begin PROVE ClientInv'
  OBVIOUS
<1>1. calls' \in 1..MaxCalls
  BY ServerAssumption DEF ClientInv, TypeOK, Begin
<1>2. rest' \in Seq(Fresh(calls'))
  <2>1. CASE \E n \in TextSizes : rest' = Text(n)
    <3>1. PICK n \in TextSizes : rest' = Text(n)
      BY <2>1
    <3>2. n \in Nat
      BY ServerAssumption
    <3>3. Text(n) \in Seq(Fresh(calls'))
      BY <3>2 DEF Text, Fresh
    <3> QED
      BY <3>1, <3>3
  <2>2. CASE \E n \in TextSizes, s \in DocSizes, f \in BOOLEAN :
               rest' = Text(n) \o Document([call |-> calls', size |-> s, fields |-> f])
    <3>1. PICK n \in TextSizes, s \in DocSizes, f \in BOOLEAN :
            rest' = Text(n) \o Document([call |-> calls', size |-> s, fields |-> f])
      BY <2>2
    <3> DEFINE d == [call |-> calls', size |-> s, fields |-> f]
    <3>2. d \in Docs /\ d.call = calls'
      BY <1>1 DEF Docs
    <3> QED
      BY <3>1, <3>2, AnswerFresh
  <2> QED
    BY <2>1, <2>2 DEF Begin
<1>3. rest' \in Seq(Byte)
  BY <1>2, FreshIsByte, SeqMonotonic
<1>4. /\ buf' = [buf EXCEPT ![0] = NUL] /\ len' = 0 /\ received' = <<>>
      /\ op' \in Ops /\ result' = Pending /\ out' = out
  BY DEF Begin, ResetBuffer
<1>5. buf' \in [0..Cap-1 -> Byte] /\ buf'[0] = NUL
  BY <1>4, CapAssumption DEF ClientInv, TypeOK, Byte
<1>6. TypeOK'
  BY <1>1, <1>3, <1>4, <1>5, EmptyFresh, CapAssumption, ServerAssumption
  DEF TypeOK, ClientInv, Pending
<1>7. op' # "none"
  BY <1>4 DEF Ops
<1>8. Transfer'
  BY <1>2, <1>4, <1>7, EmptyFresh DEF Transfer
<1>9. BufferHoldsAnswer' /\ OnlyOwnAnswer'
  BY <1>4, <1>5, CapAssumption, EmptySeq
  DEF BufferHoldsAnswer, OnlyOwnAnswer, Pending
<1> QED
  BY <1>6, <1>8, <1>9 DEF ClientInv

LEMMA OnDataInv == ClientInv /\ OnData => ClientInv'
<1> SUFFICES ASSUME ClientInv, op # "none", NEW n \in 1..Len(rest),
               IF CopyLen(n) > 0 THEN CopyChunk(SubSeq(rest, 1, n), CopyLen(n))
                                 ELSE UNCHANGED <<buf, len>>,
               received' = received \o SubSeq(rest, 1, n),
               rest' = SubSeq(rest, n + 1, Len(rest)),
               UNCHANGED <<op, calls, result, out>>
             PROVE  ClientInv'
  BY DEF OnData
<1> DEFINE data == SubSeq(rest, 1, n)
           c == CopyLen(n)
<1>1. /\ rest \in Seq(Fresh(calls)) /\ received \in Seq(Fresh(calls))
      /\ Len(received) \in Nat /\ Len(rest) \in Nat /\ n \in Nat /\ n >= 1
  BY LenProperties DEF ClientInv, Transfer
<1>2. /\ data \in Seq(Fresh(calls)) /\ Len(data) = n
      /\ received' \in Seq(Fresh(calls)) /\ Len(received') = Len(received) + n
      /\ \A i \in 1..Len(received) : received'[i] = received[i]
      /\ \A i \in 1..n : received'[Len(received) + i] = data[i]
      /\ rest' \in Seq(Fresh(calls))
  BY <1>1, HandOver
<1>3. received' \in Seq(Byte) /\ rest' \in Seq(Byte) /\ data \in Seq(Byte)
  BY <1>2, FreshIsByte, SeqMonotonic
<1>4. /\ Cap \in Nat /\ len \in 0..Cap-1 /\ buf \in [0..Cap-1 -> Byte]
      /\ len = (IF Len(received) < Cap THEN Len(received) ELSE Cap - 1)
      /\ \A i \in 1..len : buf[i - 1] = received[i]
      /\ buf[len] = NUL
  BY CapAssumption DEF ClientInv, TypeOK, BufferHoldsAnswer
<1>5. /\ c \in 0..n /\ len + c <= Cap - 1
      /\ len + c = IF len + n < Cap THEN len + n ELSE Cap - 1
  BY <1>1, <1>4, CopyLenBounds
<1>6. c > 0 => len = Len(received)
  BY <1>1, <1>4, <1>5
<1>7. len + c = IF Len(received') < Cap THEN Len(received') ELSE Cap - 1
  BY <1>1, <1>2, <1>4, <1>5
<1>8. /\ buf' \in [0..Cap-1 -> Byte] /\ len' = len + c
      /\ \A i \in 1..len + c : buf'[i - 1] = received'[i]
      /\ buf'[len + c] = NUL
  <2>1. CASE c > 0
    <3>1. /\ buf' = [i \in 0..Cap-1 |-> IF len <= i /\ i < len + c
                                        THEN data[i - len + 1]
                                        ELSE IF i = len + c THEN NUL ELSE buf[i]]
          /\ len' = len + c
      BY <2>1 DEF CopyChunk
    <3>2. \A i \in 1..n : data[i] \in Byte
      BY <1>2, <1>3, ElementOfSeq
    <3> HIDE DEF data, c
    <3>3. NUL \in Byte
      BY DEF Byte
    <3>4. buf' \in [0..Cap-1 -> Byte]
      <4>1. ASSUME NEW i \in 0..Cap-1
            PROVE  (IF len <= i /\ i < len + c THEN data[i - len + 1]
                    ELSE IF i = len + c THEN NUL ELSE buf[i]) \in Byte
        <5>1. CASE len <= i /\ i < len + c
          <6>1. i - len + 1 \in 1..n
            BY <1>4, <1>5, <5>1
          <6> QED
            BY <3>2, <5>1, <6>1
        <5>2. CASE ~(len <= i /\ i < len + c)
          BY <1>4, <3>3, <5>2
        <5> QED
          BY <5>1, <5>2
      <4> QED
        BY <3>1, <4>1
    <3>5. ASSUME NEW i \in 1..len + c PROVE buf'[i - 1] = received'[i]
      <4>1. i - 1 \in 0..Cap-1 /\ i \in Nat /\ len \in Nat /\ c \in Nat
        BY <1>4, <1>5
      <4>2. CASE i <= len
        BY <1>2, <1>4, <1>6, <2>1, <3>1, <4>1, <4>2
      <4>3. CASE i > len
        <5>1. buf'[i - 1] = data[(i - 1) - len + 1]
          BY <1>4, <3>1, <4>1, <4>3
        <5>2. i - len \in 1..n /\ Len(received) + (i - len) = i
              /\ (i - 1) - len + 1 = i - len
          BY <1>4, <1>5, <1>6, <2>1, <4>1, <4>3
        <5> QED
          BY <1>2, <5>1, <5>2
      <4>4. i <= len \/ i > len
        BY <4>1
      <4> QED
        BY <4>2, <4>3, <4>4
    <3>6. buf'[len + c] = NUL
      <4>1. len + c \in 0..Cap-1
        BY <1>4, <1>5
      <4> QED
        BY <1>4, <1>5, <3>1, <4>1
    <3> QED
      BY <3>1, <3>4, <3>5, <3>6
  <2>2. CASE ~(c > 0)
    <3>1. c = 0 /\ buf' = buf /\ len' = len
      BY <1>5, <2>2
    <3>2. \A i \in 1..len : i \in 1..Len(received)
      BY <1>1, <1>4
    <3> HIDE DEF data, c
    <3> QED
      BY <1>2, <1>4, <3>1, <3>2
  <2> HIDE DEF c
  <2> QED
    BY <1>5, <2>1, <2>2
<1>9. len' \in 0..Cap-1
  BY <1>4, <1>5, <1>8
<1>10. TypeOK'
  BY <1>3, <1>8, <1>9 DEF ClientInv, TypeOK
<1>11. Transfer'
  BY <1>2 DEF ClientInv, Transfer
<1>12. BufferHoldsAnswer'
  BY <1>7, <1>8 DEF BufferHoldsAnswer
<1>13. OnlyOwnAnswer'
  BY DEF OnlyOwnAnswer, ClientInv, Transfer, Pending
<1> QED
  BY <1>10, <1>11, <1>12, <1>13 DEF ClientInv

LEMMA FailInv == ClientInv /\ Fail => ClientInv'
<1> SUFFICES ASSUME ClientInv, Fail PROVE ClientInv'
  OBVIOUS
<1> USE DEF ClientInv, Fail, Failed
<1>1. TypeOK'
  BY EmptyFresh DEF TypeOK
<1>2. Transfer'
  BY EmptyFresh DEF Transfer
<1>3. BufferHoldsAnswer' /\ OnlyOwnAnswer'
  BY DEF BufferHoldsAnswer, OnlyOwnAnswer
<1> QED
  BY <1>1, <1>2, <1>3

(* What a call may leave behind when it returns. *)
LEMMA ReturnResult ==
  ASSUME ClientInv, Return
  PROVE  \/ /\ result' = Failed
            /\ out' \in {out, [out EXCEPT !["submit"] = NoDoc]}
         \/ \E d \in Docs : /\ Parses(d)
                            /\ result' = [err |-> "OK", doc |-> d]
                            /\ out' = [out EXCEPT ![op] = d]
BY DEF Return, Fill

LEMMA ReturnInv == ClientInv /\ Return => ClientInv'
<1> SUFFICES ASSUME ClientInv, Return PROVE ClientInv'
  OBVIOUS
<1>1. /\ op # "none" /\ op \in Ops /\ op' = "none" /\ rest' = <<>>
      /\ UNCHANGED <<buf, len, calls, received>>
  BY DEF Return, ClientInv, TypeOK
<1>2. /\ out' \in [Ops -> Docs \cup {NoDoc}]
      /\ result' \in [err : {"none", "OK", "FAIL"}, doc : Docs \cup {NoDoc}]
  BY <1>1, ReturnResult DEF ClientInv, TypeOK, Failed, Ops
<1>3. TypeOK'
  BY <1>1, <1>2, EmptyFresh DEF ClientInv, TypeOK
<1>4. Transfer' /\ BufferHoldsAnswer'
  BY <1>1, EmptyFresh DEF ClientInv, Transfer, BufferHoldsAnswer
<1>5. OnlyOwnAnswer'
  <2>1. CASE result' = Failed
    BY <2>1 DEF OnlyOwnAnswer, Failed
  <2>2. ASSUME NEW d \in Docs, Parses(d), result' = [err |-> "OK", doc |-> d]
        PROVE  OnlyOwnAnswer'
    <3>1. d.call = calls /\ SentWhole(d)
      BY <1>1, <2>2, ParsedIsOwn
    <3> QED
      BY <1>1, <2>2, <3>1 DEF OnlyOwnAnswer, SentWhole
  <2> QED
    BY <2>1, <2>2, ReturnResult
<1> QED
  BY <1>3, <1>4, <1>5 DEF ClientInv

LEMMA NextInv == ClientInv /\ [Next]_vars => ClientInv'
<1>1. ClientInv /\ UNCHANGED vars => ClientInv'
  BY DEF vars, ClientInv, TypeOK, Transfer, BufferHoldsAnswer, OnlyOwnAnswer,
         SentWhole
<1> QED
  BY <1>1, NotMadeInv, BeginInv, OnDataInv, FailInv, ReturnInv DEF Next

THEOREM ClientInvAlways == Spec => []ClientInv
BY InitInv, NextInv, PTL DEF Spec

-----------------------------------------------------------------------------
(* Every reachable state has its declared type: response_len stays below   *)
(* kMaxResponseBytes.                                                      *)
THEOREM TypeCorrect == Spec => []TypeOK
<1>1. ClientInv => TypeOK
  BY DEF ClientInv
<1> QED
  BY <1>1, ClientInvAlways, PTL

(* The buffer holds the beginning of this call's answer and a NUL. *)
THEOREM BufferHoldsAnswerAlways == Spec => []BufferHoldsAnswer
<1>1. ClientInv => BufferHoldsAnswer
  BY DEF ClientInv
<1> QED
  BY <1>1, ClientInvAlways, PTL

(* ESP_OK means a complete answer to this call was read. *)
THEOREM OnlyOwnAnswerAlways == Spec => []OnlyOwnAnswer
<1>1. ClientInv => OnlyOwnAnswer
  BY DEF ClientInv
<1> QED
  BY <1>1, ClientInvAlways, PTL

(* A complete answer that fits is accepted. *)
THEOREM FittingAnswerAcceptedAlways == Spec => FittingAnswerAccepted
<1> DEFINE Accepted ==
      Return => \A d \in Docs : SentWhole(d) /\ d.size < Cap /\ d.fields
                                  => result'.err = "OK"
<1>1. ASSUME ClientInv PROVE Accepted
  <2> SUFFICES ASSUME Return, NEW d \in Docs, SentWhole(d), d.size < Cap, d.fields
               PROVE  result'.err = "OK"
    OBVIOUS
  <2>1. op # "none" /\ Parses(d)
    BY <1>1, ParsesIffSent DEF Return
  <2>2. len # 0
    <3>1. d.size \in Nat /\ d.size >= 1 /\ Len(received) \in Nat
      BY <1>1, DocSize, LenProperties DEF ClientInv, TypeOK
    <3> QED
      BY <1>1, <2>1, <3>1, CapAssumption
      DEF ClientInv, BufferHoldsAnswer, SentWhole
  <2>3. PICK e \in Docs : Parses(e) /\ Fill(e)
    BY <2>1, <2>2 DEF Return
  <2>4. e = d
    BY <2>1, <2>3, ParsesUnique
  <2> QED
    BY <2>3, <2>4 DEF Fill
<1>2. ClientInv => [Accepted]_vars
  BY <1>1
<1> QED
  BY <1>2, ClientInvAlways, PTL DEF FittingAnswerAccepted

(* A failed call leaves what its callers hold. *)
THEOREM FailureKeepsOutputsAlways == Spec => FailureKeepsOutputs
<1> DEFINE Keeps == result'.err = "FAIL" =>
                      /\ out'["params"] = out["params"]
                      /\ out'["balance"] = out["balance"]
                      /\ out'["submit"] \in {out["submit"], NoDoc}
<1>1. ASSUME ClientInv, Next PROVE Keeps
  <2>1. out \in [Ops -> Docs \cup {NoDoc}]
    BY <1>1 DEF ClientInv, TypeOK
  <2>2. CASE Return
    BY <1>1, <2>1, <2>2, ReturnResult DEF Ops
  <2>3. CASE NotMade \/ Begin \/ OnData \/ Fail
    BY <2>3 DEF NotMade, Begin, OnData, Fail
  <2> QED
    BY <1>1, <2>2, <2>3 DEF Next
<1>2. ClientInv /\ [Next]_vars => [Keeps]_vars
  BY <1>1
<1> QED
  BY <1>2, ClientInvAlways, PTL DEF FailureKeepsOutputs, Spec
=============================================================================
