---------------------------- MODULE AlgodClient ----------------------------
(***************************************************************************)
(* The REST client of src/algod_client.cpp: three calls that share one     *)
(* response buffer.  A call resets the buffer, esp_http_client_perform     *)
(* delivers the body of the answer (or of several answers, when it follows *)
(* a redirect) to http_event_handler in chunks of any size, and the call   *)
(* then parses what the buffer holds as one JSON document.                 *)
(*                                                                         *)
(* The calls are made one after the other by the algorand task; what can   *)
(* go wrong lies in the sizes, in where the string ends, and in what an    *)
(* earlier call left behind.                                               *)
(***************************************************************************)
EXTENDS Integers, Sequences

CONSTANTS
  Cap,        \* kMaxResponseBytes, 4096
  DocSizes,   \* sizes of the JSON documents algod may send
  TextSizes,  \* sizes of other bodies that may come first (redirects, errors)
  MaxCalls    \* bound: calls

ASSUME CapAssumption == Cap \in Nat \ {0}
ASSUME ServerAssumption ==
  /\ DocSizes \subseteq Nat \ {0} /\ TextSizes \subseteq Nat
  /\ MaxCalls \in Nat

VARIABLES
  buf, len,   \* response_buf, response_len
  op,         \* the call being performed, or "none"
  calls,      \* calls so far; the documents sent are named after them
  rest,       \* bytes of the answer still to come
  received,   \* history: bytes the handler was given in this call
  result,     \* what the last call returned, and the document it read
  out         \* what the callers hold: params_out, the balance, tx_id_out

vars == <<buf, len, op, calls, rest, received, result, out>>

Ops == {"params", "balance", "submit"}

(* A JSON document: the call it answers, its size, and whether the string  *)
(* fields that the call insists on (genesis id and hash, txId) are there.  *)
Docs  == [call : 1..MaxCalls, size : DocSizes, fields : BOOLEAN]
NoDoc == [call |-> 0, size |-> 0, fields |-> FALSE]

DocByte(d, i) == [doc |-> d, pos |-> i]
NUL           == [doc |-> NoDoc, pos |-> 0]
TextByte      == [doc |-> NoDoc, pos |-> 1]
Byte == [doc : Docs, pos : Nat] \cup {NUL, TextByte}

Document(d) == [i \in 1..d.size |-> DocByte(d, i)]
Text(n)     == [i \in 1..n |-> TextByte]

Pending == [err |-> "none", doc |-> NoDoc]
Failed  == [err |-> "FAIL", doc |-> NoDoc]

TypeOK ==
  /\ buf \in [0..Cap-1 -> Byte] /\ len \in 0..Cap-1
  /\ op \in Ops \cup {"none"} /\ calls \in 0..MaxCalls
  /\ rest \in Seq(Byte) /\ received \in Seq(Byte)
  /\ result \in [err : {"none", "OK", "FAIL"}, doc : Docs \cup {NoDoc}]
  /\ out \in [Ops -> Docs \cup {NoDoc}]

-----------------------------------------------------------------------------
(* Mutant: the buffer is taken to be one byte smaller. *)
CopyLenShort(n) == IF len + n >= Cap - 2 THEN Cap - 2 - len ELSE n

(* Mutant: no room is kept for the NUL. *)
CopyLenLong(n) == IF len + n >= Cap THEN Cap - len ELSE n

(* copy_len: what still fits before the terminating NUL. *)
CopyLen(n) == IF len + n >= Cap - 1 THEN Cap - 1 - len ELSE n

(* Mutant: the chunk is copied to the front of the buffer. *)
CopyToFront(data, n) ==
  /\ buf' = [i \in 0..Cap-1 |-> IF i < n THEN data[i + 1]
                                ELSE IF i = len + n THEN NUL ELSE buf[i]]
  /\ len' = len + n

(* memcpy, response_len += copy_len, terminate. *)
CopyChunk(data, n) ==
  /\ buf' = [i \in 0..Cap-1 |-> IF len <= i /\ i < len + n
                                THEN data[i - len + 1]
                                ELSE IF i = len + n THEN NUL ELSE buf[i]]
  /\ len' = len + n

(* Mutant: the length of the previous answer is kept. *)
KeepLength == UNCHANGED <<buf, len>>

(* response_len = 0; response_buf[0] = '\0'. *)
ResetBuffer == len' = 0 /\ buf' = [buf EXCEPT ![0] = NUL]

(* cJSON_Parse(response_buf): a document is found when the string begins   *)
(* with all of it.                                                         *)
Parses(d) ==
  /\ d.size < Cap
  /\ \A i \in 1..d.size : buf[i - 1] = DocByte(d, i)

-----------------------------------------------------------------------------
Init ==
  /\ buf = [i \in 0..Cap-1 |-> NUL] /\ len = 0
  /\ op = "none" /\ calls = 0
  /\ rest = <<>> /\ received = <<>>
  /\ result = Pending /\ out = [o \in Ops |-> NoDoc]

(* The URL does not fit or no client can be made: the buffer stays as the  *)
(* last call left it.                                                      *)
NotMade ==
  /\ op = "none" /\ calls < MaxCalls
  /\ calls' = calls + 1 /\ result' = Failed /\ received' = <<>>
  /\ UNCHANGED <<buf, len, op, rest, out>>

(* algodHttpGet and algodHttpPostBinary up to esp_http_client_perform; the *)
(* server decides on its answer.                                           *)
Begin ==
  /\ op = "none" /\ calls < MaxCalls
  /\ calls' = calls + 1
  /\ op' \in Ops
  /\ ResetBuffer
  /\ received' = <<>> /\ result' = Pending
  /\ \E n \in TextSizes :
       \/ rest' = Text(n)
       \/ \E s \in DocSizes, f \in BOOLEAN :
            rest' = Text(n) \o Document([call |-> calls', size |-> s, fields |-> f])
  /\ UNCHANGED out

(* http_event_handler: HTTP_EVENT_ON_DATA with the next n bytes. *)
OnData ==
  /\ op # "none"
  /\ \E n \in 1..Len(rest) :
       LET data == SubSeq(rest, 1, n) IN
       /\ IF CopyLen(n) > 0 THEN CopyChunk(data, CopyLen(n))
                            ELSE UNCHANGED <<buf, len>>
       /\ received' = received \o data
       /\ rest' = SubSeq(rest, n + 1, Len(rest))
  /\ UNCHANGED <<op, calls, result, out>>

(* A transport error, the timeout, a status other than 200, an empty body, *)
(* or a body that does not begin with a document: no output is written.    *)
Fail ==
  /\ op # "none"
  /\ op' = "none" /\ result' = Failed /\ rest' = <<>>
  /\ UNCHANGED <<buf, len, calls, received, out>>

(* Mutant: params_out is written before the genesis fields are checked. *)
FillEarly(d) ==
  /\ out' = [out EXCEPT ![op] = IF d.fields \/ op # "submit" THEN d ELSE NoDoc]
  /\ result' = IF d.fields \/ op = "balance" THEN [err |-> "OK", doc |-> d]
                                             ELSE Failed

(* The outputs of a call whose answer is d.  A balance without "amount" is *)
(* 0; parameters without genesis fields stay in the local copy of          *)
(* algorandFetchAndLogTransactionParams; a missing txId becomes "".        *)
Fill(d) ==
  IF d.fields \/ op = "balance"
  THEN /\ out' = [out EXCEPT ![op] = d]
       /\ result' = [err |-> "OK", doc |-> d]
  ELSE /\ out' = IF op = "submit" THEN [out EXCEPT ![op] = NoDoc] ELSE out
       /\ result' = Failed

(* perform returned ESP_OK and the status is 200.  A connection that the   *)
(* server closes early also ends the body.                                 *)
Return ==
  /\ op # "none"
  /\ op' = "none" /\ rest' = <<>>
  /\ IF len # 0 /\ \E d \in Docs : Parses(d)
     THEN \E d \in Docs : Parses(d) /\ Fill(d)
     ELSE result' = Failed /\ UNCHANGED out
  /\ UNCHANGED <<buf, len, calls, received>>

Next == NotMade \/ Begin \/ OnData \/ Fail \/ Return

Spec == Init /\ [][Next]_vars

-----------------------------------------------------------------------------
(* While a call runs and after it, the buffer holds the first Cap - 1      *)
(* bytes the handler was given in this call and a NUL behind them, however *)
(* the body was cut into chunks and whatever the call before it left.      *)
BufferHoldsAnswer ==
  op # "none" =>
    /\ len = (IF Len(received) < Cap THEN Len(received) ELSE Cap - 1)
    /\ \A i \in 1..len : buf[i - 1] = received[i]
    /\ buf[len] = NUL

SentWhole(d) ==
  /\ d.size <= Len(received)
  /\ \A i \in 1..d.size : received[i] = DocByte(d, i)

(* A call that returns ESP_OK read a document that algod sent in answer to *)
(* this very call, and all of it: neither a document of an earlier call,   *)
(* still in the buffer, nor a truncated one.                               *)
OnlyOwnAnswer ==
  result.err = "OK" => result.doc.call = calls /\ SentWhole(result.doc)

(* An answer that fits (up to Cap - 1 bytes) and has its fields is never   *)
(* refused once the transport has delivered it.                            *)
FittingAnswerAccepted ==
  [][Return => \A d \in Docs : SentWhole(d) /\ d.size < Cap /\ d.fields
                                 => result'.err = "OK"]_vars

(* A call that fails leaves the parameters and the balance its callers     *)
(* hold as they were; a failed submission leaves no transaction id but ""  *)
(* or an earlier one.                                                      *)
FailureKeepsOutputs ==
  [][result'.err = "FAIL" => /\ out'["params"] = out["params"]
                             /\ out'["balance"] = out["balance"]
                             /\ out'["submit"] \in {out["submit"], NoDoc}]_vars
=============================================================================
