------------------------ MODULE AlgorandTask_proofs ------------------------
(***************************************************************************)
(* Proofs about AlgorandTask for every value of its constants.             *)
(***************************************************************************)
EXTENDS AlgorandTask, TLAPS

(* The answer the task reads belongs to the call it has made, and a 200    *)
(* answer names a payment that the pool has taken.                         *)
ReplyMatches ==
  /\ reply \in ParamsReply => stage = "params"
  /\ reply \in BalanceReply => stage \in {"balance", "sendBalance"}
  /\ reply \in AcceptedReply => stage = "submit" /\ reply.txn \in accepted

(* One POSTed payment at most has the task waiting for its answer. *)
LiveAtSubmit ==
  \A m \in inflight :
    m.live => /\ stage = "submit" /\ reply = NoReply
              /\ \A n \in inflight : n.live => n = m

TypeInv == TypeOK /\ ReplyMatches /\ LiveAtSubmit

USE DEF Missing

-----------------------------------------------------------------------------
(* Lemmas about the operators.                                             *)

(* Below Exact neighbouring doubles are 1 apart ... *)
LEMMA SpacingBelowExact ==
  ASSUME NEW n \in Nat, n < Exact
  PROVE  Spacing(n) = 1
<1> DEFINE Fits(s) == /\ n < s * Exact
                      /\ \A t \in Spacings : n < t * Exact => s <= t
<1>1. Fits(1) /\ 1 \in Spacings
  BY DoubleAssumption
<1>2. \A s \in Spacings : Fits(s) => s = 1
  BY DoubleAssumption
<1> QED
  BY <1>1, <1>2 DEF Spacing

(* ... so that numbers below 2^53 are read as they are written. *)
LEMMA ReadExactly ==
  ASSUME NEW n \in Nat, n < Exact
  PROVE  GetUint64Field(n) = {n}
<1>1. n % 1 = 0
  OBVIOUS
<1>2. NearestDouble(n) = n
  BY <1>1, SpacingBelowExact DEF NearestDouble
<1>3. n \in Uint64
  BY DoubleAssumption, MoneyAssumption DEF Uint64
<1> QED
  BY <1>2, <1>3 DEF GetUint64Field

LEMMA GetFieldType ==
  ASSUME NEW x
  PROVE  GetUint64Field(x) \subseteq Uint64
<1>1. 0 \in Uint64
  BY MoneyAssumption DEF Uint64
<1> QED
  BY <1>1 DEF GetUint64Field

(* The last round an answer names is read as it is, and a missing one as 0. *)
LEMMA RoundRead ==
  ASSUME NEW x \in Maybe(0..MaxRound), NEW last \in GetUint64Field(x)
  PROVE  last \in 0..MaxRound /\ (x = Missing => last = 0)
                              /\ (x # Missing => last = x)
<1>1. CASE x = Missing
  BY <1>1, AlgodAssumption DEF GetUint64Field
<1>2. CASE x # Missing
  <2>1. x \in 0..MaxRound /\ x \in Nat /\ x < Exact
    BY <1>2, AlgodAssumption, DoubleAssumption DEF Maybe
  <2> QED
    BY <1>2, <2>1, ReadExactly
<1> QED
  BY <1>1, <1>2

LEMMA FeeType ==
  ASSUME NEW p \in Params
  PROVE  Fee(p) \in Uint64
BY DEF Fee, MaxUint64, Params

LEMMA PaymentType ==
  ASSUME NEW p \in Params
  PROVE  PaymentTxn(p) \in Txns
<1>1. Fee(p) \in Uint64
  BY FeeType
<1>2. p.last_round \in 0..MaxRound
  BY DEF Params
<1>3. p.last_round + Validity \in 0..MaxRound + Validity
  BY <1>2, AlgodAssumption
<1> QED
  BY <1>1, <1>2, <1>3 DEF PaymentTxn, Txns

(* The cost check compares with the true sum unless that sum wraps. *)
LEMMA TotalCostExact ==
  ASSUME NEW p \in Params, Amount + Fee(p) < UintMod
  PROVE  TotalCost(p) = Amount + Fee(p)
<1>1. Fee(p) \in Nat
  BY FeeType, MoneyAssumption DEF Uint64
<1> QED
  BY <1>1, MoneyAssumption DEF TotalCost, AddUint64, Uint64

(* The kinds keep the sorts of answers apart. *)
LEMMA ReplyKinds ==
  /\ \A r \in ParamsReply : r.kind = "params"
  /\ \A r \in BalanceReply : r.kind = "balance"
  /\ \A r \in AcceptedReply : r.kind = "accepted"
  /\ NoReply.kind = "none"
BY DEF ParamsReply, BalanceReply, AcceptedReply, NoReply

LEMMA KindOfStage ==
  ASSUME TypeInv, reply # NoReply
  PROVE  /\ stage = "params" => reply \in ParamsReply
         /\ stage \in {"balance", "sendBalance"} => reply \in BalanceReply
         /\ stage = "submit" => reply \in AcceptedReply
BY DEF TypeInv, TypeOK, Replies, ReplyMatches

-----------------------------------------------------------------------------
(* Type correctness.                                                       *)

LEMMA InitType == Init => TypeInv
<1> SUFFICES ASSUME Init PROVE TypeInv
  OBVIOUS
<1>1. NoParams \in Params
  BY AlgodAssumption, MoneyAssumption DEF NoParams, Params, Uint64, Genesis
<1>2. /\ keyMatches \in BOOLEAN /\ receiverOK \in BOOLEAN
      /\ hasIp \in BOOLEAN /\ begun \in BOOLEAN /\ stage \in Stages
  BY DEF Init, Stages, Waiting
<1>3. /\ clock \in 0..ClockMod-1 /\ lastAttemptMs \in 0..ClockMod-1
      /\ elapsed \in 0..MaxElapsed
  BY ClockAssumption DEF Init
<1>4. /\ round \in 0..MaxRound /\ startRound \in 0..MaxRound
      /\ reboots \in 0..MaxReboots
  BY AlgodAssumption DEF Init
<1>5. funds \in 0..InitialFunds
  BY MoneyAssumption DEF Init, Uint64
<1>10. stale \in BOOLEAN
  BY DEF Init
<1>6. params \in Params /\ txId \in Txns \cup {NoTxn} /\ reply \in Replies
  BY <1>1 DEF Init, Replies
<1>7. /\ inflight \subseteq [txn : Txns, live : BOOLEAN]
      /\ pool \subseteq Txns /\ ledger \subseteq Txns /\ accepted \subseteq Txns
  BY DEF Init
<1>8. ReplyMatches
  BY ReplyKinds DEF Init, ReplyMatches
<1>9. LiveAtSubmit
  BY DEF Init, LiveAtSubmit
<1> QED
  BY <1>2, <1>3, <1>4, <1>5, <1>6, <1>7, <1>8, <1>9, <1>10
  DEF TypeInv, TypeOK

LEMMA NextType ==
  ASSUME TypeInv, [Next]_vars
  PROVE  TypeInv'
<1> USE DEF TypeInv, TypeOK, ReplyMatches, LiveAtSubmit, device, taskVars, algodVars, history, vars
<1> USE ClockAssumption, MoneyAssumption, AlgodAssumption, ReplyKinds
<1>1. CASE StartPolling
  BY <1>1 DEF StartPolling, Stages, Waiting
<1>2. CASE StartAttempt
  BY <1>2 DEF StartAttempt, Stages, Waiting
<1>3. CASE NotDue
  BY <1>3 DEF NotDue, Stages, Waiting
<1>4. CASE Wake
  BY <1>4 DEF Wake, Stages, Waiting
<1>5. CASE ReceiveParams
  <2>1. reply \in ParamsReply
    BY <1>5, KindOfStage DEF ReceiveParams
  <2>2. CASE reply.genesis = "missing"
    BY <1>5, <2>2 DEF ReceiveParams, GiveUp, Stages, Waiting, Replies
  <2>3. CASE reply.genesis # "missing"
    <3>1. PICK fee \in GetUint64Field(reply.fee),
               min \in GetUint64Field(reply.min_fee),
               last \in GetUint64Field(reply.last_round) :
                 params' = [fee |-> fee, min_fee |-> min, last_round |-> last,
                            genesis |-> reply.genesis]
      BY <1>5, <2>3 DEF ReceiveParams
    <3>2. fee \in Uint64 /\ min \in Uint64
      BY GetFieldType
    <3>3. reply.last_round \in Maybe(0..MaxRound) /\ reply.genesis \in Genesis
      BY <2>1 DEF ParamsReply
    <3>4. last \in 0..MaxRound
      BY <3>3, RoundRead
    <3>5. params' \in Params
      BY <3>1, <3>2, <3>3, <3>4 DEF Params
    <3> QED
      BY <1>5, <2>3, <3>5 DEF ReceiveParams, Stages, Waiting, Replies
  <2> QED
    BY <2>2, <2>3
<1>6. CASE ReceiveBalance
  BY <1>6 DEF ReceiveBalance, GiveUp, Stages, Waiting, Replies
<1>7. CASE SendPayment
  <2>1. [txn |-> PaymentTxn(params), live |-> TRUE]
          \in [txn : Txns, live : BOOLEAN]
    BY PaymentType
  <2>2. inflight' \subseteq [txn : Txns, live : BOOLEAN]
    BY <1>7, <2>1 DEF SendPayment
  <2> QED
    BY <1>7, <2>2 DEF SendPayment, GiveUp, Stages, Waiting, Replies
<1>8. CASE ReceiveAccepted
  <2>1. reply \in AcceptedReply
    BY <1>8, KindOfStage DEF ReceiveAccepted
  <2>2. txId' \in Txns
    BY <1>8, <2>1 DEF ReceiveAccepted, AcceptedReply
  <2> QED
    BY <1>8, <2>2 DEF ReceiveAccepted, Stages, Waiting, Replies
<1>9. CASE HttpFails
  <2>1. inflight' \subseteq [txn : Txns, live : BOOLEAN]
    BY <1>9 DEF HttpFails
  <2> QED
    BY <1>9, <2>1 DEF HttpFails, GiveUp, Stages, Waiting, Replies
<1>10. CASE AnswerParams
  <2>1. reply' \in ParamsReply
    BY <1>10 DEF AnswerParams, Field, ParamsReply, Maybe, Genesis
  <2> QED
    BY <1>10, <2>1 DEF AnswerParams, Replies
<1>11. CASE AnswerBalance
  <2>1. reply' \in BalanceReply
    BY <1>11 DEF AnswerBalance, Field, BalanceReply, Maybe
  <2> QED
    BY <1>11, <2>1 DEF AnswerBalance, Replies
<1>12. CASE Accept
  <2>1. PICK m \in inflight :
          /\ Acceptable(m.txn)
          /\ inflight' = inflight \ {m}
          /\ pool' = pool \cup {m.txn}
          /\ accepted' = accepted \cup {m.txn}
          /\ reply' = IF m.live THEN [kind |-> "accepted", txn |-> m.txn]
                                ELSE reply
    BY <1>12 DEF Accept
  <2>2. m.txn \in Txns
    BY <2>1
  <2>3. [kind |-> "accepted", txn |-> m.txn] \in AcceptedReply
    BY <2>2 DEF AcceptedReply
  <2>4. reply' \in Replies
    BY <2>1, <2>3 DEF Replies
  <2>5. CASE m.live
    BY <1>12, <2>1, <2>2, <2>3, <2>4, <2>5 DEF Accept
  <2>6. CASE ~m.live
    BY <1>12, <2>1, <2>2, <2>4, <2>6 DEF Accept
  <2> QED
    BY <2>5, <2>6
<1>19. CASE Confirm
  <2>1. PICK t \in pool : /\ Payable(t)
                          /\ pool' = pool \ {t} /\ ledger' = ledger \cup {t}
                          /\ funds' = funds - (Amount + t.fee)
    BY <1>19 DEF Confirm
  <2>2. t \in Txns /\ t.fee \in Nat /\ Amount \in Nat
    BY <2>1 DEF Txns, Uint64
  <2>3. funds' \in 0..InitialFunds
    BY <2>1, <2>2 DEF Payable, Uint64
  <2>4. pool' \subseteq Txns /\ ledger' \subseteq Txns
    BY <2>1, <2>2
  <2> QED
    BY <1>19, <2>3, <2>4 DEF Confirm
<1>20. CASE Forget
  BY <1>20 DEF Forget
<1>13. CASE LoseOrRefuse
  BY <1>13 DEF LoseOrRefuse
<1>14. CASE NextRound
  BY <1>14 DEF NextRound
<1>15. CASE WifiChanges
  BY <1>15 DEF WifiChanges
<1>16. CASE Tick
  BY <1>16 DEF Tick
<1>17. CASE Reboot
  <2>1. NoParams \in Params
    BY DEF NoParams, Params, Uint64, Genesis
  <2>2. inflight' \subseteq [txn : Txns, live : BOOLEAN]
    BY <1>17 DEF Reboot
  <2>3. reboots' \in 0..MaxReboots
    BY <1>17 DEF Reboot
  <2>4. clock' \in 0..ClockMod-1 /\ lastAttemptMs' \in 0..ClockMod-1
    BY <1>17 DEF Reboot
  <2>5. ReplyMatches' /\ LiveAtSubmit'
    BY <1>17, <2>2 DEF Reboot
  <2>6. /\ keyMatches' \in BOOLEAN /\ receiverOK' \in BOOLEAN
        /\ hasIp' \in BOOLEAN /\ begun' \in BOOLEAN
        /\ stage' \in Stages /\ reply' \in Replies
    BY <1>17 DEF Reboot, Stages, Waiting, Replies
  <2>7. params' \in Params /\ txId' \in Txns \cup {NoTxn}
    BY <1>17, <2>1 DEF Reboot
  <2>8. elapsed' \in 0..MaxElapsed /\ startRound' \in 0..MaxRound
    BY <1>17 DEF Reboot
  <2>10. stale' \in BOOLEAN
    BY <1>17 DEF Reboot
  <2>9. /\ round' \in 0..MaxRound /\ funds' \in 0..InitialFunds
        /\ pool' \subseteq Txns /\ ledger' \subseteq Txns
        /\ accepted' \subseteq Txns
    BY <1>17 DEF Reboot
  <2> QED
    BY <2>2, <2>3, <2>4, <2>5, <2>6, <2>7, <2>8, <2>9, <2>10
<1>18. CASE UNCHANGED vars
  BY <1>18
<1> QED
  BY <1>1, <1>2, <1>3, <1>4, <1>5, <1>6, <1>7, <1>8, <1>9, <1>10, <1>11,
     <1>12, <1>13, <1>14, <1>15, <1>16, <1>17, <1>18, <1>19, <1>20
  DEF Next, Task, Algod

(* The declared types hold in every reachable state, and each answer is    *)
(* read by the call that asked for it.                                     *)
THEOREM TypeCorrect == Spec => []TypeInv
<1>1. TypeInv /\ [Next]_vars => TypeInv'
  BY NextType
<1> QED
  BY InitType, <1>1, PTL DEF Spec

(* Every variable of the device, of its task and of algod keeps its type,  *)
(* and in particular no marker of an absent field gets into the            *)
(* parameters, however the numbers of an answer are rounded or cast.       *)
THEOREM TypeOKAlways == Spec => []TypeOK
<1>1. TypeInv => TypeOK
  BY DEF TypeInv
<1> QED
  BY TypeCorrect, <1>1, PTL

-----------------------------------------------------------------------------
(* What the pipeline holds on to from one stage to the next.               *)

(* Parameters fetched in this attempt, from the answer to their use. *)
Fresh(r) == r >= startRound \/ (r = 0 /\ "last-round" \in OptionalFields)

ParamsFresh ==
  /\ startRound <= round
  /\ reply \in ParamsReply =>
       \A last \in GetUint64Field(reply.last_round) : Fresh(last)
  /\ stage \in {"balance", "sendBalance"} => Fresh(params.last_round)
  /\ \A m \in inflight : m.live => Fresh(m.txn.fv)

(* Until the account is debited, the answer that the affordability check   *)
(* reads names its balance.                                                *)
Covered ==
  /\ reply \in BalanceReply /\ ~stale => reply.amount \in {Missing, funds}
  /\ UncoveredHasCause

PaymentInv ==
  /\ StoppedMeansAccepted
  /\ Covered
  /\ ParamsFresh

LEMMA InitPayment == Init => PaymentInv
BY ReplyKinds DEF Init, PaymentInv, StoppedMeansAccepted, Covered,
   UncoveredHasCause, ParamsFresh

LEMMA StoppedStep ==
  ASSUME TypeInv, StoppedMeansAccepted, [Next]_vars
  PROVE  StoppedMeansAccepted'
<1> USE DEF StoppedMeansAccepted, device, taskVars, algodVars, history, vars
<1>1. CASE ReceiveAccepted
  <2>1. reply.txn \in accepted
    BY <1>1, KindOfStage DEF ReceiveAccepted, TypeInv, ReplyMatches
  <2> QED
    BY <1>1, <2>1 DEF ReceiveAccepted
<1>2. CASE Accept
  BY <1>2 DEF Accept
<1>3. CASE HttpFails \/ ReceiveParams \/ ReceiveBalance \/ SendPayment
  BY <1>3 DEF HttpFails, ReceiveParams, ReceiveBalance, SendPayment, CannotPay, GiveUp
<1>4. CASE StartPolling \/ StartAttempt \/ NotDue \/ Wake
  BY <1>4 DEF StartPolling, StartAttempt, NotDue, Wake
<1>5. CASE AnswerParams \/ AnswerBalance \/ LoseOrRefuse \/ NextRound
  BY <1>5 DEF AnswerParams, AnswerBalance, LoseOrRefuse, NextRound
<1>8. CASE Confirm \/ Forget
  BY <1>8 DEF Confirm, Forget
<1>6. CASE WifiChanges \/ Tick \/ Reboot
  BY <1>6 DEF WifiChanges, Tick, Reboot
<1>7. CASE UNCHANGED vars
  BY <1>7
<1> QED
  BY <1>1, <1>2, <1>3, <1>4, <1>5, <1>6, <1>7, <1>8 DEF Next, Task, Algod

LEMMA AbandonedNotLive ==
  ASSUME TypeInv,
         NEW m \in {[n EXCEPT !.live = FALSE] : n \in inflight}
  PROVE  ~m.live /\ \E n \in inflight : n.txn = m.txn
BY DEF TypeInv, TypeOK

(* A check that passes on what algod answered passes on the account. *)
LEMMA CheckedFunds ==
  ASSUME TypeInv, Covered, ~stale, reply \in BalanceReply,
         NEW balance \in GetUint64Field(reply.amount), ~(balance < TotalCost(params)),
         funds < Exact, Amount + Fee(params) < UintMod
  PROVE  funds >= Amount + Fee(params)
<1>1. Fee(params) \in Nat /\ Amount \in Nat /\ funds \in Nat
  BY FeeType, MoneyAssumption DEF TypeInv, TypeOK, Uint64
<1>2. TotalCost(params) = Amount + Fee(params)
  BY TotalCostExact DEF TypeInv, TypeOK
<1>3. balance \in Nat
  BY GetFieldType, MoneyAssumption DEF Uint64
<1>4. CASE reply.amount = Missing
  BY <1>1, <1>2, <1>4 DEF GetUint64Field
<1>5. CASE reply.amount = funds
  BY <1>1, <1>2, <1>5, ReadExactly
<1> QED
  BY <1>4, <1>5 DEF Covered

LEMMA CoveredStep ==
  ASSUME TypeInv, Covered, [Next]_vars
  PROVE  Covered'
<1> USE DEF Covered, UncoveredHasCause, device, taskVars, algodVars, history, vars
<1>1. CASE SendPayment
  <2>1. CASE stage' = "submit"
    <3>1. reply \in BalanceReply
      BY <1>1, KindOfStage DEF SendPayment
    <3>2. PICK balance \in GetUint64Field(reply.amount) :
            ~(balance < TotalCost(params))
      BY <1>1, <2>1 DEF SendPayment, CannotPay, GiveUp
    <3>3. \A m \in inflight : ~m.live
      BY <1>1 DEF SendPayment, TypeInv, LiveAtSubmit
    <3>4. \A m \in inflight' : m.live => m.txn.fee = Fee(params)
      BY <1>1, <2>1, <3>3 DEF SendPayment, GiveUp, PaymentTxn
    <3>5. ~stale => \/ funds >= Amount + Fee(params)
                    \/ ~(funds < Exact)
                    \/ ~(Amount + Fee(params) < UintMod)
      BY <3>1, <3>2, CheckedFunds
    <3>6. /\ funds \in Nat /\ Amount + Fee(params) \in Nat
          /\ Exact \in Nat /\ UintMod \in Nat
      BY FeeType, MoneyAssumption, DoubleAssumption DEF TypeInv, TypeOK, Uint64
    <3>7. UncoveredHasCause'
      BY <1>1, <3>4, <3>5, <3>6 DEF SendPayment
    <3>8. reply' \notin BalanceReply
      BY <1>1, <2>1, ReplyKinds DEF SendPayment, GiveUp
    <3> QED
      BY <3>7, <3>8
  <2>2. CASE stage' # "submit"
    <3>1. inflight' = inflight /\ reply' = NoReply
      BY <1>1, <2>2 DEF SendPayment, GiveUp
    <3> QED
      BY <1>1, <3>1, ReplyKinds DEF SendPayment
  <2> QED
    BY <2>1, <2>2
<1>2. CASE Accept
  <2>1. reply' = reply \/ reply'.kind = "accepted"
    BY <1>2 DEF Accept
  <2> QED
    BY <1>2, <2>1, ReplyKinds DEF Accept
<1>3. CASE Confirm
  BY <1>3 DEF Confirm
<1>4. CASE AnswerBalance
  <2>1. \A m \in inflight : ~m.live
    BY <1>4 DEF AnswerBalance, TypeInv, LiveAtSubmit
  <2>2. reply'.amount \in {Missing, funds}
    BY <1>4 DEF AnswerBalance, Field
  <2> QED
    BY <1>4, <2>1, <2>2 DEF AnswerBalance
<1>5. CASE HttpFails
  <2>1. \A m \in inflight' : ~m.live
    BY <1>5, AbandonedNotLive DEF HttpFails
  <2> QED
    BY <1>5, <2>1, ReplyKinds DEF HttpFails, GiveUp
<1>6. CASE Reboot
  <2>1. \A m \in inflight' : ~m.live
    BY <1>6, AbandonedNotLive DEF Reboot
  <2> QED
    BY <1>6, <2>1, ReplyKinds DEF Reboot
<1>7. CASE AnswerParams
  BY <1>7, ReplyKinds DEF AnswerParams
<1>8. CASE ReceiveParams \/ ReceiveBalance \/ ReceiveAccepted
  BY <1>8, ReplyKinds DEF ReceiveParams, ReceiveBalance, ReceiveAccepted,
     GiveUp
<1>9. CASE StartPolling \/ StartAttempt \/ NotDue \/ Wake
  BY <1>9 DEF StartPolling, StartAttempt, NotDue, Wake
<1>10. CASE LoseOrRefuse \/ Forget \/ NextRound
  BY <1>10 DEF LoseOrRefuse, Forget, NextRound
<1>11. CASE WifiChanges \/ Tick
  BY <1>11 DEF WifiChanges, Tick
<1>12. CASE UNCHANGED vars
  BY <1>12
<1> QED
  BY <1>1, <1>2, <1>3, <1>4, <1>5, <1>6, <1>7, <1>8, <1>9, <1>10, <1>11,
     <1>12 DEF Next, Task, Algod

LEMMA FreshStep ==
  ASSUME TypeInv, ParamsFresh, [Next]_vars
  PROVE  ParamsFresh'
<1> USE DEF ParamsFresh, Fresh, device, taskVars, algodVars, history, vars
<1>1. round \in Nat /\ startRound \in Nat
  BY AlgodAssumption DEF TypeInv, TypeOK
<1>2. CASE AnswerParams
  <2>1. PICK r \in Field("last-round", round) : reply'.last_round = r
    BY <1>2 DEF AnswerParams
  <2>2. /\ r \in Maybe(0..MaxRound) /\ (r # Missing => r = round)
        /\ (r = Missing => "last-round" \in OptionalFields)
    BY <2>1 DEF Field, Maybe, TypeInv, TypeOK
  <2>3. ASSUME NEW last \in GetUint64Field(r)
        PROVE  Fresh(last)
    BY <1>1, <2>2, RoundRead
  <2> QED
    BY <1>2, <2>1, <2>3 DEF AnswerParams
<1>3. CASE ReceiveParams
  <2>1. reply \in ParamsReply
    BY <1>3, KindOfStage DEF ReceiveParams
  <2>2. reply' \notin ParamsReply
    BY <1>3, ReplyKinds DEF ReceiveParams, GiveUp
  <2> QED
    BY <1>3, <2>1, <2>2 DEF ReceiveParams, GiveUp
<1>4. CASE SendPayment
  <2>1. Fresh(PaymentTxn(params).fv)
    BY <1>4 DEF SendPayment, CannotPay, PaymentTxn
  <2>2. reply' \notin ParamsReply
    BY <1>4, ReplyKinds DEF SendPayment, CannotPay, GiveUp
  <2> QED
    BY <1>4, <2>1, <2>2 DEF SendPayment, CannotPay, GiveUp
<1>5. CASE Accept
  <2>1. reply' = reply \/ reply'.kind = "accepted"
    BY <1>5 DEF Accept
  <2> QED
    BY <1>5, <2>1, ReplyKinds DEF Accept
<1>6. CASE AnswerBalance
  BY <1>6, ReplyKinds DEF AnswerBalance
<1>7. CASE HttpFails
  <2>1. \A m \in inflight' : ~m.live
    BY <1>7, AbandonedNotLive DEF HttpFails
  <2> QED
    BY <1>7, <2>1, ReplyKinds DEF HttpFails, GiveUp
<1>13. CASE ReceiveBalance \/ ReceiveAccepted
  BY <1>13, ReplyKinds DEF ReceiveBalance, ReceiveAccepted, GiveUp
<1>8. CASE StartPolling \/ StartAttempt \/ NotDue \/ Wake
  BY <1>1, <1>8 DEF StartPolling, StartAttempt, NotDue, Wake, TypeInv,
     ReplyMatches, LiveAtSubmit
<1>9. CASE LoseOrRefuse \/ Confirm \/ Forget \/ NextRound
  BY <1>1, <1>9 DEF LoseOrRefuse, Confirm, Forget, NextRound
<1>10. CASE WifiChanges \/ Tick
  BY <1>10 DEF WifiChanges, Tick
<1>11. CASE Reboot
  <2>1. \A m \in inflight' : ~m.live
    BY <1>11, AbandonedNotLive DEF Reboot
  <2> QED
    BY <1>1, <1>11, <2>1, ReplyKinds DEF Reboot
<1>12. CASE UNCHANGED vars
  BY <1>12
<1> QED
  BY <1>2, <1>3, <1>4, <1>5, <1>6, <1>7, <1>8, <1>9, <1>10, <1>11, <1>12,
     <1>13 DEF Next, Task, Algod

LEMMA PaymentInvariant == Spec => []PaymentInv
<1>1. TypeInv /\ PaymentInv /\ [Next]_vars => PaymentInv'
  BY StoppedStep, CoveredStep, FreshStep DEF PaymentInv
<1> QED
  BY InitPayment, <1>1, TypeCorrect, PTL DEF Spec

(* The task stops only with the id of a payment that algod has accepted. *)
THEOREM StoppedMeansAcceptedAlways == Spec => []StoppedMeansAccepted
BY PaymentInvariant, PTL DEF PaymentInv

(* A payment that the account cannot pay is submitted only when the        *)
(* account was debited after the balance answer, its balance is 2^53 or    *)
(* more, or the sum of amount and fee wraps.                               *)
THEOREM UncoveredHasCauseAlways == Spec => []UncoveredHasCause
<1>1. PaymentInv => UncoveredHasCause
  BY DEF PaymentInv, Covered
<1> QED
  BY PaymentInvariant, <1>1, PTL

(* A payment being submitted carries the first round of this attempt. *)
THEOREM FreshParamsAlways == Spec => []FreshParams
<1>1. PaymentInv => FreshParams
  BY DEF PaymentInv, ParamsFresh, FreshParams, Fresh
<1> QED
  BY PaymentInvariant, <1>1, PTL

-----------------------------------------------------------------------------
(* Retry timing.                                                           *)

LEMMA ElapsedTick ==
  ASSUME NEW now \in 0..ClockMod-1, NEW then \in 0..ClockMod-1,
         ElapsedMs(now, then) + 1 < ClockMod
  PROVE  ElapsedMs(IF now = ClockMod - 1 THEN 0 ELSE now + 1, then)
           = ElapsedMs(now, then) + 1
BY ClockAssumption DEF ElapsedMs

LEMMA AgeStep ==
  ASSUME TypeInv, ClockMeasuresAge, [Next]_vars
  PROVE  ClockMeasuresAge'
<1> USE DEF ClockMeasuresAge, device, taskVars, algodVars, history, vars
<1>1. /\ clock \in 0..ClockMod-1 /\ lastAttemptMs \in 0..ClockMod-1
      /\ begun \in BOOLEAN /\ elapsed \in 0..MaxElapsed
  BY DEF TypeInv, TypeOK
<1>2. CASE Tick
  BY <1>1, <1>2, ElapsedTick, ClockAssumption DEF Tick
<1>3. CASE StartAttempt
  BY <1>1, <1>3, ClockAssumption DEF StartAttempt, ElapsedMs
<1>4. CASE HttpFails \/ ReceiveParams \/ ReceiveBalance \/ SendPayment
  BY <1>4 DEF HttpFails, ReceiveParams, ReceiveBalance, SendPayment, CannotPay, GiveUp
<1>5. CASE StartPolling \/ NotDue \/ Wake \/ ReceiveAccepted
  BY <1>5 DEF StartPolling, NotDue, Wake, ReceiveAccepted
<1>6. CASE AnswerParams \/ AnswerBalance \/ Accept \/ LoseOrRefuse
  BY <1>6 DEF AnswerParams, AnswerBalance, Accept, LoseOrRefuse
<1>7. CASE NextRound \/ WifiChanges \/ Reboot
  BY <1>7 DEF NextRound, WifiChanges, Reboot
<1>9. CASE Confirm \/ Forget
  BY <1>9 DEF Confirm, Forget
<1>8. CASE UNCHANGED vars
  BY <1>8
<1> QED
  BY <1>2, <1>3, <1>4, <1>5, <1>6, <1>7, <1>8, <1>9 DEF Next, Task, Algod

(* The 32-bit difference is the true age of the last attempt.              *)
THEOREM ClockMeasuresAgeAlways == Spec => []ClockMeasuresAge
<1>1. Init => ClockMeasuresAge
  BY DEF Init, ClockMeasuresAge
<1>2. TypeInv /\ ClockMeasuresAge /\ [Next]_vars => ClockMeasuresAge'
  BY AgeStep
<1> QED
  BY <1>1, <1>2, TypeCorrect, PTL DEF Spec

(* An attempt is skipped only when the last one is younger than RetryMs,   *)
(* and made early only when that one began at clock 0.                     *)
THEOREM RetryTimingAlways == Spec => RetryTiming
<1>1. ASSUME TypeInv, ClockMeasuresAge
      PROVE  /\ NotDue => begun /\ elapsed < RetryMs
             /\ StartAttempt => \/ ~begun
                                \/ elapsed >= RetryMs
                                \/ lastAttemptMs = 0
  <2>1. /\ clock \in 0..ClockMod-1 /\ lastAttemptMs \in 0..ClockMod-1
        /\ begun \in BOOLEAN /\ elapsed \in 0..MaxElapsed
    BY <1>1 DEF TypeInv, TypeOK
  <2> QED
    BY <1>1, <2>1, ClockAssumption
    DEF NotDue, StartAttempt, Due, ClockMeasuresAge
<1> QED
  BY <1>1, TypeCorrect, ClockMeasuresAgeAlways, PTL DEF RetryTiming

-----------------------------------------------------------------------------
(* A key or receiver that is not usable.                                   *)

NothingSent ==
  ~(keyMatches /\ receiverOK) =>
    /\ inflight = {} /\ accepted = {}
    /\ ~keyMatches => stage \notin {"sendBalance", "submit"}

(* A misconfigured device never asks algod to move money. *)
THEOREM MisconfiguredAlways == Spec => []MisconfiguredSendsNothing
<1>1. Init => NothingSent
  BY DEF Init, NothingSent
<1>2. ASSUME NothingSent, [Next]_vars
      PROVE  NothingSent'
  <2> USE <1>2 DEF NothingSent, device, taskVars, algodVars, history, vars
  <2>1. CASE SendPayment
    BY <2>1 DEF SendPayment, CannotPay, GiveUp
  <2>2. CASE HttpFails \/ ReceiveParams \/ ReceiveBalance \/ ReceiveAccepted
    BY <2>2 DEF HttpFails, ReceiveParams, ReceiveBalance, ReceiveAccepted,
                GiveUp
  <2>3. CASE StartPolling \/ StartAttempt \/ NotDue \/ Wake
    BY <2>3 DEF StartPolling, StartAttempt, NotDue, Wake
  <2>4. CASE AnswerParams \/ AnswerBalance \/ Accept \/ LoseOrRefuse
    BY <2>4 DEF AnswerParams, AnswerBalance, Accept, LoseOrRefuse
  <2>5. CASE NextRound \/ WifiChanges \/ Tick \/ Reboot
    BY <2>5 DEF NextRound, WifiChanges, Tick, Reboot
  <2>6. CASE Confirm \/ Forget
    BY <2>6 DEF Confirm, Forget
  <2>7. CASE UNCHANGED vars
    BY <2>7
  <2> QED
    BY <2>1, <2>2, <2>3, <2>4, <2>5, <2>6, <2>7 DEF Next, Task, Algod
<1>3. NothingSent => MisconfiguredSendsNothing
  BY DEF NothingSent, MisconfiguredSendsNothing
<1> QED
  BY <1>1, <1>2, <1>3, PTL DEF Spec

-----------------------------------------------------------------------------
(* Refinement of PaymentPromise.                                           *)

Offered == {m.txn : m \in inflight}

(* Giving up on a request does not take it back. *)
LEMMA AbandonedStillOffered ==
  ASSUME TypeInv
  PROVE  {m.txn : m \in {[n EXCEPT !.live = FALSE] : n \in inflight}} = Offered
<1> DEFINE Abandoned == {[n EXCEPT !.live = FALSE] : n \in inflight}
<1>1. \A m \in Abandoned : m.txn \in Offered
  BY AbandonedNotLive DEF Offered
<1>2. ASSUME NEW n \in inflight
      PROVE  n.txn \in {m.txn : m \in Abandoned}
  <2>1. [n EXCEPT !.live = FALSE] \in Abandoned
    OBVIOUS
  <2>2. [n EXCEPT !.live = FALSE].txn = n.txn
    BY DEF TypeInv, TypeOK
  <2> QED
    BY <2>1, <2>2
<1> QED
  BY <1>1, <1>2 DEF Offered

(* Taking one request away takes away its payment, unless the same payment *)
(* was also POSTed by another attempt.                                     *)
LEMMA OfferedRemove ==
  ASSUME NEW m \in inflight
  PROVE  {n.txn : n \in inflight \ {m}} \in {Offered, Offered \ {m.txn}}
<1>1. CASE \E n \in inflight \ {m} : n.txn = m.txn
  BY <1>1 DEF Offered
<1>2. CASE ~ \E n \in inflight \ {m} : n.txn = m.txn
  BY <1>2 DEF Offered
<1> QED
  BY <1>1, <1>2

LEMMA OfferedAdd ==
  ASSUME NEW t
  PROVE  {m.txn : m \in inflight \cup {[txn |-> t, live |-> TRUE]}}
           = Offered \cup {t}
<1>1. [txn |-> t, live |-> TRUE].txn = t
  OBVIOUS
<1> QED
  BY <1>1 DEF Offered

(* What waits in the pool was accepted. *)
PoolAccepted == pool \subseteq accepted

LEMMA PoolAcceptedAlways == Spec => []PoolAccepted
<1>1. Init => PoolAccepted
  BY DEF Init, PoolAccepted
<1>2. PoolAccepted /\ [Next]_vars => PoolAccepted'
  BY DEF Next, Task, Algod, PoolAccepted, device, taskVars, algodVars, history,
     vars, StartPolling, StartAttempt, NotDue, Wake, ReceiveParams,
     ReceiveBalance, SendPayment, ReceiveAccepted, GiveUp, HttpFails,
     AnswerParams, AnswerBalance, Accept, LoseOrRefuse, Confirm, Forget,
     NextRound, WifiChanges, Tick, Reboot
<1> QED
  BY <1>1, <1>2, PTL DEF Spec

LEMMA RefinementStep ==
  ASSUME TypeInv, PoolAccepted, [Next]_vars
  PROVE  [Promise!Next]_(Promise!vars)
<1> USE DEF device, taskVars, algodVars, history, vars, Promise!Next, Promise!vars
<1>1. CASE SendPayment
  <2>1. CASE stage' = "submit"
    <3>1. inflight' = inflight \cup {[txn |-> PaymentTxn(params), live |-> TRUE]}
      BY <1>1, <2>1 DEF SendPayment, CannotPay, GiveUp
    <3>2. Offered' = Offered \cup {PaymentTxn(params)}
      BY <3>1, OfferedAdd DEF Offered
    <3>3. PaymentTxn(params) \in Txns
      BY PaymentType DEF TypeInv, TypeOK
    <3> QED
      BY <1>1, <2>1, <3>2, <3>3 DEF SendPayment, CannotPay, Promise!Offer, Offered
  <2>2. CASE stage' # "submit"
    <3>1. stage = "sendBalance" /\ stage' = "delay"
      BY <1>1, <2>2 DEF SendPayment, CannotPay, GiveUp
    <3>2. inflight' = inflight /\ ledger' = ledger /\ accepted' = accepted
      BY <1>1, <2>2 DEF SendPayment, CannotPay, GiveUp
    <3> QED
      BY <3>1, <3>2
  <2> QED
    BY <2>1, <2>2
<1>2. CASE Accept
  <2>1. PICK m \in inflight : /\ inflight' = inflight \ {m}
                             /\ accepted' = accepted \cup {m.txn}
    BY <1>2 DEF Accept
  <2>2. Offered' \in {Offered, Offered \ {m.txn}}
    BY <2>1, OfferedRemove DEF Offered
  <2> QED
    BY <1>2, <2>1, <2>2 DEF Accept, Promise!Accept, Offered
<1>12. CASE Confirm
  <2>1. PICK t \in pool : ledger' = ledger \cup {t}
    BY <1>12 DEF Confirm
  <2>2. t \in accepted
    BY <2>1 DEF PoolAccepted
  <2>3. CASE t \in ledger
    BY <1>12, <2>1, <2>3 DEF Confirm
  <2>4. CASE t \notin ledger
    BY <1>12, <2>1, <2>2, <2>4 DEF Confirm, Promise!Pay
  <2> QED
    BY <2>3, <2>4
<1>13. CASE Forget
  BY <1>13 DEF Forget
<1>3. CASE LoseOrRefuse
  <2>1. PICK m \in inflight : inflight' = inflight \ {m}
    BY <1>3 DEF LoseOrRefuse
  <2>2. Offered' \in {Offered, Offered \ {m.txn}}
    BY <2>1, OfferedRemove DEF Offered
  <2> QED
    BY <1>3, <2>1, <2>2 DEF LoseOrRefuse, Promise!Drop, Offered
<1>4. CASE ReceiveAccepted
  <2>1. reply.txn \in accepted
    BY <1>4, KindOfStage DEF ReceiveAccepted, TypeInv, ReplyMatches
  <2> QED
    BY <1>4, <2>1 DEF ReceiveAccepted, Promise!Receipt
<1>5. CASE Reboot
  BY <1>5, AbandonedStillOffered DEF Reboot, Promise!Reset, Offered
<1>6. CASE HttpFails
  BY <1>6, AbandonedStillOffered DEF HttpFails, GiveUp, Waiting, Offered
<1>7. CASE ReceiveParams \/ ReceiveBalance
  BY <1>7 DEF ReceiveParams, ReceiveBalance, GiveUp
<1>8. CASE StartPolling \/ StartAttempt \/ NotDue \/ Wake
  BY <1>8 DEF StartPolling, StartAttempt, NotDue, Wake
<1>9. CASE AnswerParams \/ AnswerBalance \/ NextRound
  BY <1>9 DEF AnswerParams, AnswerBalance, NextRound
<1>10. CASE WifiChanges \/ Tick
  BY <1>10 DEF WifiChanges, Tick
<1>11. CASE UNCHANGED vars
  BY <1>11
<1> QED
  BY <1>1, <1>2, <1>3, <1>4, <1>5, <1>6, <1>7, <1>8, <1>9, <1>10, <1>11,
     <1>12, <1>13 DEF Next, Task, Algod

(* The task, algod and resets together implement the abstract promise: a   *)
(* receipt only for a payment accepted, none made that was not accepted,   *)
(* none accepted that was not offered, no offer while a receipt is held.   *)
THEOREM ImplementsPromise == Spec => KeepsPromise
<1>1. Init => Promise!Init
  BY DEF Init, Promise!Init
<1>2. TypeInv /\ PoolAccepted /\ [Next]_vars => [Promise!Next]_(Promise!vars)
  BY RefinementStep
<1> QED
  BY <1>1, <1>2, TypeCorrect, PoolAcceptedAlways, PTL DEF Spec, KeepsPromise, Promise!Spec
=============================================================================
