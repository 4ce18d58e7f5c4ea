---------------------------- MODULE AlgorandTask ----------------------------
(***************************************************************************)
(* The `algorand' FreeRTOS task of src/main.cpp together with the three    *)
(* stages of src/algorand.cpp that it drives, and the part of algod and of *)
(* the ledger those stages talk to.                                        *)
(*                                                                         *)
(* The task waits for an IP address and then runs the pipeline params ->   *)
(* balance -> payment until one run of it succeeds.  A run ("attempt")     *)
(* starts when lastAttemptMs is 0 or at least RetryMs old, on a            *)
(* millisecond clock that wraps at ClockMod (`unsigned long', 32 bits).    *)
(*                                                                         *)
(* Every HTTP call is two steps: algod answers, the task reads the answer; *)
(* HttpFails may happen instead of, or after, the first.  A submitted      *)
(* transaction lives on in `inflight' when the task has given up on it.    *)
(* algod takes it into its pool (this is what the 200 answer says); from   *)
(* there it enters the ledger, or algod forgets it.                        *)
(***************************************************************************)
EXTENDS Integers, FiniteSets

CONSTANTS
  RetryMs,        \* 30000: minimum age of an attempt before the next one
  ClockMod,       \* 2^32: `unsigned long' on the ESP32-C3
  UintMod,        \* 2^64: uint64_t
  Exact,          \* 2^53: a double holds every integer up to this one
  Spacings,       \* 1, 2, 4, ... 2^11: distances of doubles below 2^64
  Validity,       \* kTxnValidityWindow, 1000 rounds
  Amount,         \* PAYMENT_AMOUNT_MICROALGOS
  Fees, MinFees,  \* what algod may report as "fee" (per byte) and "min-fee"
  OptionalFields, \* JSON number fields that an answer may lack
  GenesisReplies, \* what the genesis id and hash of an answer may be
  InitialFunds,   \* what the account holds at the beginning
  MaxElapsed,     \* bound: time from one attempt's start to the next check
  MaxRound,       \* bound: rounds of the ledger
  MaxReboots      \* bound: resets of the device

ASSUME ClockAssumption ==
  /\ RetryMs \in Nat /\ ClockMod \in Nat /\ MaxElapsed \in Nat
  /\ 0 < RetryMs /\ RetryMs <= MaxElapsed /\ MaxElapsed < ClockMod

Uint64 == 0..UintMod-1

ASSUME MoneyAssumption ==
  /\ UintMod \in Nat /\ Amount \in Uint64 /\ InitialFunds \in Uint64
  /\ Fees \subseteq Uint64 /\ MinFees \subseteq Uint64

ASSUME DoubleAssumption ==
  /\ Exact \in Nat \ {0} /\ Exact <= UintMod
  /\ Spacings \subseteq Nat \ {0} /\ 1 \in Spacings
  /\ \A s \in Spacings : s = 1 \/ (s % 2 = 0 /\ s \div 2 \in Spacings)
  /\ \A n \in Uint64 : \E s \in Spacings : n < s * Exact

ASSUME AlgodAssumption ==
  /\ OptionalFields \subseteq {"fee", "min-fee", "last-round", "amount"}
  /\ GenesisReplies \subseteq {"valid", "malformed", "missing"}
  /\ MaxRound \in Nat /\ Validity \in Nat /\ MaxRound + Validity < Exact
  /\ MaxReboots \in Nat

VARIABLES
  keyMatches,     \* verifyCredentials(): the key belongs to ALGORAND_ADDRESS
  receiverOK,     \* PAYMENT_RECEIVER decodes
  hasIp,          \* what wifiManagerIsConnected() returns
  clock,          \* esp_timer_get_time() / 1000 as `unsigned long'
  stage,          \* where the task is
  lastAttemptMs,  \* local of algorandTask
  params,         \* AlgodTxnParams local of algorandTask
  txId,           \* txId[128]: "" or the id of the transaction it names
  reply,          \* answer to the pending HTTP call, or NoReply
  inflight,       \* POSTed transactions algod has not handled
  round, funds,   \* algod: the last round, the balance as of it
  pool, ledger,   \* algod: payments waiting for a block, payments in a block
  accepted,       \* every payment the pool has ever taken
  reboots,        \* resets so far
  begun, elapsed, \* history: an attempt has begun; true time since then
  startRound,     \* history: the round when the current attempt began
  stale           \* history: `funds' moved after the last balance answer

device     == <<keyMatches, receiverOK, hasIp>>
taskVars   == <<stage, lastAttemptMs, params, txId>>
algodVars  == <<inflight, round, funds, pool, ledger, accepted>>
history    == <<begun, elapsed, startRound, stale>>
vars == <<device, clock, taskVars, reply, algodVars, reboots, history>>

Missing == -1   \* a JSON number field that is absent or not a number
NoReply == [kind |-> "none"]
NoTxn   == [fee |-> 0, fv |-> -1, lv |-> -1]  \* the empty string in txId

Genesis == {"valid", "malformed", "missing"}

(* AlgodTxnParams; the genesis id and hash matter only as usable or not. *)
Params == [fee : Uint64, min_fee : Uint64, last_round : 0..MaxRound,
           genesis : Genesis]
NoParams == [fee |-> 0, min_fee |-> 0, last_round |-> 0,
             genesis |-> "missing"]

(* Ed25519 is deterministic, so equal fields mean the same transaction id. *)
Txns == [fee : Uint64, fv : 0..MaxRound, lv : 0..MaxRound + Validity]

Maybe(S) == S \cup {Missing}
ParamsReply   == [kind : {"params"}, fee : Maybe(Fees),
                  min_fee : Maybe(MinFees), last_round : Maybe(0..MaxRound),
                  genesis : Genesis]
BalanceReply  == [kind : {"balance"}, amount : Maybe(0..InitialFunds)]
AcceptedReply == [kind : {"accepted"}, txn : Txns]
Replies == {NoReply} \cup ParamsReply \cup BalanceReply \cup AcceptedReply

Waiting == {"params", "balance", "sendBalance", "submit"}
Stages  == Waiting \cup {"waitIp", "check", "delay", "stopped"}

TypeOK ==
  /\ keyMatches \in BOOLEAN /\ receiverOK \in BOOLEAN
  /\ hasIp \in BOOLEAN /\ clock \in 0..ClockMod-1 /\ stage \in Stages
  /\ lastAttemptMs \in 0..ClockMod-1 /\ params \in Params
  /\ txId \in Txns \cup {NoTxn} /\ reply \in Replies
  /\ inflight \subseteq [txn : Txns, live : BOOLEAN]
  /\ round \in 0..MaxRound /\ funds \in 0..InitialFunds
  /\ pool \subseteq Txns /\ ledger \subseteq Txns /\ accepted \subseteq Txns
  /\ reboots \in 0..MaxReboots
  /\ begun \in BOOLEAN /\ elapsed \in 0..MaxElapsed
  /\ startRound \in 0..MaxRound /\ stale \in BOOLEAN

-----------------------------------------------------------------------------
(* Arithmetic of the code.                                                 *)

(* Mutant: a signed difference. *)
ElapsedMsSigned(now, then) == now - then

(* now - then on `unsigned long', both already below ClockMod. *)
ElapsedMs(now, then) ==
  IF now >= then THEN now - then ELSE now - then + ClockMod

(* a + b on uint64_t, both already below UintMod. *)
AddUint64(a, b) == IF a + b < UintMod THEN a + b ELSE a + b - UintMod

MaxUint64(a, b) == IF a > b THEN a ELSE b

(* cJSON parses a number to the nearest double, ties to the even one:      *)
(* below 2^53 * s and not below half of that, doubles are s apart.         *)
Spacing(n) ==
  CHOOSE s \in Spacings : /\ n < s * Exact
                          /\ \A t \in Spacings : n < t * Exact => s <= t

NearestDouble(n) ==
  LET s    == Spacing(n)
      rest == n % s
      odd  == (n \div s) % 2 = 1
  IN  IF 2 * rest > s \/ (2 * rest = s /\ odd) THEN n - rest + s ELSE n - rest

(* Mutant: the marker of an absent field leaks out. *)
GetUint64FieldRaw(item) == {item}

(* get_uint64_field: an absent field is logged and read as 0; otherwise    *)
(* valuedouble is cast to uint64_t, which is undefined at 2^64 and above.  *)
GetUint64Field(item) ==
  IF item = Missing THEN {0}
  ELSE IF NearestDouble(item) \in Uint64 THEN {NearestDouble(item)}
  ELSE Uint64

Fee(p)       == MaxUint64(p.fee, p.min_fee)

(* Mutant: the fee is forgotten. *)
TotalCostNoFee(p) == Amount

TotalCost(p) == AddUint64(Fee(p), Amount)

(* Mutant: no validity window. *)
PaymentTxnExpired(p) ==
  [fee |-> Fee(p), fv |-> p.last_round, lv |-> p.last_round]

(* The last round does not wrap: rounds stay far below 2^53.               *)
PaymentTxn(p) ==
  [fee |-> Fee(p), fv |-> p.last_round, lv |-> p.last_round + Validity]

-----------------------------------------------------------------------------
Init ==
  /\ keyMatches \in BOOLEAN /\ receiverOK \in BOOLEAN
  /\ hasIp = FALSE /\ clock = 0
  /\ stage = "waitIp" /\ lastAttemptMs = 0
  /\ params = NoParams /\ txId = NoTxn
  /\ reply = NoReply /\ inflight = {}
  /\ round = 0 /\ funds = InitialFunds
  /\ pool = {} /\ ledger = {} /\ accepted = {}
  /\ reboots = 0
  /\ begun = FALSE /\ elapsed = 0 /\ startRound = 0 /\ stale = FALSE

(* while (!wifiManagerIsConnected()) vTaskDelay(100) ends. *)
StartPolling ==
  /\ stage = "waitIp" /\ hasIp
  /\ stage' = "check"
  /\ UNCHANGED <<device, clock, lastAttemptMs, params, txId, reply, algodVars,
                 reboots, history>>

(* Mutant: only the first attempt is made. *)
DueFirst == lastAttemptMs = 0

Due == lastAttemptMs = 0 \/ ElapsedMs(clock, lastAttemptMs) >= RetryMs

(* One look at the clock: start an attempt (GET params) ... *)
StartAttempt ==
  /\ stage = "check" /\ Due
  /\ stage' = "params" /\ lastAttemptMs' = clock
  /\ begun' = TRUE /\ elapsed' = 0 /\ startRound' = round
  /\ UNCHANGED <<device, clock, params, txId, reply, algodVars, reboots, stale>>

(* ... or sleep for another second. *)
NotDue ==
  /\ stage = "check" /\ ~Due
  /\ stage' = "delay"
  /\ UNCHANGED <<device, clock, lastAttemptMs, params, txId, reply, algodVars,
                 reboots, history>>

Wake ==
  /\ stage = "delay"
  /\ stage' = "check"
  /\ UNCHANGED <<device, clock, lastAttemptMs, params, txId, reply, algodVars,
                 reboots, history>>

(* Mutant: a failed submission counts as success. *)
GiveUpStops ==
  /\ stage' = (IF stage = "submit" THEN "stopped" ELSE "delay")
  /\ reply' = NoReply /\ UNCHANGED <<lastAttemptMs, params, txId>>

(* Mutant: the pipeline goes on when the parameters could not be fetched. *)
GiveUpGoesOn ==
  /\ stage' = (IF stage = "params" THEN "balance" ELSE "delay")
  /\ reply' = NoReply /\ UNCHANGED <<lastAttemptMs, params, txId>>

(* The attempt is over; the if falls through to vTaskDelay(1000). *)
GiveUp ==
  /\ stage' = "delay" /\ reply' = NoReply
  /\ UNCHANGED <<lastAttemptMs, params, txId>>

(* A call that fails for any reason the code tells apart only in its logs: *)
(* no client, transport error, timeout, status other than 200, empty body, *)
(* unparsable body, no txId.  algod may still handle what was POSTed.      *)
HttpFails ==
  /\ stage \in Waiting
  /\ GiveUp
  /\ inflight' = {[m EXCEPT !.live = FALSE] : m \in inflight}
  /\ UNCHANGED <<device, clock, round, funds, pool, ledger, accepted, reboots,
                 history>>

(* Stage 1: the parameters are copied out only when the genesis fields are *)
(* present.                                                                *)
ReceiveParams ==
  /\ stage = "params" /\ reply # NoReply
  /\ IF reply.genesis = "missing"
     THEN GiveUp
     ELSE /\ \E fee \in GetUint64Field(reply.fee),
                min \in GetUint64Field(reply.min_fee),
                last \in GetUint64Field(reply.last_round) :
               params' = [fee |-> fee, min_fee |-> min, last_round |-> last,
                          genesis |-> reply.genesis]
          /\ stage' = "balance" /\ reply' = NoReply
          /\ UNCHANGED <<lastAttemptMs, txId>>
  /\ UNCHANGED <<device, clock, algodVars, reboots, history>>

(* Stage 2 only logs the balance; stage 3 begins with verifyCredentials(). *)
ReceiveBalance ==
  /\ stage = "balance" /\ reply # NoReply
  /\ IF keyMatches
     THEN /\ stage' = "sendBalance" /\ reply' = NoReply
          /\ UNCHANGED <<lastAttemptMs, params, txId>>
     ELSE GiveUp
  /\ UNCHANGED <<device, clock, algodVars, reboots, history>>

(* Mutant: an error of algorandDecodeAddress(PAYMENT_RECEIVER) is ignored. *)
CannotPayUnchecked(balance) ==
  balance < TotalCost(params) \/ params.genesis = "malformed"

(* The checks of stage 3 that end it before anything is signed. *)
CannotPay(balance) ==
  \/ balance < TotalCost(params)
  \/ ~receiverOK
  \/ params.genesis = "malformed"

(* Stage 3: check the second balance, decode, sign, POST. *)
SendPayment ==
  /\ stage = "sendBalance" /\ reply # NoReply
  /\ \E balance \in GetUint64Field(reply.amount) :
       IF CannotPay(balance)
       THEN GiveUp /\ UNCHANGED inflight
       ELSE /\ stage' = "submit" /\ reply' = NoReply
            /\ inflight' = inflight \cup
                             {[txn |-> PaymentTxn(params), live |-> TRUE]}
            /\ UNCHANGED <<lastAttemptMs, params, txId>>
  /\ UNCHANGED <<device, clock, round, funds, pool, ledger, accepted, reboots,
                 history>>

(* Mutant: the id is reported without an answer of algod. *)
ReceiveAcceptedBlindly ==
  /\ stage = "submit"
  /\ txId' = PaymentTxn(params) /\ stage' = "stopped" /\ reply' = NoReply
  /\ UNCHANGED <<device, clock, lastAttemptMs, params, algodVars, reboots,
                 history>>

(* algod answered 200 with a txId: break, vTaskDelete. *)
ReceiveAccepted ==
  /\ stage = "submit" /\ reply # NoReply
  /\ txId' = reply.txn /\ stage' = "stopped" /\ reply' = NoReply
  /\ UNCHANGED <<device, clock, lastAttemptMs, params, algodVars, reboots,
                 history>>

-----------------------------------------------------------------------------
(* algod and the network (external).                                       *)

Field(name, value) ==
  IF name \in OptionalFields THEN {value, Missing} ELSE {value}

AnswerParams ==
  /\ stage = "params" /\ reply = NoReply
  /\ \E f \in Fees, m \in MinFees, g \in GenesisReplies :
       \E fee \in Field("fee", f), min \in Field("min-fee", m),
          last \in Field("last-round", round) :
         reply' = [kind |-> "params", fee |-> fee, min_fee |-> min,
                   last_round |-> last, genesis |-> g]
  /\ UNCHANGED <<device, clock, taskVars, algodVars, reboots, history>>

AnswerBalance ==
  /\ stage \in {"balance", "sendBalance"} /\ reply = NoReply
  /\ \E a \in Field("amount", funds) :
       reply' = [kind |-> "balance", amount |-> a]
  /\ stale' = FALSE
  /\ UNCHANGED <<device, clock, taskVars, algodVars, reboots, begun, elapsed,
                 startRound>>

(* A payment can enter the pool, and from there the next block, when it is *)
(* valid for the next round, its sender has the funds, and it is neither   *)
(* pending nor in the ledger.  (A real pool refuses more: a low fee, a bad *)
(* signature, funds that pending payments need.  This is LoseOrRefuse.)    *)
Payable(t) ==
  /\ t.fv <= round + 1 /\ round + 1 <= t.lv
  /\ funds >= Amount + t.fee

Acceptable(t) == t \notin pool \cup ledger /\ Payable(t)

Accept ==
  /\ \E m \in inflight :
       /\ Acceptable(m.txn)
       /\ inflight' = inflight \ {m}
       /\ pool' = pool \cup {m.txn}
       /\ accepted' = accepted \cup {m.txn}
       /\ reply' = IF m.live THEN [kind |-> "accepted", txn |-> m.txn]
                             ELSE reply
  /\ UNCHANGED <<device, clock, taskVars, round, funds, ledger, reboots,
                 history>>

(* The request never arrives, or algod refuses it: the caller sees HttpFails. *)
LoseOrRefuse ==
  /\ \E m \in inflight : inflight' = inflight \ {m}
  /\ UNCHANGED <<device, clock, taskVars, reply, round, funds, pool, ledger,
                 accepted, reboots, history>>

(* The next block takes a payment of the pool; balances show it from then. *)
Confirm ==
  /\ \E t \in pool : /\ Payable(t)
                      /\ pool' = pool \ {t} /\ ledger' = ledger \cup {t}
                      /\ funds' = funds - (Amount + t.fee)
  /\ stale' = TRUE
  /\ UNCHANGED <<device, clock, taskVars, reply, inflight, round, accepted,
                 reboots, begun, elapsed, startRound>>

(* The pool drops a payment: its rounds are over, the pool is full, the    *)
(* node restarts.  Nobody tells the device.                                *)
Forget ==
  /\ \E t \in pool : pool' = pool \ {t}
  /\ UNCHANGED <<device, clock, taskVars, reply, inflight, round, funds, ledger,
                 accepted, reboots, history>>

NextRound ==
  /\ round < MaxRound
  /\ round' = round + 1
  /\ UNCHANGED <<device, clock, taskVars, reply, inflight, funds, pool, ledger,
                 accepted, reboots, history>>

-----------------------------------------------------------------------------
(* The device: the WiFi link comes and goes, time passes, power is lost.   *)

(* No address is obtained within the first millisecond after a reset, and  *)
(* the task never looks again once it has seen one: what a lost link does  *)
(* to its calls is HttpFails.                                              *)
WifiChanges ==
  /\ stage = "waitIp" /\ clock > 0
  /\ hasIp' = ~hasIp
  /\ UNCHANGED <<keyMatches, receiverOK, clock, taskVars, reply, algodVars,
                 reboots, history>>

Tick ==
  /\ begun => elapsed < MaxElapsed
  /\ clock' = IF clock = ClockMod - 1 THEN 0 ELSE clock + 1
  /\ elapsed' = IF begun THEN elapsed + 1 ELSE 0
  /\ UNCHANGED <<device, taskVars, reply, algodVars, reboots, begun,
                 startRound, stale>>

(* Everything is in RAM: a reset forgets the task, not what it POSTed. *)
Reboot ==
  /\ reboots < MaxReboots
  /\ reboots' = reboots + 1
  /\ hasIp' = FALSE /\ clock' = 0
  /\ stage' = "waitIp" /\ lastAttemptMs' = 0
  /\ params' = NoParams /\ txId' = NoTxn /\ reply' = NoReply
  /\ inflight' = {[m EXCEPT !.live = FALSE] : m \in inflight}
  /\ begun' = FALSE /\ elapsed' = 0 /\ startRound' = 0 /\ stale' = FALSE
  /\ UNCHANGED <<keyMatches, receiverOK, round, funds, pool, ledger, accepted>>

-----------------------------------------------------------------------------
Task  == \/ StartPolling \/ StartAttempt \/ NotDue \/ Wake
         \/ ReceiveParams \/ ReceiveBalance \/ SendPayment \/ ReceiveAccepted
Algod == \/ AnswerParams \/ AnswerBalance \/ Accept \/ LoseOrRefuse
         \/ Confirm \/ Forget \/ NextRound
Next  == Task \/ HttpFails \/ Algod \/ WifiChanges \/ Tick \/ Reboot

Spec == Init /\ [][Next]_vars

(* The scheduler runs the task, the timer runs, and no call waits for ever *)
(* (timeout_ms = 15000): every pending call ends one way or the other.     *)
CallEnds == HttpFails \/ ReceiveParams \/ ReceiveBalance \/ SendPayment
              \/ ReceiveAccepted
Fairness == /\ WF_vars(StartAttempt \/ NotDue) /\ WF_vars(Wake)
            /\ WF_vars(Tick) /\ WF_vars(CallEnds) /\ WF_vars(StartPolling)

FairSpec == Spec /\ Fairness

-----------------------------------------------------------------------------
(* Safety.                                                                 *)

(* The task stops (break, vTaskDelete) only with the id of a payment that  *)
(* algod has taken into its pool: main.cpp gives up retrying on no less    *)
(* and, it must be said, waits for no more.                                *)
StoppedMeansAccepted == stage = "stopped" => txId \in accepted

(* A payment that the account cannot pay is submitted only for a cause:    *)
(* the account was debited after algod had answered the balance call (by   *)
(* an earlier payment the task never heard of again), or the balance is    *)
(* too large for a double to hold, or amount plus fee wraps at 2^64.       *)
UncoveredHasCause ==
  \A m \in inflight :
    m.live /\ funds < Amount + m.txn.fee =>
      \/ stale
      \/ funds >= Exact
      \/ Amount + m.txn.fee >= UintMod

(* The payment being submitted was built from parameters fetched in this   *)
(* attempt: its first round is none before the attempt, although `params'  *)
(* survives from one attempt to the next.  (A missing last-round is 0.)    *)
FreshParams ==
  \A m \in inflight :
    m.live => (m.txn.fv >= startRound
                 \/ (m.txn.fv = 0 /\ "last-round" \in OptionalFields))

(* With a key that does not belong to the address, or an address that does *)
(* not decode, no request that moves money ever leaves the device.         *)
MisconfiguredSendsNothing ==
  ~(keyMatches /\ receiverOK) => inflight = {} /\ accepted = {}

(* lastAttemptMs and the clock, which wrap, measure the true age of the    *)
(* last attempt; 0 stands for `no attempt yet'.                            *)
ClockMeasuresAge ==
  IF begun THEN ElapsedMs(clock, lastAttemptMs) = elapsed
           ELSE lastAttemptMs = 0

(* Whenever the task looks at the clock it starts an attempt if the last   *)
(* one is RetryMs old or there was none, and it starts one earlier only    *)
(* when that attempt began at the instant the clock read 0.                *)
RetryTiming ==
  [][/\ NotDue => begun /\ elapsed < RetryMs
     /\ StartAttempt => \/ ~begun
                        \/ elapsed >= RetryMs
                        \/ lastAttemptMs = 0]_vars

(* README.md:9: the device signs and submits `a configured payment'. *)
PaymentOnce == Cardinality(ledger) <= 1

-----------------------------------------------------------------------------
(* What the task promises its user (PaymentPromise).                       *)

Promise == INSTANCE PaymentPromise WITH
  Payments  <- Txns,
  NoReceipt <- NoTxn,
  offered   <- {m.txn : m \in inflight},
  accepted  <- accepted,
  paid      <- ledger,
  receipt   <- IF stage = "stopped" THEN txId ELSE NoTxn

(* The task and algod together implement PaymentPromise. *)
KeepsPromise == Promise!Spec

-----------------------------------------------------------------------------
(* Liveness.                                                               *)

(* A failed attempt is followed by another one, whenever the clock wraps;  *)
(* only a reset can come between.                                          *)
RetryForever == (stage = "delay") ~> (stage \in {"params", "waitIp"})

(* algod refuses the request that is being waited for: it has the same     *)
(* payment already, its rounds are over, or the funds are gone.            *)
Refused ==
  /\ stage = "submit" /\ reply = NoReply
  /\ \E m \in inflight : m.live /\ ~Acceptable(m.txn)

(* The configuration is right, and from some time on there is an address   *)
(* and no call fails unless algod refuses it.                              *)
EventuallyHealthy ==
  /\ <>[](hasIp /\ keyMatches /\ receiverOK)
  /\ <>[][~LoseOrRefuse /\ (HttpFails => Refused)]_vars

(* Once the network is healthy for good, algod accepts a payment: this is  *)
(* where the task's duty ends, it never looks again at what the pool does. *)
EventuallyAccepted == EventuallyHealthy => <>(accepted # {})
=============================================================================
