-------------------------- MODULE WifiManager_proofs -------------------------
(***************************************************************************)
(* Proofs about WifiManager, for all intervals, lags and queue lengths:    *)
(* the types, the age of an attempt while offline, what the LED shows      *)
(* after a refresh, and the agreement of hasIp with the link.              *)
(***************************************************************************)
EXTENDS WifiManager, SequenceTheorems, TLAPS

-----------------------------------------------------------------------------
(* Differences of clock readings.                                          *)

Reading == 0..ClockMod-1

(* The difference of two readings is a reading. *)
LEMMA MinusReading ==
  ASSUME NEW a \in Reading, NEW b \in Reading
  PROVE  Minus(a, b) \in Reading /\ Minus(a, a) = 0
BY WifiAssumption DEF Minus, Reading

(* millis() one tick later. *)
Later(c) == IF c = ClockMod - 1 THEN 0 ELSE c + 1

(* A tick makes a difference one larger, but for the largest, which wraps. *)
LEMMA MinusLater ==
  ASSUME NEW a \in Reading, NEW b \in Reading
  PROVE  /\ Later(a) \in Reading
         /\ Minus(a, b) # ClockMod - 1 => Minus(Later(a), b) = Minus(a, b) + 1
         /\ Minus(a, b) = ClockMod - 1 => Minus(Later(a), b) = 0
BY WifiAssumption DEF Minus, Reading, Later

-----------------------------------------------------------------------------
(* Types.                                                                  *)

(* Before the stack is up nothing happens: the first event has room.       *)
StartsQuiet ==
  pc = "init" => queue = <<>> /\ link = "off" /\ ~dhcp /\ handler = "idle"

TypeInv == TypeOK /\ StartsQuiet

LEMMA PostOK ==
  ASSUME TypeOK, NEW e \in Events, Post(e)
  PROVE  queue' \in Seq(Events) /\ Len(queue') <= MaxQueue
<1>1. queue \in Seq(Events) /\ queue' = Append(queue, e) /\ Len(queue) < MaxQueue
  BY DEF TypeOK, Post
<1> QED  BY <1>1, WifiAssumption

LEMMA TailOK ==
  ASSUME TypeOK, queue # <<>>, queue' = Tail(queue)
  PROVE  queue' \in Seq(Events) /\ Len(queue') <= MaxQueue
BY WifiAssumption DEF TypeOK

LEMMA ConnectOK ==
  ASSUME TypeOK, Connect
  PROVE  link' \in Links
BY DEF TypeOK, Connect, Links

LEMMA ShowModeOK ==
  ASSUME TypeOK, NEW m \in Modes, ShowMode(m)
  PROVE  ledMode' \in Modes /\ ledOn' \in BOOLEAN
BY DEF TypeOK, ShowMode

LEMMA DriveOK ==
  ASSUME TypeOK, Drive
  PROVE  ledOn' \in BOOLEAN
BY DEF TypeOK, Drive, Modes, ConnectingLevel, DisconnectedLevel

(* The steps of task main keep the types. *)
LEMMA TypeMain ==
  ASSUME TypeInv, Main
  PROVE  TypeInv'
<1> USE DEF TypeInv, StartsQuiet, TypeOK, Goto, Labels, Modes, Links, shared, locals, driver
<1>1. CASE InitWifiStack
  <2>1. queue' = <<"STA_START">>
    BY <1>1 DEF InitWifiStack
  <2> QED  BY <1>1, <2>1, WifiAssumption DEF InitWifiStack, Events
<1>2. CASE StampAttempt
  BY <1>2 DEF StampAttempt
<1>3. CASE ClearHard
  BY <1>3, ZenonT(60) DEF ClearHard
<1>4. CASE BeginConnect
  BY <1>4, ConnectOK DEF BeginConnect
<1>5. CASE StampReconnect
  BY <1>5 DEF StampReconnect
<1>6. CASE Wake
  <2>1. 0 \in 0..MaxLag
    BY WifiAssumption
  <2>2. lag' \in 0..MaxLag /\ disturbed' \in BOOLEAN
    BY <1>6, <2>1, Zenon DEF Wake
  <2>3. pc' = "readIp" /\ pc' \in Labels
    BY <1>6 DEF Wake
  <2>4. UNCHANGED <<clock, shared, lastReconnectAttemptMs, locals, handler, driver>>
    BY <1>6 DEF Wake
  <2> QED  BY <2>2, <2>3, <2>4
<1>7. CASE ReadIp
  BY <1>7 DEF ReadIp
<1>8. CASE ReadClock
  BY <1>8 DEF ReadClock
<1>9. CASE ReadAttempt
  BY <1>9, WifiAssumption DEF ReadAttempt
<1>10. CASE ReadHard
  BY <1>10, ZenonT(60) DEF ReadHard
<1>11. CASE SetMode
  BY <1>11 DEF SetMode
<1>12. CASE WriteMode
  BY <1>12 DEF WriteMode
<1>13. CASE SetPin
  BY <1>13 DEF SetPin
<1>14. CASE ReadMode
  BY <1>14 DEF ReadMode
<1>15. CASE Drive
  <2>1. pc' = "checkIp" /\ mode' = "Connecting"
    BY <1>15 DEF Drive
  <2>2. UNCHANGED <<clock, hasIp, lastAttemptFailedHard, ledMode, lastConnectionAttemptMs,
                    lastReconnectAttemptMs, caller, after, now, timedOut, handler, driver,
                    lag, disturbed>>
    BY <1>15 DEF Drive
  <2>3. ledOn' \in BOOLEAN
    BY <1>15, DriveOK
  <2>4. pc' \in Labels /\ mode' \in Modes /\ pc' # "init"
    BY <2>1
  <2>5. StartsQuiet'
    BY <2>4
  <2>6. TypeOK'
    BY <2>2, <2>3, <2>4
  <2> QED  BY <2>5, <2>6
<1>16. CASE CheckIp
  BY <1>16 DEF CheckIp
<1>17. CASE CheckClock
  BY <1>17 DEF CheckClock
<1> QED
  BY <1>1, <1>2, <1>3, <1>4, <1>5, <1>6, <1>7, <1>8, <1>9, <1>10, <1>11, <1>12,
     <1>13, <1>14, <1>15, <1>16, <1>17 DEF Main

(* The handlers, the network and the clock keep the types. *)
LEMMA TypeRest ==
  ASSUME TypeInv, SysEvt \/ Network \/ Tick
  PROVE  TypeInv'
<1> USE DEF TypeInv, StartsQuiet, TypeOK, Modes, Links, shared, locals, driver
<1>1. CASE HandleStart
  BY <1>1, TailOK DEF HandleStart
<1>2. CASE HandleLost
  BY <1>2, TailOK, ShowModeOK DEF HandleLost
<1>3. CASE HandlerConnect
  BY <1>3, ConnectOK DEF HandlerConnect
<1>4. CASE HandleConnected
  BY <1>4, TailOK DEF HandleConnected
<1>5. CASE HandleGotIp
  BY <1>5, TailOK, ShowModeOK DEF HandleGotIp
<1>6. CASE Associate
  BY <1>6, PostOK DEF Associate, Events
<1>7. CASE AttemptFails
  BY <1>7, PostOK, WifiAssumption, ZenonT(60) DEF AttemptFails, Events
<1>8. CASE LinkLost
  BY <1>8, PostOK, WifiAssumption, ZenonT(60) DEF LinkLost, Events
<1>9. CASE DhcpDone
  BY <1>9, PostOK, ZenonT(60) DEF DhcpDone, Events
<1>10. CASE Tick
  BY <1>10, WifiAssumption DEF Tick
<1> QED
  BY <1>1, <1>2, <1>3, <1>4, <1>5, <1>6, <1>7, <1>8, <1>9, <1>10 DEF SysEvt, Network

LEMMA TypeStutter ==
  ASSUME TypeInv, UNCHANGED vars
  PROVE  TypeInv'
BY DEF TypeInv, StartsQuiet, TypeOK, vars, shared, locals, driver

LEMMA TypeInit == Init => TypeInv
<1>1. 0 \in 0..ClockMod-1 /\ 0 \in 0..MaxLag
  BY WifiAssumption
<1>2. <<>> \in Seq(Events) /\ Len(<<>>) <= MaxQueue
  BY WifiAssumption
<1> QED
  BY <1>1, <1>2, ZenonT(60) DEF Init, TypeInv, StartsQuiet, TypeOK, Modes, Labels, Links

LEMMA TypeAlways == Spec => []TypeInv
<1>1. TypeInv /\ [Next]_vars => TypeInv'
  BY TypeMain, TypeRest, TypeStutter DEF Next
<1> QED  BY <1>1, TypeInit, PTL DEF Spec

(* Every variable of both tasks and of the driver keeps its type; the      *)
(* queue never holds more than MaxQueue events and no stamp leaves the     *)
(* width of the clock (wifi_manager.cpp:37-45).                            *)
THEOREM TypeCorrect == Spec => []TypeOK
<1>1. TypeInv => TypeOK
  BY DEF TypeInv
<1> QED  BY <1>1, TypeAlways, PTL

-----------------------------------------------------------------------------
(* The link and hasIp.                                                     *)

(* From the event after i on, no loss, no address, is in the queue.        *)
NoLossAfter(q, i)    == \A j \in DOMAIN q : j > i => q[j] \notin Lost
NoAddressAfter(q, i) == \A j \in DOMAIN q : j > i => q[j] # "GOT_IP"

(* The events q will leave hasIp, now ip, set, or clear.                   *)
WillHaveIp(ip, q) ==
  \/ ip /\ NoLossAfter(q, 0)
  \/ \E i \in DOMAIN q : q[i] = "GOT_IP" /\ NoLossAfter(q, i)

WillHaveNoIp(ip, q) ==
  \/ ~ip /\ NoAddressAfter(q, 0)
  \/ \E i \in DOMAIN q : q[i] \in Lost /\ NoAddressAfter(q, i)

(* The strengthening: what the queue leads to, not hasIp, is what the link *)
(* says.                                                                   *)
QueueTellsLink ==
  /\ link = "up" => WillHaveIp(hasIp, queue)
  /\ link # "up" /\ ~stale => WillHaveNoIp(hasIp, queue)

LEMMA AppendKeeps ==
  ASSUME NEW q \in Seq(Events), NEW e \in Events, NEW ip \in BOOLEAN
  PROVE  /\ e \notin Lost /\ WillHaveIp(ip, q) => WillHaveIp(ip, Append(q, e))
         /\ e # "GOT_IP" /\ WillHaveNoIp(ip, q) => WillHaveNoIp(ip, Append(q, e))
         /\ e = "GOT_IP" => WillHaveIp(ip, Append(q, e))
         /\ e \in Lost => WillHaveNoIp(ip, Append(q, e))
<1> DEFINE r == Append(q, e)
<1>1. Len(q) \in Nat /\ DOMAIN q = 1..Len(q) /\ DOMAIN r = 1..Len(q)+1
  OBVIOUS
<1>2. r[Len(q) + 1] = e /\ \A j \in 1..Len(q) : r[j] = q[j]
  OBVIOUS
<1> HIDE DEF r
<1>3. ASSUME e \notin Lost, WillHaveIp(ip, q) PROVE WillHaveIp(ip, r)
  BY <1>1, <1>2, <1>3 DEF WillHaveIp, NoLossAfter
<1>4. ASSUME e # "GOT_IP", WillHaveNoIp(ip, q) PROVE WillHaveNoIp(ip, r)
  BY <1>1, <1>2, <1>4 DEF WillHaveNoIp, NoAddressAfter
<1>5. e = "GOT_IP" => WillHaveIp(ip, r)
  BY <1>1, <1>2 DEF WillHaveIp, NoLossAfter
<1>6. e \in Lost => WillHaveNoIp(ip, r)
  BY <1>1, <1>2 DEF WillHaveNoIp, NoAddressAfter
<1> QED  BY <1>3, <1>4, <1>5, <1>6 DEF r

(* Handling the first event sets ip as the event says, or leaves it.       *)
LEMMA TailKeeps ==
  ASSUME NEW q \in Seq(Events), q # <<>>, NEW ip \in BOOLEAN, NEW jp \in BOOLEAN,
         \/ Head(q) = "GOT_IP" /\ jp
         \/ Head(q) \in Lost /\ ~jp
         \/ Head(q) \notin Lost /\ Head(q) # "GOT_IP" /\ jp = ip
  PROVE  /\ WillHaveIp(ip, q) => WillHaveIp(jp, Tail(q))
         /\ WillHaveNoIp(ip, q) => WillHaveNoIp(jp, Tail(q))
<1> DEFINE r == Tail(q)
<1>1. Len(q) \in Nat /\ DOMAIN q = 1..Len(q) /\ Len(q) >= 1 /\ DOMAIN r = 1..Len(q)-1
  OBVIOUS
<1>2. Head(q) = q[1] /\ \A j \in 1..Len(q)-1 : r[j] = q[j + 1]
  OBVIOUS
<1> HIDE DEF r
<1>3. \A j \in 1..Len(q) : j # 1 => j - 1 \in 1..Len(q)-1 /\ r[j - 1] = q[j]
  BY <1>1, <1>2
<1>4. "GOT_IP" \notin Lost
  BY DEF Lost
<1>5. \A i \in 0..Len(q) : NoLossAfter(q, i) => \A k \in 0..Len(q) : k + 1 >= i => NoLossAfter(r, k)
  BY <1>1, <1>2 DEF NoLossAfter
<1>6. \A i \in 0..Len(q) : NoAddressAfter(q, i) => \A k \in 0..Len(q) : k + 1 >= i => NoAddressAfter(r, k)
  BY <1>1, <1>2 DEF NoAddressAfter
<1>7. ASSUME WillHaveIp(ip, q) PROVE WillHaveIp(jp, r)
  <2>1. CASE ip /\ NoLossAfter(q, 0)
    <3>1. NoLossAfter(r, 0)
      BY <1>1, <1>5, <2>1
    <3>2. q[1] \notin Lost
      BY <1>1, <2>1 DEF NoLossAfter
    <3> QED  BY <1>2, <2>1, <3>1, <3>2 DEF WillHaveIp
  <2>2. CASE \E i \in DOMAIN q : q[i] = "GOT_IP" /\ NoLossAfter(q, i)
    <3>1. PICK i \in 1..Len(q) : q[i] = "GOT_IP" /\ NoLossAfter(q, i)
      BY <1>1, <2>2
    <3>2. CASE i = 1
      BY <1>1, <1>2, <1>4, <1>5, <3>1, <3>2 DEF WillHaveIp
    <3>3. CASE i # 1
      BY <1>1, <1>3, <1>5, <3>1, <3>3 DEF WillHaveIp
    <3> QED  BY <3>2, <3>3
  <2> QED  BY <1>7, <2>1, <2>2 DEF WillHaveIp
<1>8. ASSUME WillHaveNoIp(ip, q) PROVE WillHaveNoIp(jp, r)
  <2>1. CASE ~ip /\ NoAddressAfter(q, 0)
    <3>1. NoAddressAfter(r, 0)
      BY <1>1, <1>6, <2>1
    <3>2. q[1] # "GOT_IP"
      BY <1>1, <2>1 DEF NoAddressAfter
    <3> QED  BY <1>2, <2>1, <3>1, <3>2 DEF WillHaveNoIp
  <2>2. CASE \E i \in DOMAIN q : q[i] \in Lost /\ NoAddressAfter(q, i)
    <3>1. PICK i \in 1..Len(q) : q[i] \in Lost /\ NoAddressAfter(q, i)
      BY <1>1, <2>2
    <3>2. CASE i = 1
      BY <1>1, <1>2, <1>4, <1>6, <3>1, <3>2 DEF WillHaveNoIp
    <3>3. CASE i # 1
      BY <1>1, <1>3, <1>6, <3>1, <3>3 DEF WillHaveNoIp
    <3> QED  BY <3>2, <3>3
  <2> QED  BY <1>8, <2>1, <2>2 DEF WillHaveNoIp
<1> QED  BY <1>7, <1>8 DEF r

(* A step that leaves queue and hasIp alone, and does not bring the link   *)
(* up or down.                                                             *)
LEMMA LinkUndisturbed ==
  ASSUME QueueTellsLink, UNCHANGED <<hasIp, queue, stale>>, link' = "up" <=> link = "up"
  PROVE  QueueTellsLink'
BY DEF QueueTellsLink

LEMMA ConnectUndisturbed ==
  ASSUME Connect
  PROVE  link' = "up" <=> link = "up"
BY DEF Connect

LEMMA LinkMain ==
  ASSUME TypeInv, QueueTellsLink, Main
  PROVE  QueueTellsLink'
<1> USE DEF shared, driver
<1>1. CASE InitWifiStack
  <2>1. queue \in Seq(Events) /\ "STA_START" \in Events /\ hasIp \in BOOLEAN
    BY DEF TypeInv, TypeOK, Events
  <2>2. link = "off" /\ link' = "down" /\ UNCHANGED <<hasIp, stale>>
    BY <1>1 DEF InitWifiStack, TypeInv, StartsQuiet
  <2>3. ~stale => WillHaveNoIp(hasIp, Append(queue, "STA_START"))
    BY <2>1, <2>2, AppendKeeps DEF QueueTellsLink
  <2> QED  BY <1>1, <2>2, <2>3 DEF InitWifiStack, QueueTellsLink
<1>2. CASE BeginConnect
  <2>1. UNCHANGED <<hasIp, queue, stale>> /\ Connect
    BY <1>2 DEF BeginConnect
  <2> QED  BY <2>1, ConnectUndisturbed, LinkUndisturbed
<1>3. CASE ~InitWifiStack /\ ~BeginConnect
  <2>1. UNCHANGED <<hasIp, queue, stale, link>>
    BY <1>3 DEF Main, StampAttempt, ClearHard, StampReconnect, Wake, ReadIp, ReadClock,
                ReadAttempt, ReadHard, SetMode, WriteMode, SetPin, ReadMode, Drive,
                CheckIp, CheckClock
  <2> QED  BY <2>1, LinkUndisturbed
<1> QED  BY <1>1, <1>2, <1>3

LEMMA LinkSysEvt ==
  ASSUME TypeInv, QueueTellsLink, SysEvt
  PROVE  QueueTellsLink'
<1> USE DEF shared, driver
<1>0. queue \in Seq(Events) /\ hasIp \in BOOLEAN
  BY DEF TypeInv, TypeOK
<1>1. CASE HandlerConnect
  <2>1. UNCHANGED <<hasIp, queue, stale>> /\ Connect
    BY <1>1 DEF HandlerConnect
  <2> QED  BY <2>1, ConnectUndisturbed, LinkUndisturbed
<1>2. CASE HandleStart \/ HandleLost \/ HandleConnected \/ HandleGotIp
  <2>1. queue # <<>> /\ queue' = Tail(queue) /\ UNCHANGED <<link, stale>>
    BY <1>2 DEF HandleStart, HandleLost, HandleConnected, HandleGotIp
  <2>2. hasIp' \in BOOLEAN
    BY <1>0, <1>2 DEF HandleStart, HandleLost, HandleConnected, HandleGotIp
  <2>3. \/ Head(queue) = "GOT_IP" /\ hasIp'
        \/ Head(queue) \in Lost /\ ~hasIp'
        \/ Head(queue) \notin Lost /\ Head(queue) # "GOT_IP" /\ hasIp' = hasIp
    BY <1>2 DEF HandleStart, HandleLost, HandleConnected, HandleGotIp, Lost
  <2>4. /\ WillHaveIp(hasIp, queue) => WillHaveIp(hasIp', queue')
        /\ WillHaveNoIp(hasIp, queue) => WillHaveNoIp(hasIp', queue')
    BY <1>0, <2>1, <2>2, <2>3, TailKeeps
  <2> QED  BY <2>1, <2>4 DEF QueueTellsLink
<1> QED  BY <1>1, <1>2 DEF SysEvt

LEMMA LinkNetwork ==
  ASSUME TypeInv, QueueTellsLink, Network \/ Tick
  PROVE  QueueTellsLink'
<1> USE DEF shared, driver, Post
<1>0. queue \in Seq(Events) /\ hasIp \in BOOLEAN /\ "CONNECTED" \in Events
        /\ "GOT_IP" \in Events /\ Lost \subseteq Events /\ "GOT_IP" \notin Lost
        /\ "CONNECTED" \notin Lost
  BY DEF TypeInv, TypeOK, Events, Lost
<1>1. CASE Associate
  <2>1. link = "connecting" /\ link' = "assoc" /\ queue' = Append(queue, "CONNECTED")
          /\ UNCHANGED <<hasIp, stale>>
    BY <1>1 DEF Associate
  <2> QED  BY <1>0, <2>1, AppendKeeps DEF QueueTellsLink
<1>2. CASE AttemptFails \/ LinkLost
  <2>1. link' = "down" /\ UNCHANGED hasIp
    BY <1>2 DEF AttemptFails, LinkLost
  <2>2. PICK e \in Losses : queue' = Append(queue, e)
    BY <1>2 DEF AttemptFails, LinkLost
  <2>3. e \in Lost
    BY WifiAssumption
  <2> QED  BY <1>0, <2>1, <2>2, <2>3, AppendKeeps DEF QueueTellsLink
<1>3. CASE DhcpDone
  <2>1. queue' = Append(queue, "GOT_IP") /\ UNCHANGED hasIp
    BY <1>3 DEF DhcpDone
  <2>2. WillHaveIp(hasIp', queue')
    BY <1>0, <2>1, AppendKeeps
  <2>3. link' # "up" => stale'
    BY <1>3 DEF DhcpDone
  <2> QED  BY <2>2, <2>3 DEF QueueTellsLink
<1>4. CASE Tick
  BY <1>4, LinkUndisturbed DEF Tick
<1> QED  BY <1>1, <1>2, <1>3, <1>4 DEF Network

(* When no event is left hasIp and the link agree, but for a GOT_IP that   *)
(* came after the loss of its link (wifi_manager.cpp:159-199).             *)
THEOREM BeliefSettlesAlways == Spec => []BeliefSettles
<1>1. Init => QueueTellsLink
  <2>1. Init => WillHaveNoIp(hasIp, queue) /\ link = "off"
    BY DEF Init, WillHaveNoIp, NoAddressAfter
  <2> QED  BY <2>1 DEF QueueTellsLink
<1>2. TypeInv /\ QueueTellsLink /\ [Next]_vars => QueueTellsLink'
  <2>1. ASSUME QueueTellsLink, UNCHANGED vars PROVE QueueTellsLink'
    BY <2>1, LinkUndisturbed DEF vars, shared, driver
  <2> QED  BY <2>1, LinkMain, LinkSysEvt, LinkNetwork DEF Next
<1>3. TypeInv /\ QueueTellsLink => BeliefSettles
  BY DEF QueueTellsLink, BeliefSettles, WillHaveIp, WillHaveNoIp
<1> QED  BY <1>1, <1>2, <1>3, TypeAlways, PTL DEF Spec

-----------------------------------------------------------------------------
(* The age of an attempt.                                                  *)

LoopPlaces == {"readIp", "readClock", "readAttempt", "readHard", "readMode", "drive",
               "checkIp", "checkClock"}
ModePlaces == {"setMode", "writeMode", "setPin"}

(* Where main is in beginWifi() and who called it.                         *)
PlaceOK ==
  /\ caller = "begin" => \/ pc \in {"init", "stampAttempt", "clearHard", "connect", "stampReconnect"}
                         \/ after = "connect"
  /\ after = "connect" <=> pc = "connect" \/ (pc \in ModePlaces /\ after = "connect")
  /\ pc \in {"init", "stampReconnect"} => caller = "begin"

(* The loop has been entered and has not looked at its clock since.        *)
Unchecked == pc \in LoopPlaces \/ (pc \in ModePlaces /\ after = "readMode")

(* The longest time since the loop looked at hasIp and its clock.          *)
SinceCheck == IF Unchecked THEN MaxLag + lag ELSE lag

ReconnectAge == Minus(clock, lastReconnectAttemptMs)

(* The attempt is younger than the last look; or that look, k ago, found   *)
(* the last retry, of age q now, younger than ReconnectMs, and the attempt *)
(* is not much older than the retry.                                       *)
Young(a, q, k) == a <= k \/ (q < ReconnectMs + k /\ a <= q + 2 * MaxLag)

(* The strengthening, by where main is.                                    *)
YoungInv ==
  /\ caller = "begin" => AttemptAge <= lag
  /\ ~hasIp /\ pc = "stampAttempt" => AttemptAge < ReconnectMs + 3 * MaxLag + lag
  /\ ~hasIp /\ pc # "stampAttempt" => Young(AttemptAge, ReconnectAge, SinceCheck)

LEMMA PlaceInit == Init => PlaceOK
BY DEF Init, PlaceOK, ModePlaces

LEMMA PlaceStep ==
  ASSUME TypeInv, PlaceOK, [Next]_vars
  PROVE  PlaceOK'
<1> USE DEF PlaceOK, ModePlaces, Goto, locals
<1>1. CASE UNCHANGED <<pc, caller, after>>
  BY <1>1
<1>2. CASE Main
  <2>1. CASE SetMode \/ SetPin
    BY <2>1 DEF SetMode, SetPin, TypeInv, TypeOK
  <2>2. CASE CheckIp \/ CheckClock \/ ReadIp
    BY <2>2 DEF CheckIp, CheckClock, ReadIp, TypeInv, TypeOK
  <2>3. CASE BeginConnect
    BY <2>3 DEF BeginConnect, TypeInv, TypeOK
  <2>4. CASE InitWifiStack \/ StampAttempt \/ ClearHard \/ StampReconnect
    BY <2>4 DEF InitWifiStack, StampAttempt, ClearHard, StampReconnect, TypeInv, TypeOK
  <2>5. CASE Wake \/ ReadClock \/ ReadAttempt \/ ReadHard \/ WriteMode \/ ReadMode \/ Drive
    BY <2>5 DEF Wake, ReadClock, ReadAttempt, ReadHard, WriteMode, ReadMode, Drive, TypeInv, TypeOK
  <2> QED  BY <1>2, <2>1, <2>2, <2>3, <2>4, <2>5 DEF Main
<1>3. CASE SysEvt \/ Network \/ Tick
  BY <1>1, <1>3 DEF SysEvt, Network, HandleStart, HandleLost, HandlerConnect, HandleConnected,
                    HandleGotIp, Associate, AttemptFails, LinkLost, DhcpDone, Tick
<1>4. CASE UNCHANGED vars
  BY <1>1, <1>4 DEF vars
<1> QED  BY <1>2, <1>3, <1>4 DEF Next

LEMMA AgesReading ==
  ASSUME TypeInv
  PROVE  /\ AttemptAge \in 0..ClockMod-1 /\ ReconnectAge \in 0..ClockMod-1
         /\ lag \in 0..MaxLag /\ ReconnectMs \in Nat \ {0} /\ MaxLag \in Nat /\ ClockMod \in Nat
         /\ ReconnectMs + 4 * MaxLag <= AttemptTimeoutMs
         /\ AttemptTimeoutMs + MaxLag < ClockMod /\ AttemptTimeoutMs \in Nat
<1>1. /\ clock \in Reading /\ lastConnectionAttemptMs \in Reading
      /\ lastReconnectAttemptMs \in Reading /\ lag \in 0..MaxLag
  BY DEF TypeInv, TypeOK, Reading
<1>2. AttemptAge \in Reading /\ ReconnectAge \in Reading
  BY <1>1, MinusReading DEF AttemptAge, ReconnectAge
<1> QED  BY <1>1, <1>2, WifiAssumption DEF Reading

(* A step of main that writes neither stamp and does not get past a look.  *)
LEMMA YoungUndisturbed ==
  ASSUME TypeInv, YoungInv,
         UNCHANGED <<clock, lastConnectionAttemptMs, lastReconnectAttemptMs, lag, caller>>,
         ~hasIp' => ~hasIp,
         pc # "stampAttempt", pc' # "stampAttempt", Unchecked => Unchecked'
  PROVE  YoungInv'
<1>1. AttemptAge' = AttemptAge /\ ReconnectAge' = ReconnectAge /\ caller' = caller /\ lag' = lag
  BY DEF AttemptAge, ReconnectAge, Minus
<1> DEFINE a == AttemptAge  q == ReconnectAge  k == SinceCheck  l == SinceCheck'
<1>2. a \in Int /\ q \in Int /\ k \in Int /\ l \in Int /\ k <= l
        /\ ReconnectMs \in Int /\ MaxLag \in Int
  BY <1>1, AgesReading DEF SinceCheck
<1> HIDE DEF a, q, k, l
<1>3. Young(a, q, k) => Young(a, q, l)
  BY <1>2 DEF Young
<1> QED  BY <1>1, <1>3 DEF YoungInv, a, q, k, l

LEMMA YoungTick ==
  ASSUME TypeInv, YoungInv, Tick
  PROVE  YoungInv'
<1>1. /\ clock' = Later(clock) /\ lag' = lag + 1 /\ lag < MaxLag
      /\ UNCHANGED <<lastConnectionAttemptMs, lastReconnectAttemptMs, hasIp, pc, caller, after>>
  BY DEF Tick, Later, shared, locals
<1>2. /\ clock \in Reading /\ lastConnectionAttemptMs \in Reading
      /\ lastReconnectAttemptMs \in Reading
  BY DEF TypeInv, TypeOK, Reading
<1>3. /\ AttemptAge # ClockMod - 1 => AttemptAge' = AttemptAge + 1
      /\ ReconnectAge # ClockMod - 1 => ReconnectAge' = ReconnectAge + 1
  BY <1>1, <1>2, MinusLater DEF AttemptAge, ReconnectAge
<1>4. SinceCheck' = SinceCheck + 1 /\ SinceCheck \in Nat /\ SinceCheck < 2 * MaxLag
  BY <1>1, AgesReading DEF SinceCheck, Unchecked
<1>5. ASSUME caller = "begin" PROVE AttemptAge' <= lag'
  BY <1>1, <1>3, <1>5, AgesReading DEF YoungInv
<1>6. ASSUME ~hasIp, pc = "stampAttempt" PROVE AttemptAge' < ReconnectMs + 3 * MaxLag + lag'
  BY <1>1, <1>3, <1>6, AgesReading DEF YoungInv
<1>7. ASSUME ~hasIp, pc # "stampAttempt" PROVE Young(AttemptAge', ReconnectAge', SinceCheck')
  BY <1>1, <1>3, <1>4, <1>7, AgesReading DEF YoungInv, Young
<1> QED  BY <1>1, <1>5, <1>6, <1>7 DEF YoungInv

(* The handlers: a loss begins a new attempt, an address ends the wait.    *)
LEMMA YoungSysEvt ==
  ASSUME TypeInv, YoungInv, SysEvt \/ Network
  PROVE  YoungInv'
<1> USE DEF shared, locals, driver
<1>1. UNCHANGED <<clock, lastReconnectAttemptMs, lag, pc, caller, after>>
  BY DEF SysEvt, Network, HandleStart, HandleLost, HandlerConnect, HandleConnected,
         HandleGotIp, Associate, AttemptFails, LinkLost, DhcpDone
<1>2. SinceCheck' = SinceCheck /\ ReconnectAge' = ReconnectAge
  BY <1>1 DEF SinceCheck, Unchecked, ReconnectAge, Minus
<1>3. CASE HandleLost
  <2>1. AttemptAge' = 0
    BY <1>1, <1>3, MinusReading DEF HandleLost, AttemptAge, TypeInv, TypeOK, Reading
  <2>2. Young(AttemptAge', ReconnectAge', SinceCheck')
    BY <1>2, <2>1, AgesReading DEF Young, SinceCheck
  <2>3. AttemptAge' <= lag' /\ AttemptAge' < ReconnectMs + 3 * MaxLag + lag'
    BY <1>1, <2>1, AgesReading
  <2> QED  BY <2>2, <2>3 DEF YoungInv
<1>4. CASE ~HandleLost
  <2>1. lastConnectionAttemptMs' = lastConnectionAttemptMs /\ (~hasIp' => ~hasIp)
    BY <1>4 DEF SysEvt, Network, HandleStart, HandlerConnect, HandleConnected,
                HandleGotIp, Associate, AttemptFails, LinkLost, DhcpDone
  <2>2. AttemptAge' = AttemptAge
    BY <1>1, <2>1 DEF AttemptAge, Minus
  <2> QED  BY <1>1, <1>2, <2>1, <2>2 DEF YoungInv
<1> QED  BY <1>3, <1>4

LEMMA YoungMain ==
  ASSUME TypeInv, PlaceOK, YoungInv, Main
  PROVE  YoungInv'
<1> USE DEF shared, locals, driver, Goto
<1>0. clock \in Reading /\ lastConnectionAttemptMs \in Reading /\ lastReconnectAttemptMs \in Reading
  BY DEF TypeInv, TypeOK, Reading
<1>1. CASE InitWifiStack
  <2>1. /\ pc = "init" /\ pc' = "stampAttempt" /\ caller = "begin" /\ caller' = caller
        /\ UNCHANGED <<clock, lastConnectionAttemptMs, lag>>
    BY <1>1 DEF InitWifiStack, PlaceOK
  <2>2. AttemptAge' = AttemptAge
    BY <2>1 DEF AttemptAge, Minus
  <2> QED  BY <2>1, <2>2, AgesReading, WifiAssumption DEF YoungInv
<1>2. CASE StampAttempt
  <2>1. pc' = "clearHard" /\ lag' = lag /\ lastReconnectAttemptMs' = lastReconnectAttemptMs
          /\ clock' = clock
    BY <1>2 DEF StampAttempt
  <2>2. AttemptAge' = 0
    BY <1>0, <1>2, MinusReading DEF StampAttempt, AttemptAge
  <2>3. ~Unchecked'
    BY <2>1 DEF Unchecked, LoopPlaces, ModePlaces
  <2> QED  BY <2>1, <2>2, <2>3, AgesReading DEF YoungInv, Young, SinceCheck
<1>3. CASE StampReconnect
  <2>1. caller' = "loop" /\ pc' = "sleep" /\ lag' = lag /\ AttemptAge' = AttemptAge
    BY <1>3 DEF StampReconnect, AttemptAge, Minus
  <2>2. AttemptAge <= lag
    BY <1>3 DEF StampReconnect, PlaceOK, YoungInv
  <2> QED  BY <2>1, <2>2, AgesReading DEF YoungInv, Young, SinceCheck, Unchecked, LoopPlaces, ModePlaces
<1>4. CASE Wake
  <2>1. /\ pc = "sleep" /\ pc' = "readIp" /\ lag' = 0 /\ UNCHANGED <<hasIp, caller>>
        /\ AttemptAge' = AttemptAge /\ ReconnectAge' = ReconnectAge
    BY <1>4 DEF Wake, AttemptAge, ReconnectAge, Minus
  <2>2. caller # "begin"
    BY <2>1 DEF PlaceOK, ModePlaces
  <2>3. SinceCheck = lag /\ SinceCheck' = MaxLag
    BY <2>1, AgesReading DEF SinceCheck, Unchecked, LoopPlaces, ModePlaces
  <2> QED  BY <2>1, <2>2, <2>3, AgesReading DEF YoungInv, Young
<1>5. CASE CheckIp
  <2>1. /\ pc = "checkIp" /\ pc' = IF hasIp THEN "sleep" ELSE "checkClock"
        /\ UNCHANGED <<clock, lag, hasIp, caller, lastConnectionAttemptMs, lastReconnectAttemptMs>>
    BY <1>5 DEF CheckIp
  <2>2. CASE hasIp
    BY <2>1, <2>2 DEF YoungInv, AttemptAge, Minus
  <2>3. CASE ~hasIp
    BY <2>1, <2>3, YoungUndisturbed DEF Unchecked, LoopPlaces
  <2> QED  BY <2>2, <2>3
<1>6. CASE CheckClock
  <2>1. /\ pc = "checkClock" /\ caller # "begin" /\ AttemptAge' = AttemptAge
        /\ UNCHANGED <<hasIp, lag, caller>>
    BY <1>6 DEF CheckClock, AttemptAge, Minus, PlaceOK, ModePlaces
  <2>2. SinceCheck = MaxLag + lag
    BY <2>1 DEF SinceCheck, Unchecked, LoopPlaces
  <2>3. CASE ReconnectAge < ReconnectMs
    <3>1. pc' = "sleep" /\ ReconnectAge' = ReconnectAge
      BY <1>6, <2>3 DEF CheckClock, ReconnectAge, Minus
    <3>2. SinceCheck' = lag
      BY <2>1, <3>1 DEF SinceCheck, Unchecked, LoopPlaces, ModePlaces
    <3> QED  BY <2>1, <2>2, <2>3, <3>1, <3>2, AgesReading DEF YoungInv, Young
  <2>4. CASE ~(ReconnectAge < ReconnectMs)
    <3>1. pc' = "stampAttempt"
      BY <1>6, <2>4 DEF CheckClock, ReconnectAge
    <3>2. ASSUME ~hasIp PROVE AttemptAge < ReconnectMs + 3 * MaxLag + lag
      BY <2>1, <2>2, <3>2, AgesReading, WifiAssumption DEF YoungInv, Young
    <3> QED  BY <2>1, <3>1, <3>2 DEF YoungInv
  <2> QED  BY <2>3, <2>4
<1>7. CASE \/ ClearHard \/ BeginConnect \/ ReadIp \/ ReadClock \/ ReadAttempt \/ ReadHard
           \/ SetMode \/ WriteMode \/ SetPin \/ ReadMode \/ Drive
  <2>1. /\ UNCHANGED <<clock, lastConnectionAttemptMs, lastReconnectAttemptMs, lag, caller, hasIp>>
        /\ pc # "stampAttempt"
    BY <1>7 DEF ClearHard, BeginConnect, ReadIp, ReadClock, ReadAttempt, ReadHard,
                SetMode, WriteMode, SetPin, ReadMode, Drive
  <2>2. CASE ClearHard \/ BeginConnect
    BY <2>1, <2>2, YoungUndisturbed DEF ClearHard, BeginConnect, Unchecked, LoopPlaces, ModePlaces
  <2>3. CASE ReadIp \/ ReadHard \/ ReadClock \/ ReadAttempt
    <3>1. pc \in {"readIp", "readHard", "readClock", "readAttempt"}
      BY <2>3 DEF ReadIp, ReadHard, ReadClock, ReadAttempt
    <3>2. after = "readMode" /\ after' = after
      BY <2>3, <3>1 DEF ReadIp, ReadHard, ReadClock, ReadAttempt, PlaceOK, ModePlaces, TypeInv, TypeOK
    <3>3. pc' \in LoopPlaces \/ pc' = "setMode"
      BY <2>3 DEF ReadIp, ReadHard, ReadClock, ReadAttempt, LoopPlaces
    <3> QED  BY <2>1, <3>2, <3>3, YoungUndisturbed DEF Unchecked, LoopPlaces, ModePlaces
  <2>4. CASE SetMode \/ SetPin \/ WriteMode
    <3>1. /\ pc \in ModePlaces /\ after' = after
          /\ pc' = after \/ pc' \in ModePlaces
      BY <2>4 DEF SetMode, SetPin, WriteMode, ModePlaces
    <3>2. Unchecked => after = "readMode"
      BY <3>1 DEF Unchecked, LoopPlaces, ModePlaces
    <3> QED
      BY <2>1, <3>1, <3>2, YoungUndisturbed DEF Unchecked, LoopPlaces, ModePlaces, TypeInv, TypeOK
  <2>5. CASE ReadMode \/ Drive
    BY <2>1, <2>5, YoungUndisturbed DEF ReadMode, Drive, Unchecked, LoopPlaces
  <2> QED  BY <1>7, <2>2, <2>3, <2>4, <2>5
<1> QED  BY <1>1, <1>2, <1>3, <1>4, <1>5, <1>6, <1>7 DEF Main

LEMMA YoungAlways == Spec => [](TypeInv /\ PlaceOK /\ YoungInv)
<1>1. Init => YoungInv
  <2>1. Init => AttemptAge = 0 /\ lag = 0 /\ pc = "init"
    BY WifiAssumption DEF Init, AttemptAge, Minus
  <2> QED  BY <2>1, WifiAssumption DEF YoungInv, Young, SinceCheck, Unchecked, LoopPlaces, ModePlaces
<1>2. TypeInv /\ PlaceOK /\ YoungInv /\ [Next]_vars => YoungInv'
  <2>1. ASSUME YoungInv, UNCHANGED vars PROVE YoungInv'
    BY <2>1 DEF YoungInv, Young, vars, shared, locals, AttemptAge, ReconnectAge, Minus,
                SinceCheck, Unchecked
  <2> QED  BY <2>1, YoungMain, YoungSysEvt, YoungTick DEF Next
<1> QED  BY <1>1, <1>2, TypeAlways, PlaceInit, PlaceStep, PTL DEF Spec

(* While there is no address the attempt is younger than a retry and four  *)
(* lags of the loop, so the 20 s of wifi_manager.cpp:31 are not reached.   *)
THEOREM AttemptStaysYoungAlways == Spec => []AttemptStaysYoung
<1>1. TypeInv /\ PlaceOK /\ YoungInv => AttemptStaysYoung
  <2>1. ASSUME TypeInv, YoungInv, ~hasIp PROVE AttemptAge < ReconnectMs + 4 * MaxLag
    <3>1. SinceCheck \in Nat /\ SinceCheck <= 2 * MaxLag
      BY <2>1, AgesReading DEF SinceCheck
    <3> QED  BY <2>1, <3>1, AgesReading, WifiAssumption DEF YoungInv, Young
  <2> QED  BY <2>1 DEF AttemptStaysYoung
<1> QED  BY <1>1, YoungAlways, PTL

-----------------------------------------------------------------------------
(* The LED.                                                                *)

(* The mode the globals call for.                                          *)
Wanted == IF hasIp THEN "Connected"
          ELSE IF lastAttemptFailedHard THEN "Disconnected" ELSE "Connecting"

(* The strengthening: what a refresh in which no event was handled has     *)
(* found out and done so far.                                              *)
RefreshInv ==
  ~disturbed =>
    /\ pc \in {"readClock", "readAttempt", "readHard"} => ~hasIp
    /\ pc = "readAttempt" => Minus(now, lastConnectionAttemptMs) < AttemptTimeoutMs
    /\ pc = "readHard" => ~timedOut
    /\ pc \in ModePlaces /\ after = "readMode" => mode = Wanted
    /\ pc = "setPin" /\ after = "readMode" => ledMode = mode
    /\ pc \in {"readMode", "drive", "checkIp"} => ledMode = Wanted
    /\ pc = "drive" => mode = Wanted
    /\ pc = "checkIp" /\ hasIp => ledOn

LEMMA DriveLit ==
  ASSUME Drive, mode = "Connected"
  PROVE  ledOn' = TRUE
BY DEF Drive

LEMMA RefreshMain ==
  ASSUME TypeInv, PlaceOK, YoungInv, RefreshInv, Main
  PROVE  RefreshInv'
<1> USE DEF shared, locals, driver, Goto
<1>1. CASE InitWifiStack \/ StampAttempt \/ StampReconnect \/ Wake
  <2>1. pc' \in {"stampAttempt", "clearHard", "sleep", "readIp"}
    BY <1>1 DEF InitWifiStack, StampAttempt, StampReconnect, Wake
  <2> QED  BY <2>1 DEF RefreshInv, ModePlaces
<1>2. CASE ClearHard \/ BeginConnect
  <2>1. (pc' = "setMode" /\ after' = "connect") \/ pc' \in {"stampReconnect", "sleep"}
    BY <1>2 DEF ClearHard, BeginConnect
  <2> QED  BY <2>1 DEF RefreshInv, ModePlaces
<1>3. CASE ReadIp
  <2>1. /\ pc' = IF hasIp THEN "setMode" ELSE "readClock"
        /\ hasIp => mode' = "Connected"
        /\ hasIp' = hasIp
    BY <1>3 DEF ReadIp
  <2> QED  BY <2>1 DEF RefreshInv, ModePlaces, Wanted
<1>4. CASE ReadClock
  <2>1. /\ pc = "readClock" /\ pc' = "readAttempt" /\ now' = clock
        /\ UNCHANGED <<hasIp, disturbed, lastConnectionAttemptMs>>
    BY <1>4 DEF ReadClock
  <2>2. ~disturbed => ~hasIp
    BY <2>1 DEF RefreshInv
  <2>3. ~hasIp => AttemptAge < AttemptTimeoutMs
    <3>1. SinceCheck \in Nat /\ SinceCheck <= 2 * MaxLag
      BY AgesReading DEF SinceCheck
    <3> QED  BY <2>1, <3>1, AgesReading DEF YoungInv, Young
  <2>4. Minus(now', lastConnectionAttemptMs') = AttemptAge
    BY <2>1 DEF AttemptAge, Minus
  <2> QED  BY <2>1, <2>2, <2>3, <2>4 DEF RefreshInv, ModePlaces
<1>5. CASE ReadAttempt
  <2>1. /\ pc = "readAttempt" /\ pc' = "readHard" /\ UNCHANGED <<hasIp, disturbed>>
        /\ timedOut' <=> Minus(now, lastConnectionAttemptMs) >= AttemptTimeoutMs
    BY <1>5 DEF ReadAttempt
  <2>2. Minus(now, lastConnectionAttemptMs) \in Int /\ AttemptTimeoutMs \in Int
    BY MinusReading, WifiAssumption DEF TypeInv, TypeOK, Reading
  <2> QED  BY <2>1, <2>2 DEF RefreshInv, ModePlaces
<1>6. CASE ReadHard
  <2>1. /\ pc = "readHard" /\ pc' = "setMode" /\ UNCHANGED <<hasIp, disturbed, lastAttemptFailedHard>>
        /\ mode' = IF lastAttemptFailedHard \/ timedOut THEN "Disconnected" ELSE "Connecting"
    BY <1>6 DEF ReadHard
  <2> QED  BY <2>1 DEF RefreshInv, ModePlaces, Wanted
<1>7. CASE SetMode
  <2>1. /\ pc = "setMode" /\ UNCHANGED <<hasIp, disturbed, lastAttemptFailedHard, ledMode, after>>
        /\ pc' = IF ledMode = mode THEN after ELSE "writeMode"
        /\ ledMode # mode => mode' = mode
    BY <1>7 DEF SetMode
  <2>2. after \in {"connect", "readMode"}
    BY DEF TypeInv, TypeOK
  <2> QED  BY <2>1, <2>2 DEF RefreshInv, ModePlaces, Wanted
<1>8. CASE WriteMode
  <2>1. /\ pc = "writeMode" /\ pc' = "setPin" /\ ledMode' = mode
        /\ UNCHANGED <<hasIp, disturbed, lastAttemptFailedHard, after, mode>>
    BY <1>8 DEF WriteMode
  <2> QED  BY <2>1 DEF RefreshInv, ModePlaces, Wanted
<1>9. CASE SetPin
  <2>1. /\ pc = "setPin" /\ pc' = after
        /\ UNCHANGED <<hasIp, disturbed, lastAttemptFailedHard, ledMode, after>>
    BY <1>9 DEF SetPin
  <2>2. after \in {"connect", "readMode"}
    BY DEF TypeInv, TypeOK
  <2> QED  BY <2>1, <2>2 DEF RefreshInv, ModePlaces, Wanted
<1>10. CASE ReadMode
  <2>1. /\ pc = "readMode" /\ pc' = "drive" /\ mode' = ledMode
        /\ UNCHANGED <<hasIp, disturbed, lastAttemptFailedHard, ledMode>>
    BY <1>10 DEF ReadMode
  <2> QED  BY <2>1 DEF RefreshInv, ModePlaces, Wanted
<1>11. CASE Drive
  <2>1. /\ pc = "drive" /\ pc' = "checkIp"
        /\ UNCHANGED <<hasIp, disturbed, lastAttemptFailedHard, ledMode>>
    BY <1>11 DEF Drive
  <2>2. ~disturbed /\ hasIp => ledOn' = TRUE
    BY <1>11, <2>1, DriveLit DEF RefreshInv, Wanted
  <2> QED  BY <2>1, <2>2 DEF RefreshInv, ModePlaces, Wanted
<1>12. CASE CheckIp \/ CheckClock
  <2>1. pc' \in {"sleep", "checkClock", "stampAttempt"}
    BY <1>12 DEF CheckIp, CheckClock
  <2> QED  BY <2>1 DEF RefreshInv, ModePlaces
<1> QED
  BY <1>1, <1>2, <1>3, <1>4, <1>5, <1>6, <1>7, <1>8, <1>9, <1>10, <1>11, <1>12 DEF Main

(* The handlers mark the refresh as disturbed, or leave the globals alone. *)
LEMMA RefreshRest ==
  ASSUME RefreshInv, SysEvt \/ Network \/ Tick \/ UNCHANGED vars
  PROVE  RefreshInv'
<1> USE DEF shared, locals, driver
<1>1. CASE HandleStart \/ HandleLost \/ HandleGotIp
  <2>1. disturbed' = TRUE
    BY <1>1 DEF HandleStart, HandleLost, HandleGotIp
  <2> QED  BY <2>1 DEF RefreshInv
<1>2. CASE ~(HandleStart \/ HandleLost \/ HandleGotIp)
  <2>1. UNCHANGED <<shared, locals, pc, disturbed>>
    BY <1>2 DEF SysEvt, Network, HandlerConnect, HandleConnected, Associate, AttemptFails,
                LinkLost, DhcpDone, Tick, vars
  <2> QED  BY <2>1 DEF RefreshInv, Wanted, Minus
<1> QED  BY <1>1, <1>2

LEMMA RefreshAlways == Spec => [](TypeInv /\ PlaceOK /\ YoungInv /\ RefreshInv)
<1>1. Init => RefreshInv
  BY DEF Init, RefreshInv, ModePlaces
<1>2. TypeInv /\ PlaceOK /\ YoungInv /\ RefreshInv /\ [Next]_vars => RefreshInv'
  BY RefreshMain, RefreshRest DEF Next
<1> QED  BY <1>1, <1>2, YoungAlways, PTL DEF Spec

(* After a refresh in which no event was handled mode and pin are what the *)
(* globals call for, whatever the tasks wrote between them before          *)
(* (wifi_manager.cpp:73-139).                                              *)
THEOREM LedFollowsStateAlways == Spec => []LedFollowsState
<1>1. RefreshInv => LedFollowsState
  BY DEF RefreshInv, LedFollowsState, Wanted
<1> QED  BY <1>1, RefreshAlways, PTL

(* Only a hard failure, or an event in between, makes main choose the      *)
(* pattern of a lost connection (wifi_manager.cpp:89-95).                  *)
THEOREM DisconnectedHasCauseAlways == Spec => DisconnectedHasCause
<1>1. RefreshInv /\ [Next]_vars =>
        [ReadHard /\ mode' = "Disconnected" => lastAttemptFailedHard \/ disturbed]_vars
  BY DEF RefreshInv, ReadHard
<1> QED  BY <1>1, RefreshAlways, PTL DEF Spec, DisconnectedHasCause
=============================================================================
