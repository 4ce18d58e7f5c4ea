---------------------------- MODULE WifiManager ----------------------------
(***************************************************************************)
(* src/wifi_manager.cpp: the WiFi station manager, run by two tasks that   *)
(* share its globals without a lock.                                       *)
(*                                                                         *)
(*   main     wifiManagerBegin() once, then wifiManagerLoop() every 10 ms; *)
(*            lowest priority, so an event handler may run between any two *)
(*            of its accesses: one action per access of a shared variable. *)
(*   sys_evt  onWifiEvent(), one event of the queue at a time; it preempts *)
(*            main on the single core, so its assignments are one step and *)
(*            the call of esp_wifi_connect() after the log line another.   *)
(*                                                                         *)
(* The driver, the access point and DHCP are external: they move `link'    *)
(* and append to the event queue.  ledPhaseStartMs is left out: the time   *)
(* that updateStatusLed() finds to have elapsed since then may be any, as  *)
(* it is when a handler stamps it after main has read the clock.           *)
(***************************************************************************)
EXTENDS Integers, Sequences

CONSTANTS
  ClockMod,         \* 2^32: `unsigned long'
  ReconnectMs,      \* RECONNECT_INTERVAL_MS, 10000
  AttemptTimeoutMs, \* CONNECTING_ATTEMPT_TIMEOUT_MS, 20000
  ConnectMayFail,   \* esp_wifi_connect() may return an error: nobody looks
  StaleGotIp,       \* DHCP may finish after the link is lost but before
                    \* the DISCONNECTED event is handled
  BlinkMs,          \* CONNECTING_BLINK_MS, 400
  OnMs, OffMs,      \* DISCONNECTED_BLINK_ON_MS, _OFF_MS: 200
  PauseMs,          \* DISCONNECTED_PAUSE_MS, 1500
  BlinkCount,       \* DISCONNECTED_BLINK_COUNT, 3
  Losses,           \* bound: the kinds of DISCONNECTED events there are
  MaxLag,           \* bound: time between two entries of wifiManagerLoop()
  MaxQueue          \* bound: events queued

(* DISCONNECTED with a reason that isHardFailureReason() accepts, or not. *)
Lost == {"LOST_HARD", "LOST_SOFT"}

ASSUME WifiAssumption ==
  /\ Losses \subseteq Lost
  /\ ClockMod \in Nat /\ ReconnectMs \in Nat /\ AttemptTimeoutMs \in Nat
  /\ MaxLag \in Nat /\ MaxQueue \in Nat \ {0}
  /\ 0 < MaxLag /\ 0 < ReconnectMs
  /\ ReconnectMs + 4 * MaxLag <= AttemptTimeoutMs
  /\ AttemptTimeoutMs + MaxLag < ClockMod
  /\ {BlinkMs, OnMs, OffMs, BlinkCount} \subseteq Nat \ {0} /\ PauseMs \in Nat
  /\ ConnectMayFail \in BOOLEAN /\ StaleGotIp \in BOOLEAN

VARIABLES
  clock,              \* millis()
  hasIp, lastAttemptFailedHard, ledMode, lastConnectionAttemptMs,
  ledOn,              \* the status LED is lit
  lastReconnectAttemptMs,
  pc,                 \* main: the access it makes next
  caller, after,      \* main: who called beginWifi(), setLedMode()
  now, timedOut, mode,\* main: locals, reset when they are dead
  handler,            \* sys_evt: "idle", or "connect" before that call
  link, dhcp, queue,  \* driver: state of the link, DHCP running, events
  lag,                \* history: time since wifiManagerLoop() was entered
  disturbed,          \* history: an event was handled since then
  stale               \* history: the last event posted is a stale GOT_IP

shared == <<hasIp, lastAttemptFailedHard, ledMode, ledOn, lastConnectionAttemptMs>>
locals == <<caller, after, now, timedOut, mode>>
driver == <<link, dhcp, queue, stale>>
vars == <<clock, shared, lastReconnectAttemptMs, pc, locals, handler, driver,
          lag, disturbed>>

Modes  == {"Connected", "Connecting", "Disconnected"}
Labels == {"init", "stampAttempt", "clearHard", "connect",
           "stampReconnect", "readIp", "readClock", "readAttempt",
           "readHard", "setMode", "writeMode", "setPin", "readMode", "drive",
           "checkIp", "checkClock", "sleep"}
Links  == {"off", "down", "connecting", "assoc", "up"}

Events == {"STA_START", "CONNECTED", "GOT_IP"} \cup Lost

TypeOK ==
  /\ clock \in 0..ClockMod-1 /\ now \in 0..ClockMod-1
  /\ lastConnectionAttemptMs \in 0..ClockMod-1
  /\ lastReconnectAttemptMs \in 0..ClockMod-1
  /\ hasIp \in BOOLEAN /\ ledOn \in BOOLEAN /\ lastAttemptFailedHard \in BOOLEAN
  /\ ledMode \in Modes /\ mode \in Modes /\ timedOut \in BOOLEAN
  /\ pc \in Labels /\ caller \in {"begin", "loop"} /\ after \in {"connect", "readMode"}
  /\ handler \in {"idle", "connect"}
  /\ link \in Links /\ dhcp \in BOOLEAN
  /\ queue \in Seq(Events) /\ Len(queue) <= MaxQueue
  /\ lag \in 0..MaxLag /\ disturbed \in BOOLEAN /\ stale \in BOOLEAN

(* a - b on `unsigned long', both already below ClockMod. *)
Minus(a, b) == IF a >= b THEN a - b ELSE a - b + ClockMod

AttemptAge == Minus(clock, lastConnectionAttemptMs)

Init ==
  /\ clock = 0
  /\ hasIp = FALSE /\ lastAttemptFailedHard = FALSE
  /\ ledMode = "Connecting" /\ ledOn = FALSE /\ lastConnectionAttemptMs = 0
  /\ lastReconnectAttemptMs = 0
  /\ pc = "init" /\ caller = "begin" /\ after = "readMode"
  /\ now = 0 /\ timedOut = FALSE /\ mode = "Connecting"
  /\ handler = "idle"
  /\ link = "off" /\ dhcp = FALSE /\ queue = <<>>
  /\ lag = 0 /\ disturbed = FALSE /\ stale = FALSE

Goto(label) == pc' = label

(* A call of esp_wifi_connect(): without effect unless the link is down. *)
Connect ==
  \/ link' = IF link = "down" THEN "connecting" ELSE link
  \/ ConnectMayFail /\ link' = link

-----------------------------------------------------------------------------
(* Task main: beginWifi().                                                 *)

(* initWifiStack(), the first time: esp_wifi_start() posts STA_START.  A   *)
(* call that fails aborts (ESP_ERROR_CHECK): the device resets and begins  *)
(* again in the initial state, as no global is written before the end.     *)
InitWifiStack ==
  /\ pc = "init" /\ Goto("stampAttempt")
  /\ link' = "down" /\ queue' = Append(queue, "STA_START")
  /\ UNCHANGED <<clock, shared, lastReconnectAttemptMs, locals, handler, dhcp,
                 stale, lag, disturbed>>

(* Mutant: the attempt is not stamped. *)
StampAttemptMissing ==
  /\ pc = "stampAttempt" /\ Goto("clearHard")
  /\ UNCHANGED <<clock, shared, lastReconnectAttemptMs, locals, handler,
                 driver, lag, disturbed>>

StampAttempt ==
  /\ pc = "stampAttempt" /\ Goto("clearHard")
  /\ lastConnectionAttemptMs' = clock
  /\ UNCHANGED <<clock, hasIp, lastAttemptFailedHard, ledMode, ledOn,
                 lastReconnectAttemptMs, locals, handler, driver, lag,
                 disturbed>>

ClearHard ==
  /\ pc = "clearHard" /\ Goto("setMode")
  /\ lastAttemptFailedHard' = FALSE
  /\ mode' = "Connecting" /\ after' = "connect"
  /\ UNCHANGED <<clock, hasIp, ledMode, ledOn, lastConnectionAttemptMs,
                 lastReconnectAttemptMs, caller, now, timedOut, handler, driver,
                 lag, disturbed>>

BeginConnect ==
  /\ pc = "connect" /\ Connect
  /\ Goto(IF caller = "begin" THEN "stampReconnect" ELSE "sleep")
  /\ after' = "readMode"
  /\ UNCHANGED <<clock, shared, lastReconnectAttemptMs, caller, now, timedOut, mode,
                 handler, dhcp, queue, stale, lag, disturbed>>

(* wifiManagerBegin() ends; app_main enters its loop. *)
StampReconnect ==
  /\ pc = "stampReconnect" /\ Goto("sleep")
  /\ lastReconnectAttemptMs' = clock /\ caller' = "loop"
  /\ UNCHANGED <<clock, shared, after, now, timedOut, mode, handler, driver, lag,
                 disturbed>>

-----------------------------------------------------------------------------
(* Task main: wifiManagerLoop(), first updateStatusLed()/refreshLedMode(). *)

Wake ==
  /\ pc = "sleep" /\ Goto("readIp")
  /\ lag' = 0 /\ disturbed' = FALSE
  /\ UNCHANGED <<clock, shared, lastReconnectAttemptMs, locals, handler, driver>>

(* Mutant: the early return of refreshLedMode() is gone. *)
ReadIpIgnored ==
  /\ pc = "readIp" /\ Goto("readClock")
  /\ UNCHANGED <<clock, shared, lastReconnectAttemptMs, locals, handler,
                 driver, lag, disturbed>>

ReadIp ==
  /\ pc = "readIp"
  /\ IF hasIp THEN Goto("setMode") /\ mode' = "Connected"
              ELSE Goto("readClock") /\ UNCHANGED mode
  /\ UNCHANGED <<clock, shared, lastReconnectAttemptMs, caller, after, now, timedOut,
                 handler, driver, lag, disturbed>>

(* millis() - lastConnectionAttemptMs: the clock is read first. *)
ReadClock ==
  /\ pc = "readClock" /\ Goto("readAttempt")
  /\ now' = clock
  /\ UNCHANGED <<clock, shared, lastReconnectAttemptMs, caller, after, timedOut,
                 mode, handler, driver, lag, disturbed>>

(* Mutant: compared with the wrong interval. *)
ReadAttemptShort ==
  /\ pc = "readAttempt" /\ Goto("readHard")
  /\ timedOut' = (Minus(now, lastConnectionAttemptMs) >= ReconnectMs)
  /\ now' = 0
  /\ UNCHANGED <<clock, shared, lastReconnectAttemptMs, caller, after, mode, handler,
                 driver, lag, disturbed>>

ReadAttempt ==
  /\ pc = "readAttempt" /\ Goto("readHard")
  /\ timedOut' = (Minus(now, lastConnectionAttemptMs) >= AttemptTimeoutMs)
  /\ now' = 0
  /\ UNCHANGED <<clock, shared, lastReconnectAttemptMs, caller, after, mode, handler,
                 driver, lag, disturbed>>

ReadHard ==
  /\ pc = "readHard" /\ Goto("setMode")
  /\ mode' = IF lastAttemptFailedHard \/ timedOut THEN "Disconnected"
                                                  ELSE "Connecting"
  /\ timedOut' = FALSE
  /\ UNCHANGED <<clock, shared, lastReconnectAttemptMs, caller, after, now, handler,
                 driver, lag, disturbed>>

(* setLedMode(): what main finds is already shown is not written again.    *)
SetMode ==
  /\ pc = "setMode"
  /\ IF ledMode = mode THEN Goto(after) /\ mode' = "Connecting"
                       ELSE Goto("writeMode") /\ UNCHANGED mode
  /\ UNCHANGED <<clock, shared, lastReconnectAttemptMs, caller, after, now, timedOut,
                 handler, driver, lag, disturbed>>

WriteMode ==
  /\ pc = "writeMode" /\ Goto("setPin")
  /\ ledMode' = mode
  /\ UNCHANGED <<clock, hasIp, lastAttemptFailedHard, ledOn, lastConnectionAttemptMs,
                 lastReconnectAttemptMs, locals, handler, driver, lag, disturbed>>

SetPin ==
  /\ pc = "setPin" /\ Goto(after)
  /\ ledOn' = (mode = "Connected") /\ mode' = "Connecting"
  /\ UNCHANGED <<clock, hasIp, lastAttemptFailedHard, ledMode, lastConnectionAttemptMs,
                 lastReconnectAttemptMs, caller, after, now, timedOut, handler, driver,
                 lag, disturbed>>

(* updateStatusLed(): switch (ledMode). *)
ReadMode ==
  /\ pc = "readMode" /\ Goto("drive")
  /\ mode' = ledMode
  /\ UNCHANGED <<clock, shared, lastReconnectAttemptMs, caller, after, now, timedOut,
                 handler, driver, lag, disturbed>>

(* updateConnectingLed(): even phases are lit. *)
ConnectingLevel(elapsed) == (elapsed \div BlinkMs) % 2 = 0

(* updateDisconnectedLed(): some blinks and a pause. *)
DisconnectedLevel(elapsed) ==
  LET blinks == BlinkCount * (OnMs + OffMs)
      inPattern == elapsed % (blinks + PauseMs)
  IN inPattern < blinks /\ inPattern % (OnMs + OffMs) < OnMs

(* Mutant: the pin is left alone when connected, setLedMode() has set it. *)
DriveBlinking ==
  /\ pc = "drive" /\ Goto("checkIp")
  /\ \E elapsed \in 0..ClockMod-1 :
       ledOn' = CASE mode = "Connected"    -> ledOn
                  [] mode = "Connecting"   -> ConnectingLevel(elapsed)
                  [] mode = "Disconnected" -> DisconnectedLevel(elapsed)
  /\ mode' = "Connecting"
  /\ UNCHANGED <<clock, hasIp, lastAttemptFailedHard, ledMode, lastConnectionAttemptMs,
                 lastReconnectAttemptMs, caller, after, now, timedOut, handler, driver,
                 lag, disturbed>>

Drive ==
  /\ pc = "drive" /\ Goto("checkIp")
  /\ \E elapsed \in 0..ClockMod-1 :
       ledOn' = CASE mode = "Connected"    -> TRUE
                  [] mode = "Connecting"   -> ConnectingLevel(elapsed)
                  [] mode = "Disconnected" -> DisconnectedLevel(elapsed)
  /\ mode' = "Connecting"
  /\ UNCHANGED <<clock, hasIp, lastAttemptFailedHard, ledMode, lastConnectionAttemptMs,
                 lastReconnectAttemptMs, caller, after, now, timedOut, handler, driver,
                 lag, disturbed>>

CheckIp ==
  /\ pc = "checkIp"
  /\ Goto(IF hasIp THEN "sleep" ELSE "checkClock")
  /\ UNCHANGED <<clock, shared, lastReconnectAttemptMs, locals, handler,
                 driver, lag, disturbed>>

(* Mutant: the loop stamps the retry but does not call beginWifi(). *)
CheckClockNoBegin ==
  /\ pc = "checkClock" /\ Goto("sleep")
  /\ lastReconnectAttemptMs' =
       IF Minus(clock, lastReconnectAttemptMs) < ReconnectMs
       THEN lastReconnectAttemptMs ELSE clock
  /\ UNCHANGED <<clock, shared, locals, handler, driver, lag, disturbed>>

CheckClock ==
  /\ pc = "checkClock"
  /\ IF Minus(clock, lastReconnectAttemptMs) < ReconnectMs
     THEN Goto("sleep") /\ UNCHANGED lastReconnectAttemptMs
     ELSE Goto("stampAttempt") /\ lastReconnectAttemptMs' = clock
  /\ UNCHANGED <<clock, shared, locals, handler, driver, lag, disturbed>>

-----------------------------------------------------------------------------
(* Task sys_evt: onWifiEvent().                                            *)

(* setLedMode(), which main cannot interrupt here. *)
ShowMode(m) ==
  /\ ledMode' = m
  /\ ledOn' = IF ledMode = m THEN ledOn ELSE m = "Connected"

HandleStart ==
  /\ handler = "idle" /\ queue # <<>> /\ Head(queue) = "STA_START"
  /\ queue' = Tail(queue) /\ handler' = "connect"
  /\ disturbed' = TRUE
  /\ UNCHANGED <<clock, shared, lastReconnectAttemptMs, pc, locals, link,
                 dhcp, stale, lag>>

(* Mutant: hasIp survives the loss of the link. *)
HandleLostKeepsIp ==
  /\ handler = "idle" /\ queue # <<>> /\ Head(queue) \in Lost
  /\ queue' = Tail(queue) /\ handler' = "connect"
  /\ lastAttemptFailedHard' = (Head(queue) = "LOST_HARD")
  /\ lastConnectionAttemptMs' = clock
  /\ ShowMode("Connecting")
  /\ dhcp' = FALSE /\ disturbed' = TRUE
  /\ UNCHANGED <<clock, hasIp, lastReconnectAttemptMs, pc, locals, link, stale, lag>>

HandleLost ==
  /\ handler = "idle" /\ queue # <<>> /\ Head(queue) \in Lost
  /\ queue' = Tail(queue) /\ handler' = "connect"
  /\ hasIp' = FALSE
  /\ lastAttemptFailedHard' = (Head(queue) = "LOST_HARD")
  /\ lastConnectionAttemptMs' = clock
  /\ ShowMode("Connecting")
  /\ dhcp' = FALSE /\ disturbed' = TRUE
  /\ UNCHANGED <<clock, lastReconnectAttemptMs, pc, locals, link, stale, lag>>

HandlerConnect ==
  /\ handler = "connect" /\ Connect
  /\ handler' = "idle"
  /\ UNCHANGED <<clock, shared, lastReconnectAttemptMs, pc, locals, dhcp,
                 queue, stale, lag, disturbed>>

(* `default: break;' *)
HandleConnected ==
  /\ handler = "idle" /\ queue # <<>> /\ Head(queue) = "CONNECTED"
  /\ queue' = Tail(queue) /\ dhcp' = TRUE
  /\ UNCHANGED <<clock, shared, lastReconnectAttemptMs, pc, locals, handler,
                 link, stale, lag, disturbed>>

HandleGotIp ==
  /\ handler = "idle" /\ queue # <<>> /\ Head(queue) = "GOT_IP"
  /\ queue' = Tail(queue)
  /\ hasIp' = TRUE /\ lastAttemptFailedHard' = FALSE
  /\ ShowMode("Connected")
  /\ disturbed' = TRUE
  /\ UNCHANGED <<clock, lastConnectionAttemptMs, lastReconnectAttemptMs, pc,
                 locals, handler, link, dhcp, stale, lag>>

-----------------------------------------------------------------------------
(* The driver and the network (external).                                  *)
(* ESP-IDF's own handlers run before onWifiEvent(): CONNECTED starts DHCP, *)
(* DISCONNECTED stops it.                                                  *)

Post(event) == Len(queue) < MaxQueue /\ queue' = Append(queue, event)

Associate ==
  /\ link = "connecting" /\ link' = "assoc" /\ Post("CONNECTED")
  /\ UNCHANGED <<clock, shared, lastReconnectAttemptMs, pc, locals, handler,
                 dhcp, stale, lag, disturbed>>

AttemptFails ==
  /\ link = "connecting" /\ link' = "down"
  /\ \E e \in Losses : Post(e)
  /\ stale' = FALSE
  /\ UNCHANGED <<clock, shared, lastReconnectAttemptMs, pc, locals, handler,
                 dhcp, lag, disturbed>>

LinkLost ==
  /\ link \in {"assoc", "up"} /\ link' = "down"
  /\ \E e \in Losses : Post(e)
  /\ stale' = FALSE
  /\ UNCHANGED <<clock, shared, lastReconnectAttemptMs, pc, locals, handler,
                 dhcp, lag, disturbed>>

DhcpDone ==
  /\ dhcp /\ (link \in {"assoc", "up"} \/ StaleGotIp)
  /\ dhcp' = FALSE /\ Post("GOT_IP")
  /\ link' = IF link = "assoc" THEN "up" ELSE link
  /\ stale' = (link \notin {"assoc", "up"})
  /\ UNCHANGED <<clock, shared, lastReconnectAttemptMs, pc, locals, handler,
                 lag, disturbed>>

(* Mutant: the cast to `unsigned long' is missing. *)
TickNoWrap ==
  /\ lag < MaxLag /\ lag' = lag + 1
  /\ clock' = clock + 1
  /\ UNCHANGED <<shared, lastReconnectAttemptMs, pc, locals, handler, driver,
                 disturbed>>

Tick ==
  /\ lag < MaxLag /\ lag' = lag + 1
  /\ clock' = IF clock = ClockMod - 1 THEN 0 ELSE clock + 1
  /\ UNCHANGED <<shared, lastReconnectAttemptMs, pc, locals, handler, driver,
                 disturbed>>

-----------------------------------------------------------------------------
Main ==
  \/ InitWifiStack \/ StampAttempt \/ ClearHard
  \/ BeginConnect \/ StampReconnect \/ Wake
  \/ ReadIp \/ ReadClock \/ ReadAttempt \/ ReadHard
  \/ SetMode \/ WriteMode \/ SetPin \/ ReadMode \/ Drive
  \/ CheckIp \/ CheckClock
SysEvt == \/ HandleStart \/ HandleLost \/ HandlerConnect
          \/ HandleConnected \/ HandleGotIp
Network == Associate \/ AttemptFails \/ LinkLost \/ DhcpDone
Next == Main \/ SysEvt \/ Network \/ Tick

Spec == Init /\ [][Next]_vars

(* Both tasks are scheduled, the timer runs, and a connection attempt or a *)
(* DHCP exchange that has begun comes to an end.                           *)
Fairness ==
  /\ WF_vars(Main) /\ WF_vars(SysEvt) /\ WF_vars(Tick)
  /\ WF_vars(Associate \/ AttemptFails) /\ WF_vars(DhcpDone)

FairSpec == Spec /\ Fairness

-----------------------------------------------------------------------------
(* Safety.                                                                 *)

(* When updateStatusLed() has run without an event in between, the LED     *)
(* shows what the globals say, whatever beginWifi() and the handlers wrote *)
(* into mode and pin before, and whatever they wrote it between: a mode    *)
(* that is not written again because it is shown already, a pin set for    *)
(* the mode that was read a moment ago.                                    *)
LedFollowsState ==
  pc = "checkIp" /\ ~disturbed =>
    /\ ledMode = IF hasIp THEN "Connected"
                 ELSE IF lastAttemptFailedHard THEN "Disconnected"
                 ELSE "Connecting"
    /\ hasIp => ledOn

(* beginWifi() and the handler keep lastConnectionAttemptMs so young while *)
(* there is no address that a 20 s old attempt is never seen.  The worst   *)
(* case takes a loss just before lastReconnectAttemptMs wraps: the stamp   *)
(* of the retry then looks young again.                                    *)
AttemptStaysYoung ==
  ~hasIp => AttemptAge < ReconnectMs + 4 * MaxLag

(* main decides on the `disconnected' pattern only for a hard failure, or  *)
(* when an event replaced the attempt it was measuring under its feet.     *)
DisconnectedHasCause ==
  [][ReadHard /\ mode' = "Disconnected" =>
       lastAttemptFailedHard \/ disturbed]_vars

(* wifi_manager.cpp:31,89-92: without a hard failure an attempt is shown   *)
(* as disconnected only when it is 20 s old.                               *)
NoSpuriousTimeout ==
  [][ReadAttempt /\ timedOut' => AttemptAge >= AttemptTimeoutMs]_vars

(* The events still queued account for every difference between the link   *)
(* and what the firmware believes: when none is left they agree, but for a *)
(* GOT_IP that came after the loss of its link and before the next event.  *)
BeliefSettles ==
  queue = <<>> => /\ link = "up" => hasIp
                  /\ hasIp => link = "up" \/ stale

-----------------------------------------------------------------------------
(* Liveness.                                                               *)

Calls == (pc = "connect" /\ pc' # "connect") \/ (handler = "connect" /\ handler' = "idle")

(* From some time on the access point and the driver do what they should. *)
EventuallyReachable ==
  <>[][/\ ~LinkLost /\ ~AttemptFails
       /\ Calls /\ link = "down" => link' = "connecting"]_vars

(* README.md:3, wifi_manager.h:3: whatever happened before, the station    *)
(* reconnects by itself once the access point can be reached for good.     *)
AutoReconnect == EventuallyReachable => <>[](hasIp /\ link = "up")

(* A lasting connection is shown by the LED for good: it stays lit. *)
LedShowsConnection == <>[]hasIp => <>[](ledMode = "Connected" /\ ledOn)
=============================================================================
