----------------------------- MODULE WifiMetrics -----------------------------
(***************************************************************************)
(* The Wi-Fi metrics (esp_diagnostics_wifi_metrics.c): signal strength,    *)
(* its minimum, and whether the station is connected.                      *)
(*                                                                         *)
(* Three tasks share s_priv_data without a lock: the event loop, the work  *)
(* queue, to which a timer gives a dump, and the caller of init and        *)
(* deinit, who dumps as well.  A step goes from one report to the next.    *)
(***************************************************************************)
EXTENDS Integers, Sequences

CONSTANTS
  Rssi,          \* signal strengths
  Threshold,     \* WIFI_RSSI_THRESHOLD
  MaxWifiEvents  \* bound: events of the driver, timeouts and calls

ASSUME WifiAssumption == Rssi \subseteq Int /\ Threshold \in Int /\ MaxWifiEvents \in Nat

Users == {"loop", "worker", "app"}
NoSignal == 1   \* get_rssi when not connected

VARIABLES
  signal,     \* external: signal strength, NoSignal if not connected
  wifiEvents, \* external: events not yet handled
  happened,   \* number of events, timeouts and calls so far
  wifi,       \* s_priv_data, and whether a timer runs
  listening,  \* wifi_evt_handler is registered
  known,      \* the metrics are registered
  user,       \* each task: its step, the signal it read, the status it reports
  status,     \* the status the store took last, if any
  overlap     \* history: two tasks were in this code at once

wifiVars == <<signal, wifiEvents, happened, wifi, listening, known, user, status, overlap>>
wifiDriver == <<signal, wifiEvents, happened>>

WifiZero == [init |-> FALSE, wifi_connected |-> FALSE, status_sent |-> FALSE, min_rssi |-> 0,
             handle |-> FALSE, timer |-> FALSE]
Away == [pc |-> "away", rssi |-> NoSignal, val |-> FALSE]

WifiInit ==
  /\ signal = NoSignal /\ wifiEvents = <<>> /\ happened = 0
  /\ wifi = WifiZero /\ listening = FALSE /\ known = FALSE
  /\ user = [t \in Users |-> Away]
  /\ status = {} /\ overlap = FALSE

Happens == happened < MaxWifiEvents /\ happened' = happened + 1

-----------------------------------------------------------------------------
(* External: the Wi-Fi driver *)

Emit(events) ==
  /\ Happens /\ wifiEvents' = wifiEvents \o events
  /\ UNCHANGED <<wifi, listening, known, user, status, overlap>>

Associate == signal = NoSignal /\ signal' \in Rssi /\ Emit(<<[id |-> "connected", rssi |-> NoSignal]>>)
Dissociate == signal' = NoSignal /\ Emit(<<[id |-> "disconnected", rssi |-> NoSignal]>>)

\* The driver tells of a signal below the threshold it was given.
Fade ==
  /\ signal # NoSignal /\ signal' \in Rssi \ {signal}
  /\ \/ Emit(<<>>)
     \/ signal' < signal /\ Emit(<<[id |-> "rssi_low", rssi |-> signal']>>)

-----------------------------------------------------------------------------
(* Steps of a task.  A report is refused if the metric is not registered or *)
(* the store has no room.                                                  *)

Goto(t, pc) == user' = [user EXCEPT ![t].pc = pc]
Leave(t) == user' = [user EXCEPT ![t] = Away]
Enters(t) == overlap' = (overlap \/ \E u \in Users \ {t} : user[u].pc # "away")

At(t, pc) == user[t].pc = pc
Only(t) == UNCHANGED <<wifiDriver, listening, known>>
Accepted == IF known THEN BOOLEAN ELSE {FALSE}

\* esp_diag_wifi_metrics_dump
DumpRead(t) ==
  /\ At(t, "dump")
  /\ IF ~wifi.init THEN Leave(t)
     ELSE user' = [user EXCEPT ![t].rssi = signal, ![t].pc = IF signal = NoSignal THEN "status" ELSE "compare"]
  /\ UNCHANGED <<wifi, status, overlap>> /\ Only(t)

\* update_min_rssi, of a dump or of an event
CompareMin(t) ==
  /\ At(t, "compare")
  /\ Goto(t, IF user[t].rssi < wifi.min_rssi THEN "lower" ELSE "reported")
  /\ UNCHANGED <<wifi, status, overlap>> /\ Only(t)

LowerMin(t) ==
  /\ At(t, "lower")
  /\ wifi' = [wifi EXCEPT !.min_rssi = user[t].rssi]
  /\ Goto(t, "reported")
  /\ UNCHANGED <<status, overlap>> /\ Only(t)

\* A dump goes on with the reports of the signal and its minimum; the first
\* one refused ends it.
ReportRssi(t) ==
  /\ At(t, "reported")
  /\ IF t = "loop" THEN Leave(t)
     ELSE \E ok \in Accepted : IF ok THEN Goto(t, "status") ELSE Leave(t)
  /\ UNCHANGED <<wifi, status, overlap>> /\ Only(t)

\* A status not told before is told again.
RetryStatus(t) ==
  /\ At(t, "status")
  /\ IF wifi.status_sent THEN Leave(t)
     ELSE user' = [user EXCEPT ![t].pc = "report", ![t].val = wifi.wifi_connected]
  /\ UNCHANGED <<wifi, status, overlap>> /\ Only(t)

\* Faulty variant: the status counts as told although it was refused.
ReportStatusUnchecked(t) ==
  /\ At(t, "report")
  /\ \E ok \in Accepted : status' = IF ok THEN {user[t].val} ELSE status
  /\ Goto(t, "sent")
  /\ UNCHANGED <<wifi, overlap>> /\ Only(t)

ReportStatus(t) ==
  /\ At(t, "report")
  /\ \E ok \in Accepted :
       IF ok THEN status' = {user[t].val} /\ Goto(t, "sent") ELSE Leave(t) /\ UNCHANGED status
  /\ UNCHANGED <<wifi, overlap>> /\ Only(t)

StatusSent(t) ==
  /\ At(t, "sent")
  /\ wifi' = [wifi EXCEPT !.status_sent = TRUE]
  /\ Leave(t)
  /\ UNCHANGED <<status, overlap>> /\ Only(t)

-----------------------------------------------------------------------------
(* The event loop: wifi_evt_handler *)

\* The status to tell; a disconnect without a connection is none.
NewStatus(id) ==
  IF id = "connected" THEN {TRUE} ELSE IF id = "disconnected" /\ wifi.wifi_connected THEN {FALSE} ELSE {}

HandleEvent ==
  /\ At("loop", "away") /\ wifiEvents # <<>>
  /\ wifiEvents' = Tail(wifiEvents)
  /\ LET e == Head(wifiEvents) IN
     CASE ~listening \/ (e.id # "rssi_low" /\ NewStatus(e.id) = {}) -> UNCHANGED <<wifi, user, overlap>>
       [] listening /\ e.id = "rssi_low" ->
            /\ user' = [user EXCEPT !["loop"].pc = "compare", !["loop"].rssi = e.rssi]
            /\ Enters("loop") /\ UNCHANGED wifi
       [] OTHER -> \E connected \in NewStatus(e.id) :
            /\ wifi' = [wifi EXCEPT !.wifi_connected = connected, !.status_sent = FALSE]
            /\ user' = [user EXCEPT !["loop"].pc = "report", !["loop"].val = connected]
            /\ Enters("loop")
  /\ UNCHANGED <<signal, happened, listening, known, status>>

-----------------------------------------------------------------------------
(* The timer, init and deinit *)

Timeout ==
  /\ Happens /\ wifi.timer /\ At("worker", "away")
  /\ Goto("worker", "dump") /\ Enters("worker")
  /\ UNCHANGED <<signal, wifiEvents, wifi, listening, known, status>>

\* esp_diag_wifi_metrics_reset_interval: the timer stops or starts, if its queue
\* takes the command.  Without a timer this ends in an assertion, as deinit does
\* then: no step.
ResetInterval ==
  /\ Happens /\ wifi.init /\ wifi.handle /\ At("app", "away")
  /\ \E timer \in BOOLEAN : wifi' = [wifi EXCEPT !.timer = timer]
  /\ UNCHANGED <<signal, wifiEvents, listening, known, user, status, overlap>>

\* Handlers come and go between two events only.
WifiInitStart ==
  /\ Happens /\ At("app", "away") /\ ~wifi.init /\ At("loop", "away")
  /\ listening' = TRUE
  /\ Goto("app", "init") /\ Enters("app")
  /\ UNCHANGED <<signal, wifiEvents, wifi, known, status>>

\* The status is left as it is; a timer that cannot be made is done without.
WifiInitEnd ==
  /\ At("app", "init")
  /\ known' = TRUE
  /\ \E handle \in BOOLEAN, started \in BOOLEAN :
       wifi' = [wifi EXCEPT !.init = TRUE, !.min_rssi = Threshold, !.handle = handle,
                            !.timer = @ \/ (handle /\ started)]
  /\ Goto("app", "dump")
  /\ UNCHANGED <<wifiDriver, listening, status, overlap>>

\* A timer that could not be deleted in time runs on.
WifiDeinitStart ==
  /\ Happens /\ At("app", "away") /\ wifi.init /\ wifi.handle /\ At("loop", "away")
  /\ listening' = FALSE
  /\ \E timer \in {FALSE, wifi.timer} : wifi' = [wifi EXCEPT !.timer = timer]
  /\ Goto("app", "deinit") /\ Enters("app")
  /\ UNCHANGED <<signal, wifiEvents, known, status>>

WifiDeinitEnd ==
  /\ At("app", "deinit")
  /\ known' = FALSE /\ wifi' = [WifiZero EXCEPT !.timer = wifi.timer]
  /\ Leave("app")
  /\ UNCHANGED <<wifiDriver, listening, status, overlap>>

Dump(t) ==
  \/ DumpRead(t) \/ CompareMin(t) \/ LowerMin(t) \/ ReportRssi(t)
  \/ RetryStatus(t) \/ ReportStatus(t) \/ StatusSent(t)

WifiNext ==
  \/ Associate \/ Dissociate \/ Fade
  \/ \E t \in Users : Dump(t)
  \/ HandleEvent \/ Timeout \/ ResetInterval
  \/ WifiInitStart \/ WifiInitEnd \/ WifiDeinitStart \/ WifiDeinitEnd

-----------------------------------------------------------------------------
(* Properties *)

WifiQuiet == wifi.init /\ \A t \in Users : At(t, "away")

\* Between two events the status that counts as told is the one told last,
\* whichever of the event loop, the work queue and init told it and whatever
\* was refused in between: a change is never left untold with no dump to tell
\* it.  Only tasks that were in this code at once can break this: one reports
\* the status of before a change, and marks it as told after.
StatusTold == WifiQuiet /\ wifi.status_sent /\ ~overlap => status = {wifi.wifi_connected}

=============================================================================
