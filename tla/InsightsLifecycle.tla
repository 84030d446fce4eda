-------------------------- MODULE InsightsLifecycle --------------------------
(***************************************************************************)
(* Enabling, pacing and disabling of the reporting agent (esp_insights.c): *)
(* what exists when, who still uses what is taken down, whether the chain  *)
(* of one-shot timers goes on, and whether stored records are only parsed  *)
(* by a firmware with their layout.                                        *)
(*                                                                         *)
(* Tasks: the application (one call of the interface at a time, in steps), *)
(* the worker of the work queue, the timer task with its command queue,    *)
(* the event loop and a task that logs.  A pointer is "null", "live" or    *)
(* "freed" (not null, but what it points to is gone).                      *)
(***************************************************************************)
EXTENDS Naturals, Sequences, SequencesExt

CONSTANTS
  MinPeriod, MaxPeriod,   \* CLOUD_REPORTING_PERIOD_MIN_SEC, _MAX_SEC
  QueueCap,               \* length of the work queue
  Layouts,                \* record layouts of the firmwares that may be booted
  NoCrc                   \* no CRC in NVS

ASSUME LifecycleAssumption ==
  /\ MinPeriod \in Nat \ {0} /\ MaxPeriod \in Nat /\ MinPeriod <= MaxPeriod
  /\ QueueCap \in Nat \ {0}
  /\ NoCrc \notin Layouts

VARIABLES
  s,          \* s_insights_data: pointers, enabled, data_sent
  up,         \* initialised parts, of AllParts
  entry,      \* s_periodic_insights_entry: pointer, memory, timer, cur_seconds
  transport,  \* s_priv_data of the transport, and the node id it keeps
  wq,         \* the work queue: state and items
  app,        \* the call the application is in: name and program counter
  tmr,        \* the timer task: program counter, locals, command queue
  logger,     \* a task that logs: "idle", or "writing" past its checks
  noTimer,    \* the event loop has asked a timer that is not there whether it runs
  nvs,        \* layout CRC in NVS
  fw,         \* layout of the running firmware
  stored,     \* layouts of the records in the store
  risky,      \* history: disable passed its check, or a round was asked for while down
  lost,       \* history: the timer was not restarted, the command queue being full
  crcLost     \* history: writing the CRC failed

memory == <<nvs, fw, stored, crcLost>>
vars == <<s, up, entry, transport, wq, app, tmr, logger, noTimer, memory, risky, lost>>

Pointer == {"null", "live", "freed"}
Items == {"first", "round", "teardown"}
\* The two event handlers, the store and its lock, the hook initialised and
\* enabled, metrics and variables.
AllParts == {"events", "storeEvents", "store", "storeLock", "hookInit", "hook", "modules"}
EnablePcs == {"alloc", "events", "storeEvents", "store", "layout", "saveCrc", "hook", "timer", "periodic", "enabled"}
DisablePcs == {"off", "unregister", "hookOff", "storeLocks", "storeOff", "queueTeardown"}
InitPcs == {"node", "connect", "initErr", "transportOff"}
Calls == {"none", "init", "enable", "disable", "deinit"}

Without(p) == IF p = "live" THEN "freed" ELSE p
HasLock == s.lock = "live"
Post(c) == [tmr EXCEPT !.cmds = Append(@, c)]
CanAdd == wq.state # "none" /\ Len(wq.items) < QueueCap
AddTask(i) == IF CanAdd THEN [wq EXCEPT !.items = Append(@, i)] ELSE wq

\* The memory of the program after a reset.
Fresh(host) ==
  [s |-> [lock |-> "null", scratch |-> "null", read_buf |-> "null", node_id |-> "null",
          send_timer |-> "null", enabled |-> FALSE, data_sent |-> FALSE],
   entry |-> [ptr |-> "null", timer |-> "none", cur |-> MinPeriod],
   transport |-> [init |-> host, node |-> "null"],
   wq |-> [host |-> host, state |-> IF host THEN "ready" ELSE "none", items |-> <<>>],
   app |-> [call |-> "none", pc |-> "idle"],
   tmr |-> [pc |-> "idle", sent |-> FALSE, cmds |-> <<>>]]

\* A host (ESP RainMaker) brings its own work queue and transport; otherwise
\* esp_insights_init sets up both.
Init ==
  /\ \E host \in BOOLEAN : LET f == Fresh(host) IN
       /\ s = f.s /\ entry = f.entry /\ transport = f.transport
       /\ wq = f.wq /\ app = f.app /\ tmr = f.tmr
  /\ up = {} /\ logger = "idle" /\ noTimer = FALSE
  /\ nvs = NoCrc /\ fw \in Layouts /\ stored = {}
  /\ risky = FALSE /\ lost = FALSE /\ crcLost = FALSE

-----------------------------------------------------------------------------
(* The application: esp_insights_enable *)

Goto(pc) == app' = [app EXCEPT !.pc = pc]
Return == app' = [call |-> "none", pc |-> "idle"]
\* Every error path of enable ends in esp_insights_disable, which returns at
\* once, enabled being false; init goes on to its own error path.
EnableFails == IF app.call = "init" THEN Goto("initErr") ELSE Return
EnableReturnsOk == IF app.call = "init" THEN Goto("connect") ELSE Return

\* The allocations, of which f fails ("none": all succeed).
Allocated(f) ==
  LET locked == [s EXCEPT !.lock = "live"]
      named == [locked EXCEPT !.node_id = "live"]
  IN CASE f = "lock" -> s
       [] f = "node" -> locked
       [] f = "scratch" -> [named EXCEPT !.scratch = "null", !.read_buf = "live"]
       [] f = "read" -> [named EXCEPT !.scratch = "freed", !.read_buf = "null"]
       [] OTHER -> [named EXCEPT !.scratch = "live", !.read_buf = "live"]

EnableAlloc ==
  /\ app.pc = "alloc"
  /\ IF s.lock # "null"
     THEN EnableReturnsOk /\ UNCHANGED s
     ELSE \E f \in {"none", "lock", "node", "scratch", "read", "info"} :
            /\ f = "node" => s.node_id = "null"
            /\ s' = Allocated(f)
            /\ IF f = "none" THEN Goto("events") ELSE EnableFails
  /\ UNCHANGED <<up, entry, transport, wq, tmr, logger, noTimer, memory, risky, lost>>

\* The fallible initialisations that leave one mark in "up".
EnablePart(pc, parts, next) ==
  /\ app.pc = pc
  /\ \/ up' = up \cup parts /\ Goto(next)
     \/ up' = up /\ EnableFails
  /\ UNCHANGED <<s, entry, transport, wq, tmr, logger, noTimer, memory, risky, lost>>

\* insights_event_handler and data_store_event_handler are registered; what
\* fails later leaves them so.
EnableEvents == EnablePart("events", {"events"}, "storeEvents")
EnableStoreEvents == EnablePart("storeEvents", {"storeEvents"}, "store")
EnableStore == EnablePart("store", {"store", "storeLock"}, "layout")

\* Faulty variant: an NVS read error leaves the stored records alone.
KeepOnReadError ==
  /\ app.pc = "layout"
  /\ \/ nvs = fw /\ Goto("hook") /\ UNCHANGED stored
     \/ nvs # fw /\ nvs # NoCrc /\ Goto("saveCrc") /\ stored' = {}
     \/ Goto("saveCrc") /\ UNCHANGED stored
  /\ UNCHANGED <<s, up, entry, transport, wq, tmr, logger, noTimer, nvs, fw, crcLost, risky, lost>>

\* The stored records are discarded unless NVS has this firmware's layout CRC.
CheckLayout ==
  /\ app.pc = "layout"
  /\ \/ nvs = fw /\ Goto("hook") /\ UNCHANGED stored
     \/ Goto("saveCrc") /\ stored' = {}
  /\ UNCHANGED <<s, up, entry, transport, wq, tmr, logger, noTimer, nvs, fw, crcLost, risky, lost>>

\* A failure to write the CRC is only logged.
SaveCrc ==
  /\ app.pc = "saveCrc"
  /\ \/ nvs' = fw /\ UNCHANGED crcLost
     \/ nvs' = nvs /\ crcLost' = TRUE
  /\ Goto("hook")
  /\ UNCHANGED <<s, up, entry, transport, wq, tmr, logger, noTimer, fw, stored, risky, lost>>

\* esp_diag_log_hook_init succeeds once; nothing clears its flag.  Metrics and
\* variables follow, whose failures are only logged.
EnableHook ==
  /\ app.pc = "hook"
  /\ IF "hookInit" \in up
     THEN EnableFails /\ UNCHANGED up
     ELSE up' = up \cup {"hookInit", "hook", "modules"} /\ Goto("timer")
  /\ UNCHANGED <<s, entry, transport, wq, tmr, logger, noTimer, memory, risky, lost>>

EnableTimer ==
  /\ app.pc = "timer"
  /\ \/ s' = [s EXCEPT !.send_timer = "live"] /\ Goto("periodic")
     \/ s' = s /\ EnableFails
  /\ UNCHANGED <<up, entry, transport, wq, tmr, logger, noTimer, memory, risky, lost>>

\* Faulty variant: the first call is queued before the timer is created.
QueueBeforeTimer ==
  /\ app.pc = "periodic" /\ wq' = AddTask("first")
  /\ \E p \in {"live", "freed"} :
       /\ entry' = [ptr |-> p, timer |-> "dormant", cur |-> MinPeriod]
       /\ IF p = "live" THEN Goto("enabled") ELSE EnableFails
  /\ UNCHANGED <<s, up, transport, tmr, logger, noTimer, memory, risky, lost>>

\* esp_insights_register_periodic_handler; a timer that cannot be created
\* leaves the pointer to the freed entry.
RegisterPeriodic ==
  /\ app.pc = "periodic"
  /\ \/ entry.ptr # "null" /\ Goto("enabled") /\ UNCHANGED <<entry, wq>>
     \/ /\ entry.ptr = "null"
        /\ \E p \in {"null", "freed"} : entry' = [entry EXCEPT !.ptr = p]
        /\ EnableFails /\ UNCHANGED wq
     \/ /\ entry.ptr = "null"
        /\ entry' = [ptr |-> "live", timer |-> "dormant", cur |-> MinPeriod]
        /\ wq' = AddTask("first")
        /\ IF CanAdd THEN Goto("enabled") ELSE EnableFails
  /\ UNCHANGED <<s, up, transport, tmr, logger, noTimer, memory, risky, lost>>

SetEnabled ==
  /\ app.pc = "enabled"
  /\ s' = [s EXCEPT !.enabled = TRUE] /\ EnableReturnsOk
  /\ UNCHANGED <<up, entry, transport, wq, tmr, logger, noTimer, memory, risky, lost>>

EnableStep ==
  \/ EnableAlloc \/ EnableEvents \/ EnableStoreEvents \/ EnableStore \/ CheckLayout \/ SaveCrc
  \/ EnableHook \/ EnableTimer \/ RegisterPeriodic \/ SetEnabled

-----------------------------------------------------------------------------
(* The application: esp_insights_disable, _init, _deinit, _send_data *)

\* Faulty variant: enabled is left set.
DisableKeepsEnabled ==
  /\ app.pc = "off"
  /\ IF s.enabled THEN risky' = TRUE /\ Goto("unregister") ELSE Return /\ UNCHANGED risky
  /\ UNCHANGED <<s, up, entry, transport, wq, tmr, logger, noTimer, memory, lost>>

\* What follows disable: the rest of deinit, or nothing.
AfterDisable == IF app.call = "disable" THEN Return ELSE Goto("transportOff")

DisableOff ==
  /\ app.pc = "off"
  /\ IF s.enabled
     THEN s' = [s EXCEPT !.enabled = FALSE] /\ risky' = TRUE /\ Goto("unregister")
     ELSE AfterDisable /\ UNCHANGED <<s, risky>>
  /\ UNCHANGED <<up, entry, transport, wq, tmr, logger, noTimer, memory, lost>>

\* esp_insights_unregister_periodic_handler: the commands wait for room in the
\* queue of the timer task, the entry is freed at once.
UnregisterPeriodic ==
  /\ app.pc = "unregister"
  /\ tmr' = [tmr EXCEPT !.cmds = @ \o (IF entry.timer = "armed" THEN <<"stop", "delete">> ELSE <<"delete">>)]
  /\ entry' = [entry EXCEPT !.ptr = "null"]
  /\ Goto("hookOff")
  /\ UNCHANGED <<s, up, transport, wq, logger, noTimer, memory, risky, lost>>

\* The remaining steps take down one part each.
DisablePart(pc, parts, next) ==
  /\ app.pc = pc
  /\ up' = up \ parts /\ Goto(next)
  /\ UNCHANGED <<s, entry, transport, wq, tmr, logger, noTimer, memory, risky, lost>>

DisableHook == DisablePart("hookOff", {"modules", "hook"}, "storeLocks")
\* rtc_store_deinit deletes the locks before it clears its flag.
DisableStoreLocks == DisablePart("storeLocks", {"storeLock"}, "storeOff")
DisableStore == DisablePart("storeOff", {"store", "events", "storeEvents"}, "queueTeardown")

\* The rest waits until the worker has come to the end of what it does; that
\* the item may not fit is not looked at.
QueueTeardown ==
  /\ app.pc = "queueTeardown"
  /\ wq' = AddTask("teardown")
  /\ AfterDisable
  /\ UNCHANGED <<s, up, entry, transport, tmr, logger, noTimer, memory, risky, lost>>

DisableStep ==
  \/ DisableOff \/ UnregisterPeriodic \/ DisableHook
  \/ DisableStoreLocks \/ DisableStore \/ QueueTeardown

\* esp_insights_init up to enable: node id, transport, work queue.  The result
\* of the transport's own init is ignored; it keeps a pointer to the node id.
InitBegin ==
  /\ app.pc = "node"
  /\ \/ s.lock # "null" /\ Return /\ UNCHANGED <<s, transport, wq>>
     \/ s.lock = "null" /\ Return /\ UNCHANGED <<s, transport, wq>>       \* no node id
     \/ /\ s.lock = "null"
        /\ s' = [s EXCEPT !.node_id = "live"]
        /\ \E n \in {"null", "live"} :
             transport' = IF transport.init THEN transport ELSE [init |-> TRUE, node |-> n]
        /\ \/ Goto("initErr") /\ UNCHANGED wq                             \* no work queue
           \/ Goto("alloc") /\ wq' = IF wq.state = "none" THEN [wq EXCEPT !.state = "ready"] ELSE wq
  /\ UNCHANGED <<up, entry, tmr, logger, noTimer, memory, risky, lost>>

\* ... and after enable: connect, start the work queue.
InitEnd ==
  /\ app.pc = "connect"
  /\ \/ Goto("initErr") /\ UNCHANGED wq
     \/ Return /\ wq' = [wq EXCEPT !.state = "running"]
  /\ UNCHANGED <<s, up, entry, transport, tmr, logger, noTimer, memory, risky, lost>>

\* Freeing the node id leaves the transport's pointer to it.
InitErr ==
  /\ app.pc = "initErr"
  /\ s' = [s EXCEPT !.node_id = "null"]
  /\ transport' = [transport EXCEPT !.node = Without(@)]
  /\ Goto("off")
  /\ UNCHANGED <<up, entry, wq, tmr, logger, noTimer, memory, risky, lost>>

\* The end of deinit: the transport is unregistered; the work queue stops
\* after the item being run, what is still queued is dropped.
TransportOff ==
  /\ app.pc = "transportOff"
  /\ transport' = [init |-> FALSE, node |-> "null"]
  /\ wq' = [wq EXCEPT !.state = "none", !.items = <<>>]
  /\ Return
  /\ UNCHANGED <<s, up, entry, tmr, logger, noTimer, memory, risky, lost>>

Call(name, pc) ==
  /\ app.pc = "idle"
  /\ app' = [call |-> name, pc |-> pc]
  /\ UNCHANGED <<s, up, entry, transport, wq, tmr, logger, noTimer, memory, risky, lost>>

\* esp_insights_send_data looks at Wi-Fi only.
SendData ==
  /\ app.pc = "idle" /\ CanAdd
  /\ wq' = AddTask("round")
  /\ risky' = (risky \/ ~s.enabled)
  /\ UNCHANGED <<s, up, entry, transport, app, tmr, logger, noTimer, memory, lost>>

\* With a host, only enable and disable are called.
AppStep ==
  \/ ~wq.host /\ (Call("init", "node") \/ Call("deinit", "off"))
  \/ Call("enable", "alloc") \/ Call("disable", "off")
  \/ SendData \/ EnableStep \/ DisableStep \/ InitBegin \/ InitEnd \/ InitErr \/ TransportOff

-----------------------------------------------------------------------------
(* The worker *)

Pop == [wq EXCEPT !.items = Tail(@)]
Running(i) == wq.state = "running" /\ wq.items # <<>> /\ Head(wq.items) = i

\* esp_insights_first_call: queue a round, start the timer without waiting.
FirstCall ==
  /\ Running("first")
  /\ wq' = [wq EXCEPT !.items = Append(Tail(@), "round")]
  /\ \/ tmr' = Post("start") /\ UNCHANGED lost
     \/ tmr' = tmr /\ lost' = TRUE
  /\ UNCHANGED <<s, up, entry, transport, app, logger, noTimer, memory, risky>>

\* insights_periodic_handler as far as it matters here: if Insights is active
\* it may send data at once.
Round ==
  /\ Running("round")
  /\ wq' = Pop
  /\ s' \in {s} \cup (IF s.enabled THEN {[s EXCEPT !.data_sent = TRUE]} ELSE {})
  /\ UNCHANGED <<up, entry, transport, app, tmr, logger, noTimer, memory, risky, lost>>

\* esp_insights_disable_internal; the read buffer is not freed.
Teardown ==
  /\ Running("teardown")
  /\ wq' = Pop
  /\ s' = [s EXCEPT !.lock = "null", !.scratch = "null", !.send_timer = "null", !.node_id = "null"]
  /\ transport' = [transport EXCEPT !.node = Without(@)]
  /\ UNCHANGED <<up, entry, app, tmr, logger, noTimer, memory, risky, lost>>

Worker == FirstCall \/ Round \/ Teardown

-----------------------------------------------------------------------------
(* The timer task: esp_insights_common_cb, and its commands *)

\* The one-shot timer expires; the callback reads and clears data_sent.
CbRead ==
  /\ tmr.pc = "idle" /\ entry.timer = "armed"
  /\ entry' = [entry EXCEPT !.timer = "dormant"]
  /\ tmr' = [tmr EXCEPT !.pc = "pace", !.sent = s.data_sent]
  /\ s' = [s EXCEPT !.data_sent = FALSE]
  /\ UNCHANGED <<up, transport, wq, app, logger, noTimer, memory, risky, lost>>

\* Faulty variant: the period is not held below the maximum.
PeriodUnclamped(cur, sent) ==
  IF sent THEN 2 * cur ELSE IF cur \div 2 < MinPeriod THEN MinPeriod ELSE cur \div 2

\* Doubled after an interval in which data was sent, halved otherwise.
Period(cur, sent) ==
  IF sent THEN IF 2 * cur > MaxPeriod THEN MaxPeriod ELSE 2 * cur
          ELSE IF cur \div 2 < MinPeriod THEN MinPeriod ELSE cur \div 2

\* Faulty variant: the timer is restarted only if a round was queued.
RestartIfActive ==
  /\ tmr.pc = "pace" /\ entry.ptr = "live"
  /\ \E active \in {s.enabled, FALSE} :
       /\ wq' = IF active THEN AddTask("round") ELSE wq
       /\ tmr' = [IF active THEN Post("start") ELSE tmr EXCEPT !.pc = "idle"]
  /\ entry' = [entry EXCEPT !.cur = Period(@, tmr.sent)]
  /\ UNCHANGED <<s, up, transport, app, logger, noTimer, memory, risky, lost>>

\* ... queues a round if there is Wi-Fi, and starts the timer again by
\* xTimerChangePeriod and xTimerStart, which both fail if there is no room:
\* to wait is of no use in the task that makes room.
CbRestart ==
  /\ tmr.pc = "pace" /\ entry.ptr = "live"
  /\ \E active \in {s.enabled, FALSE} : wq' = IF active THEN AddTask("round") ELSE wq
  /\ entry' = [entry EXCEPT !.cur = Period(@, tmr.sent)]
  /\ \/ tmr' = [Post("start") EXCEPT !.pc = "idle"] /\ UNCHANGED lost
     \/ tmr' = [tmr EXCEPT !.pc = "idle"] /\ lost' = TRUE
  /\ UNCHANGED <<s, up, transport, app, logger, noTimer, memory, risky>>

\* One command is obeyed.
Obey ==
  /\ tmr.pc = "idle" /\ tmr.cmds # <<>>
  /\ tmr' = [tmr EXCEPT !.cmds = Tail(@)]
  /\ entry' = [entry EXCEPT !.timer = CASE Head(tmr.cmds) = "start" -> "armed"
                                         [] Head(tmr.cmds) = "stop" -> "dormant"
                                         [] OTHER -> "deleted"]
  /\ UNCHANGED <<s, up, transport, wq, app, logger, noTimer, memory, risky, lost>>

TimerTask == CbRead \/ CbRestart \/ Obey

-----------------------------------------------------------------------------
(* Everybody else *)

\* insights_event_handler on an acknowledgement, which may come at any time.
\* It uses the timer only for a data message: one of this boot's sessions.
Ack ==
  /\ "events" \in up
  /\ s' = [s EXCEPT !.data_sent = TRUE]
  /\ UNCHANGED <<up, entry, transport, wq, app, tmr, logger, noTimer, memory, risky, lost>>

\* insights_event_handler on a message deleted unanswered, be it the host's own:
\* the timer is used whatever the message.  Messages take a connection, without
\* which no work queue runs.  What is sent and lost is modelled in InsightsReport.
SendFailed ==
  /\ "events" \in up /\ wq.state = "running"
  /\ noTimer' = (s.send_timer = "null")
  /\ UNCHANGED <<s, up, entry, transport, wq, app, tmr, logger, memory, risky, lost>>

\* data_store_event_handler: little room is left in the store.
LowMem ==
  /\ "storeEvents" \in up /\ s.enabled /\ CanAdd
  /\ wq' = AddTask("round")
  /\ UNCHANGED <<s, up, entry, transport, app, tmr, logger, noTimer, memory, risky, lost>>

\* A record is written: the hook looks at the enabled types, the store at its
\* flag, then the lock is taken.
LogCheck ==
  /\ logger = "idle" /\ {"hook", "store"} \subseteq up
  /\ logger' = "writing"
  /\ UNCHANGED <<s, up, entry, transport, wq, app, tmr, noTimer, memory, risky, lost>>

LogWrite ==
  /\ logger = "writing"
  /\ logger' = "idle" /\ stored' = stored \cup {fw}
  /\ UNCHANGED <<s, up, entry, transport, wq, app, tmr, noTimer, nvs, fw, crcLost, risky, lost>>

\* External: the host starts its work queue when it is connected.
HostStart ==
  /\ wq.host /\ wq.state = "ready"
  /\ wq' = [wq EXCEPT !.state = "running"]
  /\ UNCHANGED <<s, up, entry, transport, app, tmr, logger, noTimer, memory, risky, lost>>

\* A reset, possibly into another firmware.  NVS and the store's memory stay.
Reboot ==
  /\ LET f == Fresh(wq.host) IN
       /\ s' = f.s /\ entry' = f.entry /\ transport' = f.transport
       /\ wq' = f.wq /\ app' = f.app /\ tmr' = f.tmr
  /\ up' = {} /\ logger' = "idle" /\ noTimer' = FALSE
  /\ fw' \in Layouts
  /\ risky' = FALSE /\ lost' = FALSE
  /\ UNCHANGED <<nvs, stored, crcLost>>

\* Somebody's next step uses something that is gone or not there yet: the
\* periodic entry, data_lock, the buffers, the node id, the timer, the store's
\* lock.  What that does is up to the heap, so only a reset follows.
UsesDead ==
  \/ Running("first") /\ entry.ptr # "live"
  \/ Running("round") /\ ~HasLock
  \/ Running("round") /\ s.enabled /\
       ~({s.scratch, s.read_buf, s.send_timer} = {"live"} /\ "store" \in up /\ transport.node # "freed")
  \/ tmr.pc = "idle" /\ entry.timer = "armed" /\ ~HasLock
  \/ tmr.pc = "pace" /\ entry.ptr # "live"
  \/ tmr.cmds # <<>> /\ entry.timer = "deleted"
  \/ logger = "writing" /\ "storeLock" \notin up
  \/ "events" \in up /\ ~HasLock
  \/ noTimer

Next ==
  \/ /\ ~UsesDead
     /\ AppStep \/ Worker \/ TimerTask \/ Ack \/ SendFailed \/ LowMem \/ LogCheck \/ LogWrite \/ HostStart
  \/ Reboot

\* The worker and the timer task run whenever they can; timers expire.
Fairness == WF_vars(~UsesDead /\ Worker) /\ WF_vars(~UsesDead /\ TimerTask)
Spec == Init /\ [][Next]_vars /\ Fairness

-----------------------------------------------------------------------------
(* Properties *)

\* Types; the period stays within its limits.
TypeOK ==
  /\ s \in [lock : {"null", "live"}, scratch : Pointer, read_buf : {"null", "live"},
            node_id : {"null", "live"}, send_timer : {"null", "live"},
            enabled : BOOLEAN, data_sent : BOOLEAN]
  /\ up \subseteq AllParts
  /\ entry \in [ptr : Pointer, timer : {"none", "dormant", "armed", "deleted"}, cur : MinPeriod..MaxPeriod]
  /\ transport \in [init : BOOLEAN, node : Pointer]
  /\ wq.host \in BOOLEAN /\ wq.state \in {"none", "ready", "running"}
  /\ wq.items \in BoundedSeq(Items, QueueCap)
  /\ app \in [call : Calls, pc : {"idle"} \cup EnablePcs \cup DisablePcs \cup InitPcs]
  /\ tmr.pc \in {"idle", "pace"} /\ tmr.sent \in BOOLEAN
  /\ tmr.cmds \in BoundedSeq({"start", "stop", "delete"}, 4)
  /\ logger \in {"idle", "writing"} /\ noTimer \in BOOLEAN
  /\ nvs \in Layouts \cup {NoCrc} /\ fw \in Layouts /\ stored \subseteq Layouts
  /\ risky \in BOOLEAN /\ lost \in BOOLEAN /\ crcLost \in BOOLEAN

\* While enabled is set everything a round, a callback or a handler uses
\* exists, and no teardown of an earlier session is still queued: a failed
\* enable sets nothing, a disabled session ends before the next one begins.
UpMeansWhole ==
  s.enabled =>
    /\ s.lock = "live" /\ s.scratch = "live" /\ s.read_buf = "live" /\ s.send_timer = "live"
    /\ entry.ptr = "live" /\ entry.timer # "deleted"
    /\ up = AllParts
    /\ ~Contains(wq.items, "teardown")

\* Whatever order the tasks run in and whichever step of enable fails, nothing
\* that is gone or not there yet is used unless disable was called, or a round
\* was asked for while Insights was down.  One use is excepted: an enable that
\* has not come to the creation of data_send_timer, or failed before it, leaves
\* insights_event_handler registered, which uses the timer of any message that
\* is deleted.  While Insights is enabled even that does not happen.
DeadOnlyAfterDisable == UsesDead => risky \/ (noTimer /\ ~s.enabled)

\* The chain of one-shot timers goes on: after the first call the timer is
\* armed, about to be, or in its callback, unless a command found no room.
ChainGoesOn ==
  s.enabled /\ ~lost /\ ~Contains(wq.items, "first") =>
    entry.timer = "armed" \/ Contains(tmr.cmds, "start") \/ tmr.pc # "idle"

\* While records are collected or may be parsed, the store holds only records
\* of the running firmware's layout, whatever was booted before and wherever a
\* reset struck, unless the layout CRC could not be written.
ForeignOnlyAfterLostCrc ==
  ~crcLost /\ "hook" \in up => stored \subseteq {fw}

\* As long as Insights stays enabled with a running work queue, and no timer
\* command was lost, the periodic callback keeps coming back.
CallbacksGoOn ==
  <>[](s.enabled /\ wq.state = "running" /\ ~UsesDead /\ ~lost) => []<>(tmr.pc = "pace")

=============================================================================
