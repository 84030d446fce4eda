--------------------------- MODULE InsightsReport ---------------------------
(***************************************************************************)
(* The reporting agent of esp_insights.c: how boot data, metadata and       *)
(* critical records travel to the cloud.  Four tasks share s_insights_data: *)
(*   - the work queue's task runs insights_periodic_handler, one round at a *)
(*     time, and hands messages to the transport;                           *)
(*   - the event loop's task runs insights_event_handler;                   *)
(*   - the timer task runs data_send_timeout_cb and obeys timer commands;   *)
(*   - loggers and metrics append to the store and register metadata.       *)
(* A section under data_lock is one step.  The transport is MQTT (Async: a  *)
(* message gets an id, and an event tells of its fate later) or HTTPS (the  *)
(* call itself tells, and posts an event without a message id).             *)
(*                                                                         *)
(* Critical data is counted in records: wr have been written since the      *)
(* store was empty, the oldest rel of them released.  Non-critical data is  *)
(* released before it is sent (RtcStore has the store's side of it).        *)
(* data_sent, which only sets the pace of the periodic timer, is left out,  *)
(* and so is INSIGHTS_CMD_RESP, which is off by default.                    *)
(***************************************************************************)
EXTENDS Integers, Sequences, SequencesExt

CONSTANTS Async,      \* MQTT rather than HTTPS
          Deleted,    \* CONFIG_MQTT_REPORT_DELETED_MESSAGES
          QueueLen,   \* length of the work queue
          EventsLen,  \* length of the event loop's queue
          CmdsLen,    \* length of the timer command queue
          MaxRec, MaxMsg, MaxMeta, MaxBoots   \* bounds: records written, messages
                      \* sent, metadata versions, restarts

ASSUME ReportAssumption ==
  /\ Async \in BOOLEAN /\ Deleted \in BOOLEAN
  /\ QueueLen \in Nat \ {0} /\ EventsLen \in Nat \ {0} /\ CmdsLen \in Nat \ {0}
  /\ MaxRec \in Nat /\ MaxMsg \in Nat /\ MaxMeta \in Nat \ {0} /\ MaxBoots \in Nat

VARIABLES
  pc,            \* where the worker is in insights_periodic_handler
  msg_id,        \* what esp_insights_transport_data_send returned to it
  consumed,      \* critical records encoded in this round: [from, n]
  queue,         \* work items waiting: calls of insights_periodic_handler
  inprogress,    \* data_send_inprogress
  boot_msg_id,   \* -1: failed, 0: success, >0: in progress
  data_msg_id, data_msg_len,
  meta_msg_pending, meta_msg_id,
  meta_crc,      \* version of the metadata last seen to differ from nvs_crc
  crc,           \* version of the metadata registered now
  nvs_crc,       \* version stored in NVS as delivered, 0 if none
  timer,         \* data_send_timer: running, and its callback due
  cmds,          \* commands the timer task has not obeyed yet
  events,        \* INSIGHTS_EVENTs not handled yet: [ok, id], id 0 for no data
  wifi,          \* esp_wifi_sta_get_ap_info() == ESP_OK
  wr, rel,       \* critical records written and released
  coredump,      \* a core dump image waits in flash
  net,           \* messages the transport has accepted and not given up
  sent,          \* history: number of messages accepted, boots so far
  got,           \* history: what has reached the cloud
  overtaken      \* history: an acknowledgement released records while the
                 \* worker had encoded and not yet recorded the next message

worker == <<pc, msg_id, consumed>>
agent  == <<inprogress, boot_msg_id, data_msg_id, data_msg_len,
            meta_msg_pending, meta_msg_id, meta_crc>>
store  == <<wr, rel>>
flash  == <<nvs_crc, coredump>>
outside == <<net, sent, got, overtaken>>
vars == <<worker, queue, agent, crc, flash, timer, cmds, events, wifi, store, outside>>

Kind    == {"meta", "boot", "data"}
Range_  == [from : 0..MaxRec, n : 0..MaxRec]
Message == [id : 1..MaxMsg, kind : Kind, data : Range_, crc : 0..MaxMeta,
            delivered : BOOLEAN]
Nothing == [from |-> 0, n |-> 0]

\* Every variable has its type and every queue keeps within its length.
TypeOK ==
  /\ pc \in {"idle", "meta", "sendMeta", "metaId", "boot", "sendBoot", "bootId",
             "gather", "sendData", "dataId", "end"}
  /\ msg_id \in 0..MaxMsg /\ consumed \in Range_
  /\ queue \in 0..QueueLen
  /\ inprogress \in BOOLEAN
  /\ boot_msg_id \in -1..MaxMsg
  /\ data_msg_id \in 0..MaxMsg /\ data_msg_len \in 0..MaxRec
  /\ meta_msg_pending \in BOOLEAN /\ meta_msg_id \in 0..MaxMsg
  /\ meta_crc \in 0..MaxMeta /\ crc \in 1..MaxMeta /\ nvs_crc \in 0..MaxMeta
  /\ timer \in [active : BOOLEAN, due : BOOLEAN]
  /\ cmds \in Seq({"reset", "stop"}) /\ Len(cmds) <= CmdsLen
  /\ events \in Seq([ok : BOOLEAN, id : 0..MaxMsg]) /\ Len(events) <= EventsLen
  /\ wifi \in BOOLEAN /\ coredump \in BOOLEAN
  /\ wr \in 0..MaxRec /\ rel \in 0..MaxRec
  /\ net \subseteq Message
  /\ sent \in [msgs : 0..MaxMsg, boots : 0..MaxBoots]
  /\ got \in [records : SUBSET (0..MaxRec-1), meta : 0..MaxMeta, boot : BOOLEAN]
  /\ overtaken \in BOOLEAN

\* esp_insights_enable has run: the first round is queued, nothing is sent.
Init ==
  /\ pc = "idle" /\ msg_id = 0 /\ consumed = Nothing
  /\ queue = 1
  /\ inprogress = FALSE /\ boot_msg_id = -1
  /\ data_msg_id = 0 /\ data_msg_len = 0
  /\ meta_msg_pending = FALSE /\ meta_msg_id = 0 /\ meta_crc = 0
  /\ crc = 1 /\ nvs_crc \in {0, 1}
  /\ timer = [active |-> FALSE, due |-> FALSE] /\ cmds = <<>>
  /\ events = <<>> /\ wifi \in BOOLEAN
  /\ wr = 0 /\ rel = 0 /\ coredump = TRUE
  /\ net = {} /\ sent = [msgs |-> 0, boots |-> 0]
  /\ got = [records |-> {}, meta |-> nvs_crc, boot |-> FALSE]
  /\ overtaken = FALSE

-----------------------------------------------------------------------------
(* The transport.                                                           *)

\* What the cloud has once message m has reached it.
With(m) ==
  CASE m.kind = "data" -> [got EXCEPT !.records = @ \cup {m.data.from + i : i \in 0..m.data.n-1}]
    [] m.kind = "meta" -> [got EXCEPT !.meta = IF @ < m.crc THEN m.crc ELSE @]
    [] m.kind = "boot" -> [got EXCEPT !.boot = TRUE]

NextMessage(kind) == [id |-> sent.msgs + 1, kind |-> kind, data |-> consumed,
                      crc |-> IF kind = "meta" THEN crc ELSE 0, delivered |-> FALSE]

Accept(kind) ==
  /\ sent.msgs < MaxMsg
  /\ net' = net \cup {NextMessage(kind)}
  /\ sent' = [sent EXCEPT !.msgs = @ + 1]
  /\ msg_id' = sent.msgs + 1
  /\ UNCHANGED <<got, events, overtaken>>

\* esp_insights_mqtt_data_send: an id, or -1.
MqttSends(kind)   == Async /\ Accept(kind)
MqttRefuses == Async /\ UNCHANGED <<msg_id, events, outside>>

\* esp_insights_https_data_send: 0 after a 200 response, -1 otherwise; -1
\* does not mean that the message did not arrive, and an early failure posts
\* no event.
Post(ok) == /\ Len(events) < EventsLen
            /\ events' = Append(events, [ok |-> ok, id |-> 0])
HttpsSends(kind) == /\ ~Async /\ wifi
                    /\ got' = With([NextMessage(kind) EXCEPT !.delivered = TRUE])
                    /\ Post(TRUE)
                    /\ UNCHANGED <<net, sent, msg_id, overtaken>>
HttpsFails(kind) == /\ ~Async
                    /\ got' \in {got} \cup (IF wifi THEN {With(NextMessage(kind))} ELSE {})
                    /\ Post(FALSE) \/ (got' = got /\ UNCHANGED events)
                    /\ UNCHANGED <<net, sent, msg_id, overtaken>>

SendFails(kind) == MqttRefuses \/ HttpsFails(kind)

-----------------------------------------------------------------------------
(* The worker: insights_periodic_handler.                                   *)

\* The handler returns and its locals are gone.
Rest == pc' = "idle" /\ msg_id' = 0 /\ consumed' = Nothing

StartRound ==
  /\ pc = "idle" /\ queue > 0
  /\ queue' = queue - 1
  /\ IF ~wifi THEN inprogress' = FALSE /\ UNCHANGED worker
     ELSE IF inprogress THEN UNCHANGED <<inprogress, worker>>
     ELSE /\ inprogress' = TRUE
          /\ pc' = "meta" /\ UNCHANGED <<msg_id, consumed>>
  /\ UNCHANGED <<boot_msg_id, data_msg_id, data_msg_len, meta_msg_pending,
                 meta_msg_id, meta_crc, crc, flash, timer, cmds, events, wifi,
                 store, outside>>

\* insights_meta_changed
CheckMeta ==
  /\ pc = "meta"
  /\ IF nvs_crc = crc THEN pc' = "boot" /\ UNCHANGED meta_crc
                      ELSE pc' = "sendMeta" /\ meta_crc' = crc
  /\ UNCHANGED <<msg_id, consumed, queue, inprogress, boot_msg_id, data_msg_id,
                 data_msg_len, meta_msg_pending, meta_msg_id, crc, flash, timer,
                 cmds, events, wifi, store, outside>>

\* Faulty variant: the version is recorded whatever the transport answers.
SendMetaUnproven ==
  /\ pc = "sendMeta"
  /\ \/ MqttSends("meta") /\ pc' = "metaId"
     \/ (HttpsSends("meta") \/ SendFails("meta")) /\ pc' = "boot"
  /\ nvs_crc' = meta_crc
  /\ UNCHANGED <<consumed, queue, agent, crc, coredump, timer, cmds, wifi, store>>

SendMeta ==
  /\ pc = "sendMeta"
  /\ \/ MqttSends("meta")  /\ pc' = "metaId" /\ UNCHANGED nvs_crc
     \/ HttpsSends("meta") /\ pc' = "boot" /\ nvs_crc' = meta_crc
     \/ SendFails("meta")  /\ pc' = "boot" /\ UNCHANGED nvs_crc
  /\ UNCHANGED <<consumed, queue, agent, crc, coredump, timer, cmds, wifi, store>>

RecordMetaId ==
  /\ pc = "metaId"
  /\ meta_msg_pending' = TRUE /\ meta_msg_id' = msg_id
  /\ pc' = "boot" /\ msg_id' = 0
  /\ UNCHANGED <<consumed, queue, inprogress, boot_msg_id, data_msg_id,
                 data_msg_len, meta_crc, crc, flash, timer, cmds, events, wifi,
                 store, outside>>

CheckBoot ==
  /\ pc = "boot"
  /\ pc' = IF boot_msg_id = -1 THEN "sendBoot" ELSE "gather"
  /\ UNCHANGED <<msg_id, consumed, queue, agent, crc, flash, timer, cmds, events,
                 wifi, store, outside>>

\* Faulty variant: the image is erased whatever the transport answers.
SendBootUnproven ==
  /\ pc = "sendBoot"
  /\ \/ MqttSends("boot")  /\ pc' = "bootId" /\ UNCHANGED boot_msg_id
     \/ HttpsSends("boot") /\ pc' = "gather" /\ boot_msg_id' = 0
     \/ SendFails("boot")  /\ pc' = "gather" /\ boot_msg_id' = -1
  /\ coredump' = FALSE
  /\ UNCHANGED <<consumed, queue, inprogress, data_msg_id, data_msg_len,
                 meta_msg_pending, meta_msg_id, meta_crc, crc, nvs_crc, timer,
                 cmds, wifi, store>>

\* send_boottime_data, up to the transport's answer
SendBoot ==
  /\ pc = "sendBoot"
  /\ \/ MqttSends("boot")  /\ pc' = "bootId" /\ UNCHANGED <<boot_msg_id, coredump>>
     \/ HttpsSends("boot") /\ pc' = "gather" /\ boot_msg_id' = 0 /\ coredump' = FALSE
     \/ SendFails("boot")  /\ pc' = "gather" /\ boot_msg_id' = -1 /\ UNCHANGED coredump
  /\ UNCHANGED <<consumed, queue, inprogress, data_msg_id, data_msg_len,
                 meta_msg_pending, meta_msg_id, meta_crc, crc, nvs_crc, timer,
                 cmds, wifi, store>>

\* its last step for an asynchronous message: no lock is held
RecordBootId ==
  /\ pc = "bootId"
  /\ boot_msg_id' = msg_id
  /\ pc' = "gather" /\ msg_id' = 0
  /\ UNCHANGED <<consumed, queue, inprogress, data_msg_id, data_msg_len,
                 meta_msg_pending, meta_msg_id, meta_crc, crc, flash, timer, cmds,
                 events, wifi, store, outside>>

\* send_insights_data until the message is encoded: some of the oldest
\* critical records, perhaps non-critical data.
Gather ==
  /\ pc = "gather"
  /\ \E n \in 0..wr - rel, nonCritical \in BOOLEAN :
       /\ n = 0 => wr = rel
       /\ consumed' = [from |-> rel, n |-> n]
       /\ pc' = IF n > 0 \/ nonCritical THEN "sendData" ELSE "end"
  /\ UNCHANGED <<msg_id, queue, agent, crc, flash, timer, cmds, events, wifi,
                 store, outside>>

\* esp_diag_data_store_critical_release
CriticalRelease(n) == rel' = IF wr - rel < n THEN rel ELSE rel + n

\* Faulty variant: records are released whatever the transport answers.
SendDataUnproven ==
  /\ pc = "sendData"
  /\ \/ MqttSends("data") /\ pc' = "dataId"
     \/ (HttpsSends("data") \/ SendFails("data")) /\ pc' = "end"
  /\ CriticalRelease(consumed.n)
  /\ UNCHANGED <<consumed, queue, agent, crc, flash, timer, cmds, wifi, wr>>

SendData ==
  /\ pc = "sendData"
  /\ \/ MqttSends("data")  /\ pc' = "dataId" /\ UNCHANGED rel
     \/ HttpsSends("data") /\ pc' = "end" /\ CriticalRelease(consumed.n)
     \/ SendFails("data")  /\ pc' = "end" /\ UNCHANGED rel
  /\ UNCHANGED <<consumed, queue, agent, crc, flash, timer, cmds, wifi, wr>>

\* Faulty variant: the timeout timer is not started.
RecordWithoutTimer ==
  /\ pc = "dataId"
  /\ data_msg_len' = consumed.n /\ data_msg_id' = msg_id
  /\ Rest
  /\ UNCHANGED <<queue, inprogress, boot_msg_id,
                 meta_msg_pending, meta_msg_id, meta_crc, crc, flash, timer, cmds,
                 events, wifi, store, outside>>

RecordDataId ==
  /\ pc = "dataId"
  /\ Len(cmds) < CmdsLen
  /\ data_msg_len' = consumed.n /\ data_msg_id' = msg_id
  /\ cmds' = Append(cmds, "reset")
  /\ Rest
  /\ UNCHANGED <<queue, inprogress, boot_msg_id,
                 meta_msg_pending, meta_msg_id, meta_crc, crc, flash, timer,
                 events, wifi, store, outside>>

\* Faulty variant: a round without a message returns without clearing the flag.
EndKeepingFlag ==
  /\ pc = "end"
  /\ Rest
  /\ UNCHANGED <<queue, agent, crc, flash, timer, cmds, events, wifi, store, outside>>

EndRound ==
  /\ pc = "end"
  /\ inprogress' = FALSE
  /\ Rest
  /\ UNCHANGED <<queue, boot_msg_id, data_msg_id, data_msg_len,
                 meta_msg_pending, meta_msg_id, meta_crc, crc, flash, timer, cmds,
                 events, wifi, store, outside>>

-----------------------------------------------------------------------------
(* The event loop: insights_event_handler.                                  *)

\* xTimerIsTimerActive tells what the timer task has done so far, whatever
\* commands it still has to obey.
StopTimer == IF timer.active
             THEN Len(cmds) < CmdsLen /\ cmds' = Append(cmds, "stop")
             ELSE UNCHANGED cmds

HandleSuccess ==
  /\ events # <<>> /\ Head(events).ok
  /\ events' = Tail(events)
  /\ LET id == Head(events).id IN
     \/ /\ id # 0 /\ id = data_msg_id
        /\ CriticalRelease(data_msg_len)
        /\ inprogress' = FALSE
        /\ StopTimer
        /\ overtaken' = (overtaken \/ pc \in {"sendData", "dataId"})
        /\ UNCHANGED <<nvs_crc, meta_msg_pending, boot_msg_id, coredump>>
     \/ /\ id # 0 /\ id # data_msg_id
        /\ meta_msg_pending /\ id = meta_msg_id
        /\ nvs_crc' = meta_crc
        /\ meta_msg_pending' = FALSE
        /\ UNCHANGED <<rel, inprogress, cmds, boot_msg_id, coredump, overtaken>>
     \/ /\ id # 0 /\ id # data_msg_id
        /\ ~(meta_msg_pending /\ id = meta_msg_id)
        /\ id = boot_msg_id
        /\ coredump' = FALSE
        /\ boot_msg_id' = 0
        /\ UNCHANGED <<rel, inprogress, cmds, nvs_crc, meta_msg_pending, overtaken>>
     \/ /\ id = 0 \/ (/\ id # data_msg_id
                      /\ ~(meta_msg_pending /\ id = meta_msg_id)
                      /\ id # boot_msg_id)
        /\ UNCHANGED <<rel, inprogress, cmds, nvs_crc, meta_msg_pending,
                       boot_msg_id, coredump, overtaken>>
  /\ UNCHANGED <<worker, queue, data_msg_id, data_msg_len, meta_msg_id, meta_crc,
                 crc, timer, wifi, wr, net, sent, got>>

HandleFailure ==
  /\ events # <<>> /\ ~Head(events).ok
  /\ events' = Tail(events)
  /\ StopTimer
  /\ inprogress' = FALSE
  /\ boot_msg_id' = IF boot_msg_id > 0 /\ Head(events).id = boot_msg_id
                    THEN -1 ELSE boot_msg_id
  /\ UNCHANGED <<worker, queue, data_msg_id, data_msg_len, meta_msg_pending,
                 meta_msg_id, meta_crc, crc, flash, timer, wifi, store, outside>>

-----------------------------------------------------------------------------
(* The timer task.  While a callback is due it obeys no commands.           *)

ObeyCommand ==
  /\ cmds # <<>> /\ ~timer.due
  /\ timer' = [timer EXCEPT !.active = (Head(cmds) = "reset")]
  /\ cmds' = Tail(cmds)
  /\ UNCHANGED <<worker, queue, agent, crc, flash, events, wifi, store, outside>>

\* A one-shot timer is inactive from its expiry on; its callback then waits
\* for data_lock.
Expire ==
  /\ timer.active /\ ~timer.due
  /\ timer' = [active |-> FALSE, due |-> TRUE]
  /\ UNCHANGED <<worker, queue, agent, crc, flash, cmds, events, wifi, store, outside>>

\* data_send_timeout_cb
TimeoutCb ==
  /\ timer.due
  /\ timer' = [timer EXCEPT !.due = FALSE]
  /\ inprogress' = FALSE
  /\ boot_msg_id' = IF boot_msg_id > 0 THEN -1 ELSE boot_msg_id
  /\ UNCHANGED <<worker, queue, data_msg_id, data_msg_len, meta_msg_pending,
                 meta_msg_id, meta_crc, crc, flash, cmds, events, wifi, store,
                 outside>>

-----------------------------------------------------------------------------
(* The rest of the device, and the network.                                 *)

\* Faulty variant: a full work queue is not noticed.
TriggerAlways ==
  /\ wifi
  /\ queue' = queue + 1
  /\ UNCHANGED <<worker, agent, crc, flash, timer, cmds, events, wifi, store, outside>>

\* The periodic timer, a low-memory event or the application asks for a round.
Trigger ==
  /\ wifi /\ queue < QueueLen
  /\ queue' = queue + 1
  /\ UNCHANGED <<worker, agent, crc, flash, timer, cmds, events, wifi, store, outside>>

\* esp_diag_data_store_critical_write; a record that does not fit is dropped.
Log ==
  /\ wr < MaxRec
  /\ wr' = wr + 1
  /\ UNCHANGED <<worker, queue, agent, crc, flash, timer, cmds, events, wifi, rel, outside>>

\* A metric or a variable is registered.
RegisterMeta ==
  /\ crc < MaxMeta
  /\ crc' = crc + 1
  /\ UNCHANGED <<worker, queue, agent, flash, timer, cmds, events, wifi, store, outside>>

WifiChange ==
  /\ wifi' = ~wifi
  /\ UNCHANGED <<worker, queue, agent, crc, flash, timer, cmds, events, store, outside>>

Deliver(m) ==
  /\ ~m.delivered /\ wifi
  /\ got' = With(m)
  /\ net' = (net \ {m}) \cup {[m EXCEPT !.delivered = TRUE]}
  /\ UNCHANGED <<worker, queue, agent, crc, flash, timer, cmds, events, wifi, store, sent, overtaken>>

\* The broker's acknowledgement arrives: RMAKER_MQTT_EVENT_PUBLISHED.
Acknowledge(m) ==
  /\ m.delivered /\ wifi
  /\ Len(events) < EventsLen
  /\ events' = Append(events, [ok |-> TRUE, id |-> m.id])
  /\ net' = net \ {m}
  /\ UNCHANGED <<worker, queue, agent, crc, flash, timer, cmds, wifi, store, sent, got, overtaken>>

\* The MQTT client gives the message up, delivered or not, and says so
\* (RMAKER_MQTT_EVENT_MSG_DELETED) only if it is configured to.
GiveUp(m) ==
  /\ net' = net \ {m}
  /\ IF Deleted
     THEN /\ Len(events) < EventsLen
          /\ events' = Append(events, [ok |-> FALSE, id |-> m.id])
     ELSE UNCHANGED events
  /\ UNCHANGED <<worker, queue, agent, crc, flash, timer, cmds, wifi, store, sent, got, overtaken>>

\* A panic and the boot after it: RAM and the transport's queue are gone, the
\* data store, NVS and a new core dump are there.
Restart ==
  /\ sent.boots < MaxBoots
  /\ sent' = [sent EXCEPT !.boots = @ + 1]
  /\ Rest /\ queue' = 1
  /\ inprogress' = FALSE /\ boot_msg_id' = -1
  /\ data_msg_id' = 0 /\ data_msg_len' = 0
  /\ meta_msg_pending' = FALSE /\ meta_msg_id' = 0 /\ meta_crc' = 0
  /\ timer' = [active |-> FALSE, due |-> FALSE] /\ cmds' = <<>>
  /\ events' = <<>> /\ net' = {}
  /\ coredump' = TRUE /\ got' = [got EXCEPT !.boot = FALSE]
  /\ UNCHANGED <<crc, nvs_crc, wifi, store, overtaken>>

Worker == \/ StartRound \/ CheckMeta \/ SendMeta \/ RecordMetaId \/ CheckBoot
          \/ SendBoot \/ RecordBootId \/ Gather \/ SendData \/ RecordDataId \/ EndRound
EventLoop == HandleSuccess \/ HandleFailure
TimerTask == ObeyCommand \/ TimeoutCb

Next == \/ Worker \/ EventLoop \/ TimerTask \/ Expire
        \/ Trigger \/ Log \/ RegisterMeta \/ WifiChange \/ Restart
        \/ \E m \in net : Deliver(m) \/ Acknowledge(m) \/ GiveUp(m)

Spec == Init /\ [][Next]_vars

\* Every task that has something to do gets to run, an active timer expires,
\* and rounds keep being asked for.  Nothing is assumed of the network.
LocalFairness == /\ WF_vars(Worker) /\ WF_vars(EventLoop) /\ WF_vars(TimerTask)
                 /\ WF_vars(Expire) /\ WF_vars(Trigger)

\* A message the transport has accepted reaches the cloud, is acknowledged or
\* is given up.
NetFairness == WF_vars(\E m \in net : Deliver(m) \/ Acknowledge(m) \/ GiveUp(m))

FairSpec    == Spec /\ LocalFairness
FairNetSpec == FairSpec /\ NetFairness

-----------------------------------------------------------------------------
\* The flag that keeps rounds out is never left set with nobody to clear it:
\* a round is under way, or the last the timer task was told is to run the
\* timer, or the timer's callback is due.
SomeoneWillClear ==
  inprogress => \/ pc # "idle"
                \/ IF cmds # <<>> THEN Last(cmds) = "reset"
                                  ELSE timer.active \/ timer.due

\* A record leaves the device's store only after it has reached the cloud,
\* unless an acknowledgement has released records between the encoding of a
\* message and the recording of its id and length.
ReleasedOnlySent ==
  overtaken \/ \A r \in 0..rel-1 : r \in got.records

\* What the comment above send_insights_data says of late acknowledgements
\* ("there is the possibility of data duplication"): data may arrive twice,
\* but none is dropped unsent.
NothingLost == \A r \in 0..rel-1 : r \in got.records

\* The metadata version recorded in NVS as delivered is one that the cloud
\* has ("crc found and matched, no need to send insights meta").
MetaDelivered == nvs_crc <= got.meta

\* The core dump image is erased only once the boot message that reports it
\* has reached the cloud.
CoredumpKept == ~coredump => got.boot

\* data_send_inprogress is always cleared again, whatever the network does.
InProgressEnds == inprogress ~> ~inprogress

\* boot_msg_id ("-1:failed, 0:success, >0:inprogress") does not stay at
\* "in progress" for ever once the message's fate is decided.
BootResolves == boot_msg_id > 0 ~> boot_msg_id <= 0
=============================================================================
