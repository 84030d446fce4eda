------------------------------ MODULE Registry ------------------------------
(***************************************************************************)
(* The tables of metrics and variables (esp_diagnostics_metrics.c and      *)
(* _variables.c), and the worker that tells the cloud about them when      *)
(* their CRC differs from the one in NVS (esp_insights.c).                 *)
(*                                                                         *)
(* Nothing locks the tables.  A task registers and unregisters while the   *)
(* worker goes through them entry by entry, once for the CRC and once for  *)
(* the document.  The transport answers a document at once (HTTPS), or its *)
(* acknowledgement comes later to the event loop, perhaps rounds later     *)
(* (MQTT).  The application, whose SHA the CRC begins with, is the same    *)
(* throughout.                                                             *)
(***************************************************************************)
EXTENDS Documents

CONSTANTS
  MaxMetrics,    \* DIAG_METRICS_MAX_COUNT
  MaxVariables,  \* DIAG_VARIABLES_MAX_COUNT
  Tags, Keys,    \* tags and keys used
  MaxChanges     \* bound: calls that change the tables

\* "" stands for the null pointer of an entry that is cleared.
ASSUME RegistryAssumption ==
  /\ MaxMetrics \in Nat \ {0} /\ MaxVariables \in Nat \ {0} /\ MaxChanges \in Nat
  /\ "" \notin Tags

Kinds == {"metrics", "variables"}
Empty == [tag |-> "", key |-> "", unit |-> ""]
Entries == [tag : Tags, key : Keys, unit : {"", "unit"}]

VARIABLES
  init,      \* the initialised tables
  count,     \* number of entries of a table
  slots,     \* the array of a table
  task,      \* the task that changes them: its next step, and on which table
  worker,    \* the worker: step, entries latched and read
  meta_crc,  \* the CRC of the last round that found the tables changed
  pending,   \* the document whose acknowledgement is awaited: its CRC, and unrest then
  nvs,       \* CRC in NVS: <<>> or <<crc>>
  cloud,     \* what the cloud got: all entries told, and its last document
  changes,   \* calls so far that changed the tables
  unrest,    \* history: an entry was taken away during this round of the worker
  nvsUnrest, \* history: the same of the round whose document the CRC in NVS was written for
  nvsMoved   \* history: the CRC in NVS is not the one of the document it was written for

tables == <<init, count, slots, changes>>
told == <<pending, nvs, cloud, nvsUnrest, nvsMoved>>
vars == <<tables, task, worker, meta_crc, told, unrest>>

MaxCount(k) == IF k = "metrics" THEN MaxMetrics ELSE MaxVariables
NoTable(k) == [i \in 1..MaxCount(k) |-> Empty]
Idle == [pc |-> "idle", kind |-> "metrics", len |-> 0, null |-> FALSE, read |-> [k \in Kinds |-> <<>>]]
NonePending == [on |-> FALSE, crc |-> <<>>, unrest |-> FALSE]

Init ==
  /\ init = {}
  /\ count = [k \in Kinds |-> 0] /\ slots = [k \in Kinds |-> NoTable(k)]
  /\ task = [pc |-> "idle", kind |-> "metrics"]
  /\ worker = Idle
  /\ meta_crc = <<>> /\ pending = NonePending
  /\ nvs = <<>> /\ cloud = [entries |-> {}, wellFormed |-> TRUE, unrest |-> FALSE]
  /\ changes = 0 /\ unrest = FALSE /\ nvsUnrest = FALSE /\ nvsMoved = FALSE

Table(k) == SubSeq(slots[k], 1, count[k])
Find(k, tag, key) == { i \in 1..count[k] : slots[k][i].tag = tag /\ slots[k][i].key = key }

\* The CRC covers the strings of every entry in order, but not its unit nor
\* the table it is in.
Crc(metrics, variables) ==
  LET strings(t) == [i \in 1..Len(t) |-> <<t[i].tag, t[i].key>>]
  IN strings(metrics) \o strings(variables)

-----------------------------------------------------------------------------
(* The task that changes the tables *)

Quiet == UNCHANGED <<worker, meta_crc, told>>
Change == changes < MaxChanges /\ changes' = changes + 1
Unsettle == unrest' = (unrest \/ worker.pc # "idle")

\* esp_diag_metrics_init and then esp_diag_variable_init, by enable
InitTable(k) ==
  /\ task.pc = "idle" /\ k \notin init
  /\ k = "variables" => "metrics" \in init
  /\ init' = init \cup {k}
  /\ UNCHANGED <<count, slots, changes, task, unrest>> /\ Quiet

\* The entry is written behind the last one ...
Write(k, tag, key) ==
  /\ slots' = [slots EXCEPT ![k][count[k] + 1] = [tag |-> tag, key |-> key, unit |-> ""]]
  /\ task' = [pc |-> "count", kind |-> k]

\* Faulty variant: two tags may have the same key, and a pair be there twice.
RegisterUnchecked(k, tag, key) ==
  /\ Change /\ task.pc = "idle" /\ k \in init
  /\ count[k] < MaxCount(k)
  /\ Write(k, tag, key)
  /\ UNCHANGED <<init, count, unrest>> /\ Quiet

Register(k, tag, key) ==
  /\ Change /\ task.pc = "idle" /\ k \in init
  /\ count[k] < MaxCount(k) /\ Find(k, tag, key) = {}
  /\ Write(k, tag, key)
  /\ UNCHANGED <<init, count, unrest>> /\ Quiet

\* ... then counted.
Count ==
  /\ task.pc = "count"
  /\ count' = [count EXCEPT ![task.kind] = @ + 1]
  /\ task' = [task EXCEPT !.pc = "idle"]
  /\ UNCHANGED <<changes, init, slots, unrest>> /\ Quiet

AddUnit(k, tag, key) ==
  /\ Change /\ task.pc = "idle" /\ k \in init
  /\ \E i \in Find(k, tag, key) : slots' = [slots EXCEPT ![k][i].unit = "unit"]
  /\ UNCHANGED <<init, count, task, unrest>> /\ Quiet

\* The last entry takes the place of the one that goes ...
Unregister(k, tag, key) ==
  /\ Change /\ task.pc = "idle"
  /\ \E i \in Find(k, tag, key) : slots' = [slots EXCEPT ![k][i] = slots[k][count[k]]]
  /\ task' = [pc |-> "clear", kind |-> k]
  /\ Unsettle
  /\ UNCHANGED <<init, count>> /\ Quiet

\* ... its own is cleared ...
ClearLast ==
  /\ task.pc = "clear"
  /\ slots' = [slots EXCEPT ![task.kind][count[task.kind]] = Empty]
  /\ task' = [task EXCEPT !.pc = "shrink"]
  /\ Unsettle
  /\ UNCHANGED <<changes, init, count>> /\ Quiet

\* ... and no longer counted.
Shrink ==
  /\ task.pc = "shrink"
  /\ count' = [count EXCEPT ![task.kind] = @ - 1]
  /\ task' = [task EXCEPT !.pc = "idle"]
  /\ Unsettle
  /\ UNCHANGED <<changes, init, slots>> /\ Quiet

\* unregister_all, and deinit, which clears the rest of the state as well.
ClearTable(k, initialised) ==
  /\ Change /\ task.pc = "idle" /\ k \in init
  /\ slots' = [slots EXCEPT ![k] = NoTable(k)]
  /\ count' = [count EXCEPT ![k] = 0]
  /\ init' = IF initialised THEN init ELSE init \ {k}
  /\ Unsettle
  /\ UNCHANGED task /\ Quiet

UnregisterAll(k) == ClearTable(k, TRUE)
\* By disable, the variables first.
DeinitTable(k) == (k = "metrics" => "variables" \notin init) /\ ClearTable(k, FALSE)

MetricsStep(tag, key) == Register("metrics", tag, key) \/ Unregister("metrics", tag, key) \/ AddUnit("metrics", tag, key)
VariablesStep(tag, key) == Register("variables", tag, key) \/ Unregister("variables", tag, key) \/ AddUnit("variables", tag, key)

TaskStep ==
  \/ \E k \in Kinds : InitTable(k) \/ UnregisterAll(k) \/ DeinitTable(k)
  \/ \E tag \in Tags, key \in Keys : MetricsStep(tag, key) \/ VariablesStep(tag, key)
  \/ Count \/ ClearLast \/ Shrink

-----------------------------------------------------------------------------
(* The worker *)

\* Faulty variant: the whole array is gone through.
LatchCapacity(w, pc, k) ==
  LET null == k \notin init \/ (pc = "encode" /\ k = "variables" /\ w.null) IN
  [w EXCEPT !.pc = pc, !.kind = k, !.null = null, !.len = IF null THEN 0 ELSE MaxCount(k), !.read[k] = <<>>]

\* esp_diag_*_meta_get_all: the array and its length, or null; without metrics
\* the document is made without variables.
Latch(w, pc, k) ==
  LET null == k \notin init \/ (pc = "encode" /\ k = "variables" /\ w.null) IN
  [w EXCEPT !.pc = pc, !.kind = k, !.null = null, !.len = IF null THEN 0 ELSE count[k], !.read[k] = <<>>]

\* Insights is enabled: both tables are there, and the round looks for changes.
StartRound ==
  /\ worker.pc = "idle" /\ init = Kinds
  /\ worker' = Latch(Idle, "crc", "metrics")
  /\ unrest' = (task.pc \in {"clear", "shrink"})
  /\ UNCHANGED <<tables, task, meta_crc, told>>

Next1(w) == Len(w.read[w.kind]) + 1
Walking == worker.pc \in {"crc", "encode"}

\* An entry is read where it is now; the CRC does not look at its unit.
ReadEntry ==
  /\ Walking /\ Next1(worker) <= worker.len
  /\ LET entry == slots[worker.kind][Next1(worker)]
         seen == IF worker.pc = "crc" THEN [entry EXCEPT !.unit = ""] ELSE entry
     IN worker' = [worker EXCEPT !.read[worker.kind] = Append(@, seen)]
  /\ UNCHANGED <<tables, task, meta_crc, told, unrest>>

\* After the metrics the variables.
ReadVariables ==
  /\ Walking /\ Next1(worker) > worker.len /\ worker.kind = "metrics"
  /\ worker' = Latch(worker, worker.pc, "variables")
  /\ UNCHANGED <<tables, task, meta_crc, told, unrest>>

WalkedAll(pc) == worker.pc = pc /\ Next1(worker) > worker.len /\ worker.kind = "variables"
CrcRead == Crc(worker.read["metrics"], worker.read["variables"])

\* insights_meta_changed: the round's part here ends if NVS has this CRC; else,
\* or if NVS cannot be read, the CRC is kept, whatever document is pending.
Compare ==
  /\ WalkedAll("crc")
  /\ \/ nvs = <<CrcRead>> /\ worker' = Idle /\ UNCHANGED meta_crc
     \/ worker' = Latch(worker, "encode", "metrics") /\ meta_crc' = CrcRead
  /\ UNCHANGED <<tables, task, told, unrest>>

\* The document of this round reaches the cloud.
Arrives ==
  LET m == worker.read["metrics"]
      v == worker.read["variables"]
      entries == {<<"metrics", m[i].tag, m[i].key>> : i \in DOMAIN m} \cup
                 {<<"variables", v[i].tag, v[i].key>> : i \in DOMAIN v}
  IN cloud' = [entries |-> cloud.entries \cup entries,
               wellFormed |-> WellFormed(MetaDocument(m, v), "s_meta_encoder"), unrest |-> unrest]

\* esp_insights_meta_nvs_crc_set, for a document of this CRC; nobody looks at
\* whether NVS failed.
Store(crc, docCrc, docUnrest) ==
  \/ nvs' = <<crc>> /\ nvsUnrest' = docUnrest /\ nvsMoved' = (docCrc # crc)
  \/ UNCHANGED <<nvs, nvsUnrest, nvsMoved>>

\* The request is not made, or it fails, if perhaps only after the cloud got it.
SendFails == (Arrives \/ UNCHANGED cloud) /\ UNCHANGED <<pending, nvs, nvsUnrest, nvsMoved>>

\* HTTPS: the answer is there when the call returns.
SendAnswered == Arrives /\ Store(meta_crc, meta_crc, unrest) /\ UNCHANGED pending

\* MQTT: the message has an id now, and is lost or arrives; the message whose
\* acknowledgement was awaited before is forgotten.
SendAccepted ==
  /\ \/ Arrives /\ pending' = [on |-> TRUE, crc |-> meta_crc, unrest |-> unrest]
     \/ UNCHANGED cloud /\ pending' = NonePending
  /\ UNCHANGED <<nvs, nvsUnrest, nvsMoved>>

\* Faulty variant: what goes to NVS is the CRC of the tables as they are then.
SendMetaRecomputing ==
  /\ WalkedAll("encode")
  /\ worker' = Idle
  /\ LET crc == Crc(Table("metrics"), Table("variables"))
     IN SendFails \/ SendAccepted \/ (Arrives /\ Store(crc, crc, unrest) /\ UNCHANGED pending)
  /\ UNCHANGED <<tables, task, meta_crc, unrest>>

\* send_insights_meta, by either transport.
SendMeta ==
  /\ WalkedAll("encode")
  /\ worker' = Idle
  /\ SendFails \/ SendAnswered \/ SendAccepted
  /\ UNCHANGED <<tables, task, meta_crc, unrest>>

\* The acknowledgement of the document pending, in the event loop: the CRC kept
\* now goes to NVS, a later round having perhaps computed it.
AckMeta ==
  /\ pending.on
  /\ Store(meta_crc, pending.crc, pending.unrest)
  /\ pending' = NonePending
  /\ UNCHANGED <<tables, task, worker, meta_crc, cloud, unrest>>

\* An empty entry has no strings: to walk over them ends in a reset.
ReadsEmpty == Walking /\ \E k \in Kinds : Contains(worker.read[k], Empty)

\* A reset leaves NVS and the cloud.
Reboot ==
  /\ init' = {}
  /\ count' = [k \in Kinds |-> 0] /\ slots' = [k \in Kinds |-> NoTable(k)]
  /\ task' = [pc |-> "idle", kind |-> "metrics"] /\ worker' = Idle
  /\ meta_crc' = <<>> /\ pending' = NonePending
  /\ unrest' = FALSE
  /\ UNCHANGED <<changes, nvs, cloud, nvsUnrest, nvsMoved>>

Next ==
  \/ ~ReadsEmpty /\ (TaskStep \/ StartRound \/ ReadEntry \/ ReadVariables \/ Compare \/ SendMeta \/ AckMeta)
  \/ Reboot

Spec == Init /\ [][Next]_vars

-----------------------------------------------------------------------------
(* Properties *)

\* Between two calls every counted entry is written, none is there twice, and
\* what is not counted is clear, whatever was unregistered before.
TablesWhole ==
  task.pc = "idle" => \A k \in Kinds :
    /\ count[k] \in 0..MaxCount(k)
    /\ \A i \in 1..MaxCount(k) : (slots[k][i] = Empty) = (i > count[k])
    /\ \A i, j \in 1..count[k] :
         slots[k][i].tag = slots[k][j].tag /\ slots[k][i].key = slots[k][j].key => i = j

\* To register while the worker goes through the tables is safe; it comes upon
\* an empty entry only if one was taken away in the same round.
WalkIsSafe == ReadsEmpty => unrest

\* As long as NVS says that the cloud knows these tables, it does: it was told
\* of every entry, whatever was registered while the worker read them, whenever
\* the document's acknowledgement came.  (It may know of more, not of units, and
\* of a metric as of a variable.)  Not so if an entry was taken away in the round
\* that told of them; nor if, before the acknowledgement came, a later round had
\* computed another CRC, which is then the one stored (esp_insights.c:305, 425).
CloudKnowsTables ==
  task.pc = "idle" /\ ~nvsUnrest /\ ~nvsMoved /\ nvs = <<Crc(Table("metrics"), Table("variables"))>> =>
    \A k \in Kinds : \A i \in 1..count[k] :
      \E kind \in Kinds : <<kind, slots[k][i].tag, slots[k][i].key>> \in cloud.entries

\* The last document that told of them is well-formed, no entry being in it twice,
\* whatever was registered between the first entry read for it and the last;
\* but not if one was taken away, which the worker may then have met twice.
MetaWellFormed == ~cloud.unrest => cloud.wellFormed

=============================================================================
