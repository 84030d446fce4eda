# ESP Insights in TLA+

TLA+ models, model-checking configurations and machine-checked proofs for the
on-device part of ESP Insights: how log records, metrics, variables, metadata
and core dump summaries are kept in memory that survives resets, and how they
travel to the cloud, how the agent that sends them is enabled, paced and
disabled, and how the samples come about. Paths below are relative to
`src/components/` unless they start with `src/`.

    tlc -workers 2 -config MCRing.cfg MCRingBuffer     # a model-checking run
    tlapm RingBufferProofs.tla                         # the proofs

## 1. The system

| Component | State | Operations | Who calls it |
|---|---|---|---|
| **Ring buffer** `esp_diag_data_store/src/rtc_store/rtc_store.c` (`rbuf_data_t`) | bytes, `read_offset`, `filled` (16 bits each), a lock | write in pieces, `write_complete`, read, release, discard, init with integrity check | the store |
| **RTC data store** `rtc_store.c`, `rtc_store.h` | two ring buffers (critical: log records; non-critical: metrics and variables), a table of firmware/boot headers, the index of the header in force, `gen_id` and `boot_cnt` in NVS | write and read of both kinds, release, discard, init, deinit | writers on any task; the agent's worker |
| **Data store wrapper** `esp_diag_data_store/src/esp_diag_data_store.c` | none | forwards to the RTC or RAM store | everybody above |
| **Reporting agent** `esp_insights/src/esp_insights.c` | `s_insights_data`: in-progress flag, ids of outstanding messages, length of data sent, metadata CRC, timers | periodic round, transport event handler, timeout callback, low-memory trigger, first call | work queue, event loop, timer task |
| **Lifecycle** same file | `enabled`, `data_lock`, buffers, registered handlers, periodic entry | init, enable, disable, deinit, register and unregister of the periodic handler | application, work queue |
| **Transports** `esp_insights_transport.c`, `transport/*.c` under `esp_insights/src/` | registered callbacks, connection | MQTT: publish, asynchronous acknowledgements; HTTPS: one request per message | agent |
| **Encoder** `esp_insights_encoder.c`, `esp_insights_cbor_encoder.c` | one CBOR document at a time | walks stored records, reports how many bytes it consumed | agent |
| **Registries** `esp_diagnostics/src/esp_diagnostics_metrics.c`, `..._variables.c` | arrays of registered metrics and variables | register, unregister, add a value, metadata CRC (`..._utils.c`) | application; agent |
| **Log hook** `esp_diagnostics_log_hook.c` | enabled log types | wraps `esp_log_write`, packs arguments as TLVs, writes a record | any task that logs |
| **Samplers** `..._network_variables.c`, `..._wifi_metrics.c`, `..._heap_metrics.c` | previous values, a timer each | sample and report on change | timers, events |
| **Commands** `esp_insights_cmd_resp.c`, `esp_insights_cbor_decoder.c` (off by default) | command table, search result, response buffer | register, search, execute, encode the response | application; transport |
| **Client data** `esp_insights_client_data.c` | metadata CRC in NVS | get, set | agent |

Interactions. Loggers and samplers *call* the store, which appends under a
buffer's lock and *posts an event* when little room is left. The event, the
periodic timer and the application *queue* a round of
`insights_periodic_handler` on the work queue. A round reads the store, encodes,
hands messages to the transport and records their ids under `data_lock`. The
transport *posts events* (sent, failed, deleted) which `insights_event_handler`
applies under `data_lock`: it releases records, notes the metadata as delivered,
erases the core dump image. The timer task calls `data_send_timeout_cb` when no
answer came. Everything in RAM may vanish at a reset; the store's memory, NVS
and the core dump partition do not.

What is hard, and what correctness means:

* **Ring buffer.** Up to three copies per record, each of which may wrap; 16-bit
  fields; a reset between any two copies. *Correct*: it behaves as a FIFO of
  bytes into which records go whole or not at all; nothing is copied outside.
* **Store.** Resets between the updates of the slot index, the header, NVS and
  the buffers; a reader that works on a copy and releases later, critical data only
  when an acknowledgement comes. *Correct*: a record is reported under the header
  of its boot; a release of points drops what was encoded and nothing else, and
  one of logs drops whole records; parsing never starts inside a record.
* **Agent.** Four tasks, messages acknowledged late, twice delivered, or never;
  timeouts; restarts. *Correct*: nothing leaves the device unsent, nothing is
  noted as delivered that is not, and every round ends so that the next can begin.
* **Lifecycle.** Enabling in a dozen fallible steps, disabling while work is
  queued, timer commands that may not fit their queue, resets into another
  firmware. *Correct*: enabled means that everything exists; nothing is used
  that is gone; the periodic callback comes back; records of another layout are
  never parsed.
* **Encoder.** Three walks over the same bytes, cut anywhere. *Correct*: consumed
  bytes end on a record boundary, all under one header; a record at the front is
  consumed; the document is well-formed.
* **Registries.** Arrays that change while they are read. *Correct*: dense, no
  entry twice; a CRC in NVS means that the cloud knows the tables, whenever the
  document was acknowledged.
* **Log hook.** *Correct*: a message is recorded once; the arguments of a record
  never exceed their area and are those of the call.
* **Samplers.** Events, timers and initialisation in different tasks, reports that
  may be refused. *Correct*: the value told last is the present one.
* **Commands.** The feature cannot be linked as it is (see 5).

`PROJECT.json` lists the hazards by source line, with the properties that cover
each.

## 2. Modules

| Module | Extends | Models |
|---|---|---|
| `ByteFifo` | - | what one buffer promises (abstract) |
| `RingBuffer` | - | one `rbuf_data_t`, byte by byte; implements `ByteFifo` |
| `RtcStore` | - | two buffers, header table, NVS counters |
| `InsightsReport` | - | rounds, transport events, timeouts, restarts |
| `InsightsLifecycle` | - | init, enable, disable, deinit, timer chain, layout CRC |
| `Cbor` | - | documents as calls of the TinyCBOR encoder; well-formedness |
| `LogHook` | `Cbor` | packing and unpacking of log arguments; which function records |
| `Documents` | `LogHook` | all documents, and the walks over records |
| `Records` | `Documents` | the way of a record from a call to a document |
| `Registry` | `Documents` | the tables and the worker that tells of them |
| `NetworkVariables`, `WifiMetrics`, `HeapMetrics` | - | one sampler each |
| `Samplers` | the three | the samplers next to each other |
| `MC...` | the module named | instances for TLC |
| `RingBufferProofs`, `RtcStoreProofs`, `InsightsReportProofs`, `InsightsLifecycleProofs`, `DocumentsProofs`, `SamplersProofs` | the module named, `TLAPS` | theorems |
| `RecordsProofs`, `RegistryProofs` | the module named, `DocumentsProofs` | theorems |

### `ByteFifo` (abstract)

What one buffer promises: a bounded queue of bytes. `Put` appends a whole
record, `Drop` removes the oldest bytes, `Clear` empties, `SoftReset` keeps the
contents, `PowerLoss` replaces them with anything, `Start` empties after a power
loss only. It is a specification, not a translation.

### `RingBuffer`

One `rbuf_data_t`, byte by byte. `buf`, `read_offset`, `filled` are the fields of
the code, kept modulo `OffsetMod` (2^16) wherever the code assigns a `uint16_t`.
A write is a sequence of steps: `WriteBegin` (lock taken, room checked),
`WritePiece` (one call of `rtc_store_write_at_offset`), `WriteComplete`. `job`
is the record being written, i.e. the lock being held; every other section under
the lock is one step and excluded meanwhile. `CopyStart`, `CopyLen` and
`WriteAtOffset` are the two `memcpy` calls, `ReadUnsafe` is
`rtc_store_data_read_unsafe`. `SoftReset` may strike anywhere and keeps the
memory; `PowerLoss` replaces it by a member of `Garbage`. `Fifo` is the
refinement mapping: the queue is the `filled` bytes from `read_offset`, or empty
if the fields fail `IntegrityCheck`.

### `RtcStore`

Both buffers and the header table. A record write is one step (which
`RingBuffer` justifies); a buffer is the sequence of its bytes, each of which
knows its record as history, because the code itself counts only bytes.
Initialisation is `InitCritical`, `InitNonCritical`, `ReadNvs`, `NextSlot`,
`WriteHeader`, in the order of `rtc_store_init` and
`rtc_store_meta_hdr_init`, with resets between any two. `ReadNvs` has the
outcomes of the code: counted up, counted up in the header only because NVS did
not take it (the results of `nvs_set_u8` are ignored), erased and started again,
skipped. The reader is the round of `send_insights_data`, in the order of the code:

    idle -ReadCritical-> critical -ReadNonCritical-> release -ReleaseNonCritical-> send -SendData-> idle

`encoded` is `critical_consumed`. `SendData` remembers it in `data_msg_len` (the
transport answers later), releases as many bytes at once (it has answered), or drops
it (refused). `AckCritical` is the acknowledgement: it releases `data_msg_len` bytes
of whatever is at the front, at any time and any number of times, so also those of a
message that is not the outstanding one; which message is acknowledged when is the
subject of `InsightsReport`. What makes such a release harmless to the *boundaries*
is that every stored critical record has one length, `CritLen`: `log_write_cb` is the
only caller of `esp_diag_data_store_critical_write` and passes an
`esp_diag_log_data_t`. A count remembered for the wrong records may lose records
(`late_ack`) but cannot cut one. What garbage after power-on passes for a critical
buffer is assumed to be of one record's length too; garbage of other lengths would
be cut wherever parsing takes it for records. `Overwrite` stands for
`CONFIG_RTC_STORE_OVERWRITE_NON_CRITICAL_DATA`, which no Kconfig file declares;
it is FALSE in every run, as in every build. (The branch is modelled. Setting it
to TRUE makes TLC report `AlignedFront` violated: a writer that overwrites
between the reader's read and release shifts the front of the non-critical buffer.)

### `InsightsReport`

The agent. `pc` is where the worker is in `insights_periodic_handler`; each
section under `data_lock`, and each call of the transport, is one step, because
the event handler and the timer task run in between:

    idle -StartRound-> meta -CheckMeta-> sendMeta -SendMeta-> metaId -RecordMetaId-> boot
    boot -CheckBoot-> sendBoot -SendBoot-> bootId -RecordBootId-> gather
    gather -Gather-> sendData -SendData-> dataId -RecordDataId-> idle
                                       \-> end -EndRound-> idle

`HandleSuccess` and `HandleFailure` are the branches of `insights_event_handler`;
`ObeyCommand`, `Expire` and `TimeoutCb` are the timer task with its command
queue (`xTimerReset`/`xTimerStop` only queue a command, and
`xTimerIsTimerActive` tells of the commands already obeyed). `Restart` is a panic
and the next boot. The network (`Deliver`, `Acknowledge`, `GiveUp`) may delay,
reorder and lose messages and acknowledgements. `Async` chooses the transport.
Over HTTPS `HttpsFails` includes requests that reached the cloud although an
error is returned, and failures that post no event. Critical data is counted in
records. The variables `sent`, `got` and `overtaken` are history.

### `InsightsLifecycle`

The calls of `esp_insights.c` that bring the agent up and down, one step per
fallible piece (`app` is the call in progress and where it is), against the
worker, the timer task with its command queue, the event loop and a task that
logs. What a round does is left to `InsightsReport`; here it only needs things to
exist. A pointer is `"null"`, `"live"` or `"freed"`. `EnableFails` is the error
exit of enable: it calls `esp_insights_disable`, which returns at once because
`enabled` is still false, so everything acquired stays: the event handlers too, which
`EnableEvents` and `EnableStoreEvents` register one after the other, before the timer
exists that the first of them uses. `Ack` and `SendFailed` are the two branches of
that handler; the second uses `data_send_timer` whatever the message is, which
`noTimer` notes if there is none. With a host the message may be the host's own: the
MQTT client is shared and `esp_insights_mqtt.c:74-79` passes on the id of any message
deleted. `EnableHook` fails the
second time, because `esp_diag_log_hook_init` keeps its flag. `DisableStep` takes
down the handlers, the store (locks first, flag later) and queues `Teardown` for
the worker. `wq.host` is a device with ESP RainMaker, which has its own work queue
and transport and calls only enable and disable; otherwise the application calls
init and deinit too. The one-shot timer of the periodic handler goes through
`CbRead` and `CbRestart` of `esp_insights_common_cb`; a command that does not fit
the queue is lost (`lost` remembers it). `Reboot` may start a firmware of another
record layout; `CheckLayout` and `SaveCrc` are the CRC comparison of enable.
`UsesDead` is the condition that some task uses what is gone or not there yet: nothing
but a reset is taken from there, so every other property speaks of behaviour
before that.

### `Cbor`, `LogHook`, `Documents`, `Records`

A document is the sequence of calls of the TinyCBOR API, each naming the
encoder variable it is made on, as the code keeps them in static variables.
`WellFormed` runs these calls on a stack of open containers: a parent is not used
while a child is open, a map holds pairs and no key twice. The shapes that the
encoder's functions repeat have an operator each: `Container` and `Element` open and
close, `Begin` opens only, `Pairs` and `Puts` fill. `LogHook` has the type
and length of every printf directive, the words `va_arg` takes for it and the
words a caller passes, which differ for `%%` (none passed, one taken) and for a
`*` as width or precision (passed besides the value, but the parser stops at the `*`,
takes one word and leaves the rest of the directive as text), the packing (`AppendArg`) and the reading back (`Args`), each
loop as a recursive function of how many directives or entries it has gone through.
`Documents` has the boot, data and metadata documents and `LogWalk`, `PointWalk`:
recursive functions for the loops over a read chunk, which yield both the calls
and the bytes consumed. Bytes are known by record and place, so a walk that
starts inside a record finds no type and no length. `Records` puts it together:
log calls (three entry points; each of the two wrapped functions looks for the tag
`wifi`, and a message of that tag passed to the inner one is recorded by neither),
reported points, resets that start a new header, and the worker's boot and data
documents from reads of at most `ReadCap` bytes.

### `Registry`

The two arrays, unlocked. A registration is two steps (`Register` writes the entry
behind the last one, `Count` counts it), an unregistration three (`Unregister`,
`ClearLast`, `Shrink`); the worker latches pointer and count and reads entry by entry,
first for the CRC (`Compare` with NVS, which keeps it in `meta_crc`), then for the
document (`SendMeta`). The transport's answer follows the code: an id makes the
document *pending* until `AckMeta` stores `meta_crc` as it is then, zero stores it at
once, less than zero is a failure, after which the document may nevertheless have
arrived. Every read and write of NVS may fail, and nobody looks at the latter.
`unrest` notes that an entry was taken away while a round was going on, and
`nvsMoved` that the CRC stored was not that of the document acknowledged.

### `NetworkVariables`, `WifiMetrics`, `HeapMetrics`, `Samplers`

Each against a driver that changes at any time and queues events, with init and
deinit by the application, and reports the store or the registry may refuse.
`NetworkVariables` steps from one report to the next, in the event loop
(`Handle`) and in init; `WifiMetrics` has one program for the dump shared by event
loop, work queue and caller, one access to a shared field per step;
`HeapMetrics` reads three values one after the other. Timers may fail to be created,
started, stopped or deleted; where the code would pass a null handle to the timer
API (`esp_diagnostics_heap_metrics.c:193`, `:227`, `:230`, and the like for Wi-Fi),
which FreeRTOS answers with an assertion, there is no step. They share no state, so
`Samplers` picks one of them (`focus`) at the start and follows only that one.

### Faulty variants

Definitions introduced by "Faulty variant" are never used by a specification.
Each is a plausible mistake in the definition that follows it, written down so
that one can see which property would notice it (`mutants` in `PROJECT.json`).

## 3. Runs

| Run | Configuration | Shows |
|---|---|---|
| `ring` | `MCRing.cfg` | Ring of 5 bytes, records of 2 to 4 bytes in two or three pieces: `InBounds`, `CopiedInPlace`, `CopyInBounds`, `ReadsOldest` and the refinement `ImplementsFifo`. |
| `store` | `MCRtcStore.cfg` | `HeaderFresh`: a record younger than the table is long has its own boot's header; `BootsTold`: boots can be told apart; `ConsumedIsOldest`: a release of points drops what was encoded; `AlignedFront`: no release, whenever its acknowledgement comes, cuts a record. |
| `mqtt` | `MCReportMqtt.cfg` | `SomeoneWillClear`, `ReleasedOnlySent`, `CoredumpKept` over MQTT with deletion reports, timeouts and a restart. |
| `https` | `MCReportHttps.cfg` | `ReleasedOnlySent`, `MetaDelivered`, `CoredumpKept`, `InProgressEnds` over HTTPS. |
| `mqtt_rounds_end` | `MCReportMqttLive.cfg` | `InProgressEnds` over MQTT, with nothing assumed of the network. |
| `lifecycle` | `MCLifecycle.cfg` | `UpMeansWhole`: enabled means that everything a round uses exists; `DeadOnlyAfterDisable`: nothing gone or missing is used unless disable was called or a round asked for while down, but for the timer of an unfinished or failed enable; `ChainGoesOn` and, under fairness, `CallbacksGoOn`: the periodic callback comes back; `ForeignOnlyAfterLostCrc`: records of another layout are there only if writing the CRC failed. |
| `records` | `MCRecords.cfg` | `DocumentsWellFormed`, `ConsumesWholeRecords`, `FrontIsConsumed`; `TakenOnce`: every message is in the store or told, once, but those of the tag `wifi` that neither wrapped function takes; `ArgsSurvive`: arguments are kept up to the first directive the parser misreads. |
| `registry` | `MCRegistry.cfg` | `TablesWhole`: dense, none twice; `WalkIsSafe`: to register during a walk is safe; `CloudKnowsTables`: a CRC in NVS means that the cloud was told, over both transports, unless another CRC was computed before the acknowledgement; `MetaWellFormed`: by a well-formed document. |
| `samplers` | `MCSamplers.cfg` | `LinkTold`, `StatusTold`: what was told last is so, unless the store refused it or two tasks overlapped, or the detail is zero (see 6); `FreeAboveMin`: a heap sample does not contradict itself. |
| `late_ack` | `MCReportLateAck.cfg` | *Violation* of `NothingLost`: a late acknowledgement makes records leave unsent. |
| `boot_stuck` | `MCReportBootStuck.cfg` | *Violation* of `BootResolves`: a boot message can stay in progress for ever. |
| `ssid` | `MCSamplersSsid.cfg` | *Violation* of `SsidTold`: an SSID that is the beginning of the former one is not told. |

### Bounds, and why they are enough

* **Ring.** The code distinguishes whether a piece lies before, across or after
  the wrap, whether the buffer is full, and whether `read_offset` equals the
  size. Five bytes, records of 2 to 4 bytes and piece ends at 1 and 2 (the meta
  index byte, then a one-byte header) reach each of them. `OffsetMod` exceeds
  twice the size, as in the builds. The garbage after power-on includes fields
  out of range. The proofs do not depend on these values.
* **Store.** A table of two headers and three initialisations reuse a slot while
  records that point to it may still be stored; `BootMod` 2 wraps `boot_cnt`;
  either buffer holds two records, the non-critical one of different lengths.
  Records are at least two bytes long, so that a release of one byte too few or too
  many is seen. `Gen` is {0}: only whether headers differ matters, and `boot_cnt`
  makes them differ; the proofs are for any `Gen`. Larger tables, with up to four initialisations, were
  explored with the same result.
* **Agent.** Two records distinguish "some" from "all"; two messages suffice for
  an outstanding and a late one, three for the violation; one metadata version
  where metadata is not the subject, two where it is; queues of one work item,
  two events, two timer commands. `MaxRec`, `MaxMsg`, `MaxMeta`, `MaxBoots` bound
  how much happens; when messages are used up the transport refuses, which the
  code meets at any time anyway. The theorems hold for all of these bounds.
* **Lifecycle.** No bound on calls or resets: the state space is finite. Periods 1
  and 2 have both limits; a work queue of two is full after the first call and one
  round; two layouts.
* **Records.** Record sizes keep their order (a string point is longer than a
  numeric one, the header of a point shorter than both); `ReadCap` 5 cuts the
  second or third record at every place. The two formats fill the argument area
  but for one byte, overflow it, pass a string of more than 255 characters, and have
  a `*` and a `%%` before an argument that is then misread.
  Three calls over two boots put both headers, and several types, into a chunk.
* **Registry.** Two metrics and one variable, two tags and keys: full tables, an
  entry that moves into the place of another, tags whose entries are not next to
  each other, all as model values under symmetry. Three changes during any number of
  rounds, answers and resets: a registration between two rounds, one between a
  document and its acknowledgement, and one within a walk.
* **Samplers.** Two access points of which one's name begins the other's and one is
  open (authentication mode 0); signals
  above and below the threshold; four or five driver events, calls or timeouts,
  which is a connection, its loss, another connection, and init or deinit between.

Deadlock is checked in every run but three: the bounded numbers of calls
(`records`) and of driver events (`samplers`, `ssid`) come to an end, and these
specifications have no other step then.

### Fairness

`LocalFairness` of `InsightsReport` says that the worker, the event loop and the
timer task each run when they have something to do, that an active timer expires
and that rounds keep being asked for. FreeRTOS schedules each of these tasks;
none of them waits for another except for `data_lock`, which is held for finite
sections, and for the timer command queue, which only the timer task empties.
Nothing is assumed of the network for `InProgressEnds`. `NetFairness`, every
accepted message is in the end delivered, acknowledged or given up, is assumed
only in `boot_stuck`, to show that even a network that does its part leaves the
boot message pending.

`InsightsLifecycle` assumes of the worker and of the timer task, its timers
included, that each takes a step when it can. Nothing is assumed of the
application, the host or the event loop; what `CallbacksGoOn` promises is
therefore conditional on there being an enabled session that stays.

## 4. Proofs

### `RingBufferProofs`

The five properties of `RingBuffer` for **every** buffer size, byte set, record
set, piece division and power-on garbage:

| Theorem | Statement |
|---|---|
| `TypeCorrect` | `Spec => []TypeOK` (from `RingAssumption` alone) |
| `OffsetsInBounds` | `Spec => []InBounds` |
| `CopiesArePlaced` | `Spec => []CopiedInPlace` |
| `CopiesStayInBounds` | `Spec => []CopyInBounds` |
| `ReadsAreOldest` | `Spec => []ReadsOldest` |
| `RingImplementsFifo` | `Spec => Fifo!Spec` |

Assumption. All but `TypeCorrect` assume `NoOverflow`: `2 * Size < OffsetMod`,
the weakest bound under which `filled + read_offset` does not overflow.
`Size < OffsetMod`, which a comment of the code names, is not enough (see 6).

Invariant. `RingInv` is `TypeOK`, `InBounds`, `CopiedInPlace` and `WriterUp` (a
record is being written only while the store is up, which no property says but
without which a write could go on in a memory whose fields were never checked).
`CopiedInPlace` is the heart: after k bytes are copied, each lies where
`Pos(filled + i)` will look for it. It is inductive because of two lemmas: a
piece lands at the consecutive positions that follow those of the pieces before
it, whichever of the three cases of `rtc_store_write_at_offset` applies, and
these positions differ from all positions in use. The refinement then needs,
for each action, that `Contents` changes as the queue does: `WriteComplete`
appends the record (by `CopiedInPlace`), `WritePiece` changes no byte of
`Contents`, `Release` drops a prefix, resets and initialisation go through
`IntegrityCheck`.

### `RtcStoreProofs`

For every size of the two buffers and of the header table, every set of record
lengths, every width of index and boot counter, and any number of boots:

| Theorem | Statement | Inductive invariant |
|---|---|---|
| `StoreSafe` | `Spec => []IInv` | `Types`, `StepInv`, `SlotInv`, `BootInv` |
| `TypesHold` | `Spec => []TypeOK` | `IInv` |
| `HeadersFresh` | `Spec => []HeaderFresh` | `SlotInv` |
| `BootsAreTold` | `Spec => []BootsTold` | `BootInv` |
| `FrontIsAligned` | `Spec => []AlignedFront` | `FrontInv`, with `IInv` |
| `TheOldestIsConsumed` | `Spec => []ConsumedIsOldest` | `FrontInv`, with `IInv` |

`HeaderFresh` says of a record no older than the table is long that its slot has
its header. What makes that inductive is *where the index is*: since a record was
written, `meta_hdr_idx` has moved on by at most one slot for each initialisation,
and by one less while an initialisation has counted the boot and not yet taken a
slot (`Moves`, `SlotKept`). A slot is then overwritten only by a boot that finds
the record too old for the property. `BootInv` says the same of the boot counter:
the distance of two headers is that of their boots modulo `BootMod`, until NVS
fails. `StepInv` is what holds between which steps of initialisation, reading and
discarding.

`FrontInv` treats the buffers differently, as the code does. The non-critical one is a
chain of whole records (`Chain`: behind the last byte of a record comes a first
byte, behind any other byte the next one of its record), and what the reader encoded
begins it and ends with a last byte. Nothing ties the count released from the critical
one to the records at its front; `CritInv` says instead that the buffer consists of
whole units of `CritLen` bytes (`WholeUnits`) and that `encoded` and `data_msg_len` are
multiples of `CritLen`, from the walk that counted them to whatever later time they are
released (`UnitsAtFront`, `UnitsShrink`). Both theorems that rest on it assume `~Overwrite`. This is
what every build has, since no Kconfig file declares
`CONFIG_RTC_STORE_OVERWRITE_NON_CRITICAL_DATA`; with the option both are false
(see `RtcStore` above), and the four others are proved with and without it.
`StoreAssumption` says of `Gen` that it is a set of naturals (`gen_id` is a
`uint8_t`) with zero, which is what cleared memory has.

### `InsightsReportProofs`

The safety properties of `InsightsReport` for all bounds and queue lengths, and
for both transports where not said otherwise:

| Theorem | Statement | Inductive invariant |
|---|---|---|
| `TypeCorrect` | `Spec => []TypeOK` | `TypeOK` |
| `FlagIsCleared` | `Spec => []SomeoneWillClear` | with `TypeOK` |
| `CoredumpSafe` | `Spec => []CoredumpKept` | `IdInv`, `OwnIdsKnown`, `BootInv` |
| `RecordsSafe` | `Spec => []ReleasedOnlySent` | `DataInv`: `DeliveredArrived`, `HttpsIsDone`, `Carries` |
| `MetaOverHttps` | `Spec => [](~Async => MetaDelivered)` | `MetaInv` |

The properties speak of ids the agent holds, acknowledgements in flight and what
the cloud has; none is inductive alone. `IdInv` says that message ids in the
network, in events and in the agent are ones that were given out; `OwnIdsKnown`
that an id the agent waits for belongs to a message of that kind; `BootInv` that
an acknowledgement of a boot message, wherever it is, means that the summary
arrived. `DataInv` adds what a data message carries (`Carries`: the length
recorded is the length sent, unless an acknowledgement overtook the recording),
and that over HTTPS a request is over before its id is known.

### `InsightsLifecycleProofs`

For every length of the work queue, every pair of periods and any number of
firmwares and calls:

| Theorem | Statement |
|---|---|
| `LifecycleSafe` | `Spec => []IInv` |
| `TypesHold` | `Spec => []TypeOK` |
| `EnabledMeansWhole` | `Spec => []UpMeansWhole` |
| `NothingDeadIsUsed` | `Spec => []DeadOnlyAfterDisable` |
| `TheChainGoesOn` | `Spec => []ChainGoesOn` |
| `OnlyOwnLayout` | `Spec => []ForeignOnlyAfterLostCrc` |

All five follow from one invariant, `IInv`: `Types` and five parts.

* `PhaseInv`: the periodic handler is unregistered, registered or gone, and
  which of them goes with which step of which call. The step of enable before a
  call must be known to know what the call finds.
* `WholeInv`: what enable has acquired by which step, up to `UpMeansWhole`; and
  that at most one teardown is queued, and none while anything is being built,
  for it would free what is new.
* `TimerInv`: which commands the timer queue may hold in each phase, at most two
  of the handler's; and that the one token of the chain is in exactly one place:
  the first call queued, the start command queued, the timer armed, or the
  callback about to restart it. `ChainGoesOn` needs "at least one"; only with "at
  most one" is that inductive, since a second token could be lost unnoticed.
* `RiskInv`: as long as neither disable was called nor a round asked for while
  down, what may be gone is what no task in its present state goes to use.
* `NoTimerInv` stands beside them: the handler finds no timer only while Insights is
  not enabled. It is inductive with `WholeInv`, by which an enabled session has one.
* `LayoutInv`: the CRC in NVS is the stored records' one until it was lost, in the
  order in which enable discards first and writes the CRC afterwards.

The proof goes action by action, with one lemma for the types and one for the
parts of each group of actions. No assumption beyond `LifecycleAssumption`.

### `DocumentsProofs`

| Theorem | Statement |
|---|---|
| `DataWellFormed` | a data document made of any two reads is `WellFormed` |
| `BootWellFormed` | so is a boot document, with or without a core dump |
| `MetaDocumentWellFormed` | so is a document of metadata, if no table has an entry twice |

These are about the operators, for every length of every list, and have no states.
What the calls of an encoder do is an effect on the stack of open containers, and the
argument is one of composition:

* `Runs(calls, s, t)`: the calls lead from stack `s` to stack `t`. `RunsThen` puts two
  runs behind each other, and `RunsWellFormed` says that a run from the empty document
  to one item in it is what `WellFormed` computes with its recursive function.
* `Fills(calls, enc, ks)`: on *any* stack whose innermost map is `enc`, holds whole
  pairs and none of the keys `ks`, the calls add whole pairs with exactly these keys;
  `Lists(calls, enc)` is the same of an array. Each function of the encoder is shown to
  be one or the other, from the inside to the outside, so that no lemma needs to know
  where in a document it is used.
* `FlattenFills`, `FlattenLists`: calls that come one after the other from the members
  of a sequence, whose keys differ, fill or list together. The keys of `MetaTable` come
  from the data: a tag is a key once, because it is written with the first of its
  entries only, and the keys under a tag differ if no entry is twice (`NoneTwice`).
* `TlvIsSeq`, `ArgsIsSeq`: whatever the format, the packed arguments and those read back
  from them are finite, so the array `av` closes.
* `LogWalkLists`, `PointWalkLists`: the walks are recursive functions of the place in the
  chunk, and what is proved of them is proved by induction over that place, from the end
  of the chunk to its beginning. `FromTheEnd` is that induction, for a set of places
  instead of a predicate: it comes from `Least`, that a set of naturals has a least
  element, and so from the well-foundedness of `<`. `LogStepDefined` and
  `PointStepDefined` say that the recursions of `encode_log_list` and
  `encode_data_points` define functions, because each goes on at a later place.

Hypotheses: the bytes walked over name records with a format that there is
(`LogsKnown`) and, for points, with a value that `encode_data_pt` writes
(`PointsKnown`). That `Records` never makes a document of others is part of the proof
of `EveryDocumentWellFormed`.

### `RecordsProofs`

| Theorem | Statement | Inductive invariant |
|---|---|---|
| `RecordsWhole` | `Spec => []IInv` | `Buffers`, `DocInv` |
| `WholeRecordsConsumed` | `Spec => []ConsumesWholeRecords` | `IInv` |
| `TheFrontIsConsumed` | `Spec => []FrontIsConsumed` | `IInv` |
| `EveryDocumentWellFormed` | `Spec => []DocumentsWellFormed` | `IInv`, with `DocumentsProofs` |
| `ArgumentsSurvive` | `Spec => []ArgsSurvive` | `IInv` |
| `EveryRecordTakenOnce` | `Spec => []TakenOnce` | `IInv`, `TakenInv` |

For all sizes of records and of the read buffer, any formats and data types, and any
number of calls and boots. `Buffers` says that each buffer is a chain of whole
records (`Whole`); a read is a chain whose last record may be cut (`Chain`).

* `RecordAt`, `NextRecord`: where a record begins, its bytes follow in order, and
  where it ends the next one begins; in particular the header that
  `encode_data_points` reads there is the one of this record.
* `WalkConsumes`: both walks, which decide differently whether a record is whole,
  stop at the same kind of place (`Stops`), and everything before it is whole records
  under the header of the first. The three walks over the logs thus report the same.

* `TlvPacked`, `ArgsRead`: the buffer of arguments, between the two sides that know
  its layout. `Packed` says where each entry begins and ends and what its bytes are;
  the parser keeps it directive by directive (`ParseInv`), as long as what is left of
  the `va_list` begins with the words of the next argument (`TakesArgument`), and the
  encoder, which reads lengths only, finds its way through it (`ReadInv`).

* `WalkToldOf`, `WalkToldNothing`: a walk tells, once each, of the records of its type
  that begin in what it consumes, and of no other; with `OneConsumption`, that all walks
  over a chunk consume the same, the lists of a document together tell of all records in
  what is released and of nothing else (`CriticalTold`, `NonCriticalTold`). `Quiet` sets
  aside the calls that cannot tell of a record, and `PlacesAdd` counts in two parts of a
  sequence. `HeldDropped` and `HeldGrown` say what a release and a new record change in
  a buffer, and `TakenInv` adds it up. The document that was not sent is the
  other case of `SendTaken`: it told of points only, and only they were released.

`EveryDocumentWellFormed` and `EveryRecordTakenOnce` have a hypothesis: no reported
value has the type `ESP_DIAG_DATA_TYPE_NULL`. The functions for each type
(`esp_diag_metrics_report_int` and its like) never report one; the general
`esp_diag_metrics_report` can, for a metric registered with that type, and then
`encode_data_pt` writes the key `v` without a value, so that the point is not told.

`ArgumentsSurvive` has none: `ArgsSurvive` itself says how far it goes in a format, to
the first directive that is not `Regular`. A directive is irregular if the parser
takes other words than the caller passed, or makes no entry: `%%`, any `*` (section
6), and the combinations of length and conversion it skips. What comes behind is
appended (`AppendExtends`, `ParseExtends`), so what is kept of the arguments before stays
as it is, and `BehindStep` and `ReadsOn` carry that through the reading. The bound of
the area is claimed for every format. `ArgsAssumption` says that the size of the
buffer is a number; `Kconfig` allows 32 to 255.

### `RegistryProofs`

| Theorem | Statement | Inductive invariant |
|---|---|---|
| `TablesAreWhole` | `Spec => []TablesWhole` | `TablesInv` |
| `WalksAreSafe` | `Spec => []WalkIsSafe` | `WalkInv`, with `TablesInv` |
| `TheCloudKnows` | `Spec => []CloudKnowsTables` | `RoundInv`, `CloudInv`, with `WalkInv` |
| `TheDocumentIsWellFormed` | `Spec => []MetaWellFormed` | `DocumentInv`, with `RoundInv` and `DocumentsProofs` |

For tables of every size, all tags and keys, and any number of changes.
`TablesWhole` speaks of the tables between two calls only; `TablesInv` also says
what they are like between the steps of a registration or an unregistration: one
place more or less is *settled* then, the settled places are filled and differ, and
those behind are clear except for the one on its way out. `WalkInv` says that, as long as nothing
was taken away in this round, the walk's latched length is within the counted
entries and everything it has read is an entry. Registering keeps it, because the
count only grows and settled places stay as they are.

`TheCloudKnows` relates three readings at different times: the CRC that the worker
computed, the document it read afterwards, and the tables when somebody asks.
`RoundInv` says that, while nothing was taken away, what was read is still in the
table at its place (`Faithful`) and each entry of the CRC is among what was read or
within `Reach`, what is still going to be; the worker latches the count anew
before the document, so that `Reach` only grows. `CloudInv` keeps what is left of it
when the round is over: the cloud was told of each entry of the CRC in NVS, and of
each entry of the CRC of the document whose acknowledgement is pending. The second is
what `AckMeta` turns into the first, if `meta_crc` is still that CRC (`~nvsMoved`). If
the tables now have the CRC in NVS, they are those entries.

`TheDocumentIsWellFormed` rests on `Faithful` too: what was read stands in the table at
its place, and there no entry is twice, so none was read twice (`ReadOnce`). That is
the hypothesis of `MetaDocumentWellFormed`.

Assumption: `""`, which stands for the null pointer of a cleared entry, is not a
tag. The exceptions of the properties are part of what is proved: nothing is claimed of
a round in which an entry was taken away, nor of a CRC that a later round had
computed before the acknowledgement came.

### `SamplersProofs`

| Theorem | Statement | Inductive invariant |
|---|---|---|
| `HeapSampleSound` | `Spec => []FreeAboveMin` | `HeapInv` |
| `StatusIsTold` | `Spec => []StatusTold` | `WifiInv` |
| `LinkIsTold` | `Spec => []LinkTold` | `NetInv` |

For every heap, every set of signal strengths and any number of events, calls and
timeouts. `HeapInv` adds that the all-time minimum is never above what is free,
nor above what a dump under way has already read as free: that is why the code's
order, free first and minimum last, is the right one. `WifiInv` adds where each
of the three tasks is (`OneByOne`): without an overlap at most one is in the dump,
so the status it read is still the one to be told when it marks it as told.

`NetInv` follows a detail of the link from the driver to the cloud: the last event
queued about it says what is so (`QueueInv`); if none is queued, the handler
remembers what is so (`KeptInv`), or init holds it in its hands (`ReadInv`); and what
the handler remembers is what was told (`TellInv`; `IpInv` for the address, which is
not remembered). An event that is queued excuses the steps before it, so a change
of the link between init's reading and copying is covered: it has queued an event,
and the handler that init registered first will see it. `HandlersInv` says when
those handlers are there. The only assumption, `NetAssumption`, is that an access
point is a record of the four details.

## 5. What is only model-checked, and what is not modelled

Only checked by TLC: liveness (`InProgressEnds`, `CallbacksGoOn`, `BootResolves`), since
the prover has no rules for fairness. All other properties of passing runs are proved.

Left out of the modelled components: the low-memory events' contents;
`rtc_store_critical_data_read_and_release` and its non-critical twin, which only
a test application calls; formats and sizes of messages in `InsightsReport` (a
message is a kind, a range of records and a metadata version); an HTTPS device
without a key; rounds that are under way while disable runs (in `InsightsLifecycle`
a round is one step, and in `InsightsReport` the agent is enabled); the capacity
of the CBOR buffer, since the encoders' errors are ignored by the code and the
document's length is taken as it is; the text format of arguments
(`CONFIG_DIAG_LOG_MSG_ARG_FORMAT_STRING`); the values of data points; the minimum
signal that `WifiMetrics` keeps (its race is in the model, but no property is
about it).

Not modelled:

* **Commands** (`esp_insights_cmd_resp.c`, `esp_insights_cbor_decoder.c`). The
  feature is off by default and cannot be linked when it is on:
  `esp_insights_encoder.c:140` calls `esp_insights_cbor_encode_diag_conf_data`,
  which `esp_insights_cbor_encoder.h` declares and no file defines. There is no
  program whose behaviour a model could be faithful to.
* **Timer queue shared with others.** `insights_event_handler` waits without
  limit for room in the timer command queue while it holds `data_lock`, which the
  timer task may want; this needs a queue filled by other users of the timer task.
* **Data store wrapper**: forwards to the store, has no state. **RAM store**, TLS,
  factory partition, string formatting, host-side scripts: no state of this
  code's own, or only generated and platform code.

## 6. Findings

Three runs end in a violation, each of something the repository says:

* `late_ack`: `esp_insights.c:490-497` says that a late acknowledgement leads to
  duplicates only; it can also lose records.
* `boot_stuck`: `esp_insights.c:118` documents the states of `boot_msg_id`; "in
  progress" can be final.
* `ssid`: the event handler is said to record the Wi-Fi details
  (`esp_diagnostics_network_variables.c:269`); an SSID that begins the former one
  is not recorded, since `strncmp` compares as many bytes as the new one has.

Met while modelling, and described rather than checked by a run of their own:

* `rtc_store.c:95` asks for a size that fits 16 bits, but `filled + read_offset`
  is cut to 16 bits before it is wrapped (`rtc_store.c:229`): with a size above
  half the range (`Size` 7, `OffsetMod` 8) `CopiedInPlace` is violated. Kconfig's
  sizes are far below.
* A header slot is reused while old records still point to it
  (`rtc_store.c:573`): they are reported under a later boot. `HeaderFresh` bounds
  this to records older than the table is long.
* `rtc_store.h:95` says that non-critical data is overwritten when there is no
  room; the code refuses the new record, since the option is never declared.
* Over MQTT an acknowledgement stores `meta_crc` as it is then
  (`esp_insights.c:305`), and a later round may have computed another one (`:425`),
  although its own document was refused or is still under way. NVS then holds a CRC of
  tables the cloud was never told of, and the next round takes them for known ("crc
  found and matched, no need to send insights meta", `:421`). `MetaDelivered` fails with
  `Async` TRUE, and TLC reports `CloudKnowsTables` violated if `~nvsMoved` is dropped
  from it: a document is sent, a metric registered, the next round computes the new CRC,
  and the acknowledgement of the first document stores it. It stays there when that
  round's own document is refused or the device is reset.
* An enable that fails between the registration of `insights_event_handler`
  (`esp_insights.c:958`) and the creation of the timer (`:1008`) leaves the handler
  registered, since the error exit's `esp_insights_disable` returns at once. The branch
  for deleted messages then asks a null timer whether it is active (`:332`), which
  FreeRTOS answers with an assertion. It needs
  `CONFIG_MQTT_REPORT_DELETED_MESSAGES` and a message deleted, which may be the host's
  own. The same is possible, briefly, while enable is under way. `DeadOnlyAfterDisable`
  has this as its exception (`noTimer`).
* A message of the tag `wifi` that is passed to `esp_log_writev` itself is not
  recorded. The comments say that `esp_diag_log_writev` collects "logs with "wifi" tag"
  (`esp_diagnostics_log_hook.c:419`) and `esp_diag_log_write` leaves them to
  `esp_log_writev()` (`:434`), but the wrapped `esp_log_writev` calls the latter
  function, and only the wrapped `esp_log_write` the former. `TakenOnce` says so.
* A `*` for a width or precision ends the parsing of its directive: one word is taken
  for it, the words of a second `*` and of the value stay, and every argument behind is
  read from its predecessor's words (`esp_diagnostics_log_hook.c:81-95`, `:275-278`),
  although the comment above says that the parsing follows "printf manual (man 3
  printf)".
* After a failed enable, or after disable, Insights cannot be enabled again before
  a reset: the log hook's init succeeds once, and `data_lock` stays after an error,
  so that the next call reports success without doing anything
  (`esp_insights.c:916`).
* The transport keeps a node id that was freed; disable frees what a queued round,
  callback or write still uses (`DeadOnlyAfterDisable` is about the rest).
* Two tasks that overlap in `WifiMetrics` can mark an old status as told, and can
  raise the minimum signal again (`esp_diagnostics_wifi_metrics.c:52`).
* A unit that is added, and a metric that becomes a variable of the same name, do
  not change the metadata CRC, so the cloud is not told. Tags are grouped by
  pointer, not by text, which matters only if equal tags are stored twice.
* Network variables are compared with memory that init cleared, so a detail that
  is zero counts as known (`esp_diagnostics_network_variables.c:167`, `:268`): the
  authentication mode of an open network is not told after init, and the cloud
  keeps the mode of the session before. `LinkTold` excepts such details.
* A metric or variable can be registered with `ESP_DIAG_DATA_TYPE_NULL`
  (`esp_diagnostics.h:107`) and reported with `esp_diag_metrics_report`; its data point
  has the key `v` and no value, so the document is not well-formed (see
  `RecordsProofs`).
* `%%` in a log format takes an argument that was not passed
  (`default` case in `esp_diagnostics_log_hook.c`), which shifts those behind it.
* `boot_cnt` is counted up in the header even if NVS does not take it
  (`rtc_store.c:568`, `:570`), so two boots may have the same header; `BootsTold` excepts
  boots after NVS failed.
* The heap and Wi-Fi samplers count as initialised although their timer could not be
  created; a later deinit or change of the interval then passes a null handle to
  FreeRTOS (`esp_diagnostics_heap_metrics.c:193`, `:227`, `:230`).

## 7. Next

1. An abstract specification of reliable delivery that `InsightsReport` over HTTPS
   implements, with the proof of the refinement.
2. The event handler's unlimited wait, with a timer queue that others fill.
