------------------------------ MODULE RtcStore ------------------------------
(***************************************************************************)
(* The diagnostics data store of rtc_store.c as a whole: the critical and *)
(* the non-critical buffer, the table of firmware/boot headers that the    *)
(* records point into, and the initialisation that allots a slot of the    *)
(* table to every boot.  All of it but the lock handles lives in           *)
(* RTC_NOINIT memory and survives soft resets, which may strike between    *)
(* any two steps.                                                          *)
(*                                                                         *)
(* A write is one step here: RingBuffer shows that a record appears whole  *)
(* or not at all.  A buffer is the sequence of its bytes, each knowing the *)
(* record it belongs to, because releases count bytes and nothing in the   *)
(* code ties them to record boundaries.                                    *)
(***************************************************************************)
EXTENDS Integers, Sequences, SequencesExt

CONSTANTS MaxMeta,    \* RTC_STORE_MAX_META_RECORDS
          IdxMod,     \* 2^8: meta_hdr_idx is a uint8_t
          BootMod,    \* 2^8: so is boot_cnt
          Gen,        \* values of gen_id
          CritSize, NoncSize,    \* buffer sizes in bytes
          CritLen,    \* length of a stored critical record, index included: they are all
                      \* esp_diag_log_data_t, written by log_write_cb and by nobody else
          NoncLens,   \* lengths of non-critical ones, index and header included
          Overwrite,  \* CONFIG_RTC_STORE_OVERWRITE_NON_CRITICAL_DATA
          MaxInits    \* bound: initialisations explored

ASSUME StoreAssumption ==
  /\ MaxMeta \in Nat \ {0} /\ IdxMod \in Nat /\ MaxMeta <= IdxMod
  /\ BootMod \in Nat \ {0} /\ MaxInits \in Nat
  /\ CritSize \in Nat /\ NoncSize \in Nat
  /\ CritSize >= 2 /\ NoncSize >= 2
  /\ CritLen \in 1..CritSize /\ NoncLens \subseteq 1..NoncSize
  /\ Overwrite \in BOOLEAN
  /\ 0 \in Gen /\ Gen \subseteq Nat

VARIABLES crit, nonc,    \* the unread bytes of the two buffers
          meta,          \* rtc_store_t.meta
          meta_hdr_idx,  \* rtc_store_t.meta_hdr_idx
          nvs,           \* gen_id and boot_cnt in flash, or Absent
          hdr,           \* gen_id and boot_cnt while rtc_store_meta_hdr_init runs
          pc,            \* how far rtc_store_init has come
          cold,          \* esp_reset_reason() is UNKNOWN, POWERON or BROWNOUT
          discarding,    \* rtc_store_discard_data is between its two locks
          reader,        \* how far the worker's round has come
          encoded,       \* critical_consumed of the round
          consumed,      \* the non-critical bytes the round has encoded and not released
          data_msg_len,  \* s_insights_data.data_msg_len
          inits,         \* history: boots counted so far
          nvsLost        \* history: NVS has failed or was erased

round == <<reader, encoded, consumed, data_msg_len>>
ram   == <<discarding, round>>
vars  == <<crit, nonc, meta, meta_hdr_idx, nvs, hdr, pc, ram, cold, inits, nvsLost>>

Header == [gen : Gen, boot : 0..BootMod-1]
Absent == [gen |-> -1, boot |-> 0]     \* no header: never written, or garbage
Slot   == 0..MaxMeta-1

\* A stored record: its length, the slot its index byte names and, as
\* history, the header in force when it was written and which boot that was.
Record == [len : {CritLen} \cup NoncLens, idx : Slot, hdr : Header, born : 1..MaxInits]
Junk(n) == [len |-> n, idx |-> IdxMod - 1, hdr |-> Absent, born |-> 0]
JunkLen == 2    \* bound: of what is found in the non-critical buffer
Bytes(rec) == [k \in 1..rec.len |-> [rec |-> rec, at |-> k]]

IsStored(s) == \A i \in 1..Len(s) : /\ s[i].rec \in Record \cup {Junk(CritLen), Junk(JunkLen)}
                                    /\ s[i].at \in 1..s[i].rec.len

\* Every variable has its type, and neither buffer holds more than fits.
TypeOK ==
  /\ IsStored(crit) /\ Len(crit) <= CritSize
  /\ IsStored(nonc) /\ Len(nonc) <= NoncSize
  /\ meta \in [Slot -> Header \cup {Absent}]
  /\ meta_hdr_idx \in 0..IdxMod-1
  /\ nvs \in Header \cup {Absent} /\ hdr \in Header
  /\ pc \in {"off", "noncritical", "meta", "slot", "header", "up"}
  /\ cold \in BOOLEAN /\ discarding \in BOOLEAN /\ nvsLost \in BOOLEAN
  /\ reader \in {"idle", "critical", "release", "send"} /\ IsStored(consumed)
  /\ encoded \in 0..CritSize /\ data_msg_len \in 0..CritSize
  /\ inits \in 0..MaxInits

\* What RTC memory may hold after power-on.  A buffer whose fields fail
\* rtc_store_integrity_check counts as empty; what passes it is garbage of one
\* record's length.
Garbage(n) == {<<>>, Bytes(Junk(n))}

Init ==
  /\ crit \in Garbage(CritLen) /\ nonc \in Garbage(JunkLen)
  /\ meta = [s \in Slot |-> Absent] /\ meta_hdr_idx \in {0, IdxMod - 1}
  /\ nvs = Absent /\ hdr = [gen |-> 0, boot |-> 0]
  /\ pc = "off" /\ cold = TRUE
  /\ discarding = FALSE
  /\ reader = "idle" /\ encoded = 0 /\ consumed = <<>> /\ data_msg_len = 0
  /\ inits = 0 /\ nvsLost = FALSE

-----------------------------------------------------------------------------
(* Writers.  The record carries the index of the slot in force.            *)

NewRecord(len) == [len |-> len, idx |-> meta_hdr_idx,
                   hdr |-> meta[meta_hdr_idx], born |-> inits]

\* Faulty variant: the free space is not looked at.
WriteCriticalUnchecked(len) ==
  /\ pc = "up"
  /\ crit' = crit \o Bytes(NewRecord(len))
  /\ UNCHANGED <<nonc, meta, meta_hdr_idx, nvs, hdr, pc, ram, cold, inits, nvsLost>>

\* A critical record that does not fit is dropped (ESP_ERR_NO_MEM).
WriteCritical(len) ==
  /\ pc = "up"
  /\ Len(crit) + len <= CritSize
  /\ crit' = crit \o Bytes(NewRecord(len))
  /\ UNCHANGED <<nonc, meta, meta_hdr_idx, nvs, hdr, pc, ram, cold, inits, nvsLost>>

\* Faulty variant: just as many bytes are freed as the record needs.
FreedBytes(len) == {IF Len(nonc) + len <= NoncSize THEN 0
                    ELSE Len(nonc) + len - NoncSize}

\* How many of the oldest bytes are freed to make room: none if the record
\* fits, else as few whole records as the overwrite loop must.  The lengths
\* that loop reads are right only if the buffer starts with a record's first
\* byte; otherwise it may free anything.
Freed(len) ==
  LET fitting == {n \in 0..Len(nonc) : Len(nonc) - n + len <= NoncSize}
      whole   == {n \in fitting \ {0} : nonc[n].at = nonc[n].rec.len}
  IN  IF 0 \in fitting THEN {0}
      ELSE IF ~Overwrite THEN {}
      ELSE IF nonc[1].at = 1 THEN {n \in whole : \A m \in whole : n <= m}
      ELSE fitting

\* A record for which no room can be made is refused: nothing changes.
WriteNonCritical(len) ==
  /\ pc = "up"
  /\ \E n \in Freed(len) :
       nonc' = SubSeq(nonc, n + 1, Len(nonc)) \o Bytes(NewRecord(len))
  /\ UNCHANGED <<crit, meta, meta_hdr_idx, nvs, hdr, pc, ram, cold, inits, nvsLost>>

-----------------------------------------------------------------------------
(* The reader (send_insights_data, on the worker).  It copies the oldest    *)
(* data, encodes a run of whole records that share their slot, and releases *)
(* as many bytes afterwards, under the lock again but not the same hold of  *)
(* it: non-critical ones at once, critical ones when the message has been   *)
(* answered, whatever is then at the front.                                 *)

\* The lengths of prefixes of s the encoder may report as consumed.
WholeRecords(s) ==
  {n \in 1..Len(s) : /\ s[n].at = s[n].rec.len
                     /\ \A i \in 1..n : s[i].rec.idx = s[1].rec.idx}

\* A read of a store that is down fails and nothing is consumed.
Consumable(s) == IF pc = "up" THEN WholeRecords(s) \cup {0} ELSE {0}

\* What rtc_store_data_release leaves of s.  It fails, and drops nothing, if
\* the store is down or holds fewer than n bytes.
Released(s, n) == IF pc = "up" /\ n <= Len(s) THEN SubSeq(s, n + 1, Len(s)) ELSE s

\* Faulty variant: all that was read counts as consumed, the record the end of
\* the read buffer cuts included.
ReadCriticalCut ==
  /\ pc = "up" /\ reader = "idle" /\ ~discarding
  /\ encoded' \in 0..Len(crit)
  /\ reader' = "critical"
  /\ UNCHANGED <<crit, nonc, meta, meta_hdr_idx, nvs, hdr, pc, discarding, consumed,
                 data_msg_len, cold, inits, nvsLost>>

ReadCritical ==
  /\ pc = "up" /\ reader = "idle" /\ ~discarding
  /\ encoded' \in Consumable(crit)
  /\ reader' = "critical"
  /\ UNCHANGED <<crit, nonc, meta, meta_hdr_idx, nvs, hdr, pc, discarding, consumed,
                 data_msg_len, cold, inits, nvsLost>>

ReadNonCritical ==
  /\ reader = "critical"
  /\ \E n \in Consumable(nonc) : consumed' = SubSeq(nonc, 1, n)
  /\ reader' = "release"
  /\ UNCHANGED <<crit, nonc, meta, meta_hdr_idx, nvs, hdr, pc, discarding, encoded,
                 data_msg_len, cold, inits, nvsLost>>

ReleaseNonCritical ==
  /\ reader = "release"
  /\ nonc' = Released(nonc, Len(consumed))
  /\ consumed' = <<>>
  /\ reader' = "send"
  /\ UNCHANGED <<crit, meta, meta_hdr_idx, nvs, hdr, pc, discarding, encoded,
                 data_msg_len, cold, inits, nvsLost>>

\* The transport has taken the message and answers later, answers at once, or
\* has refused it (or there was nothing to send).
SendData ==
  /\ reader = "send"
  /\ \/ /\ data_msg_len' = encoded
        /\ UNCHANGED crit
     \/ /\ crit' = Released(crit, encoded)
        /\ UNCHANGED data_msg_len
     \/ UNCHANGED <<crit, data_msg_len>>
  /\ reader' = "idle" /\ encoded' = 0
  /\ UNCHANGED <<nonc, meta, meta_hdr_idx, nvs, hdr, pc, discarding, consumed, cold, inits, nvsLost>>

\* The event loop is told of the answer to a message.  InsightsReport has the
\* messages and their answers; here one comes at any time, so also after the
\* records it belongs to have gone.
AckCritical ==
  /\ data_msg_len # 0
  /\ crit' = Released(crit, data_msg_len)
  /\ UNCHANGED <<nonc, meta, meta_hdr_idx, nvs, hdr, pc, ram, cold, inits, nvsLost>>

-----------------------------------------------------------------------------
(* rtc_store_discard_data: one buffer after the other.  esp_insights_enable *)
(* calls it before it schedules the reader.                                 *)

DiscardCritical ==
  /\ pc = "up" /\ ~discarding /\ reader = "idle"
  /\ crit' = <<>>
  /\ discarding' = TRUE
  /\ UNCHANGED <<nonc, meta, meta_hdr_idx, nvs, hdr, pc, round, cold, inits, nvsLost>>

DiscardNonCritical ==
  /\ discarding
  /\ nonc' = <<>>
  /\ discarding' = FALSE
  /\ UNCHANGED <<crit, meta, meta_hdr_idx, nvs, hdr, pc, round, cold, inits, nvsLost>>

-----------------------------------------------------------------------------
(* rtc_store_init, step by step.  It does not run while the reader is in a  *)
(* round: esp_insights_enable does nothing until                   *)
(* esp_insights_disable_internal, queued behind the reader's round, has     *)
(* deleted data_lock.                                                       *)

InitCritical ==
  /\ pc = "off" /\ reader = "idle"
  /\ crit' = IF cold THEN <<>> ELSE crit
  /\ pc' = "noncritical"
  /\ UNCHANGED <<nonc, meta, meta_hdr_idx, nvs, hdr, ram, cold, inits, nvsLost>>

\* The second buffer, unless its lock cannot be created.
InitNonCritical ==
  /\ pc = "noncritical"
  /\ \/ /\ nonc' = IF cold THEN <<>> ELSE nonc
        /\ pc' = "meta"
     \/ /\ pc' = "off"
        /\ UNCHANGED nonc
  /\ UNCHANGED <<crit, meta, meta_hdr_idx, nvs, hdr, ram, cold, inits, nvsLost>>

\* Faulty variant: boot_cnt stays as it is.
SameBoot(stored) == IF stored = Absent
                    THEN {[gen |-> g, boot |-> 0] : g \in Gen}
                    ELSE {stored}

\* gen_id and boot_cnt of this boot.  A reset between the two nvs_set_u8
\* calls leaves NVS without a boot_cnt, which is read like Absent.
BootOf(stored) == IF stored = Absent
                  THEN {[gen |-> g, boot |-> 0] : g \in Gen}
                  ELSE {[stored EXCEPT !.boot = (@ + 1) % BootMod]}

ReadNvs ==
  /\ pc = "meta" /\ inits < MaxInits
  /\ meta_hdr_idx' = IF cold THEN IdxMod - 1 ELSE meta_hdr_idx
  /\ \/ /\ \E b \in BootOf(nvs) : hdr' = b /\ nvs' = b
        /\ UNCHANGED nvsLost
     \/ /\ hdr' \in BootOf(nvs)                  \* nvs_set_u8 fails, unnoticed
        /\ nvsLost' = TRUE
        /\ UNCHANGED nvs
     \/ /\ \E b \in BootOf(Absent) : hdr' = b /\ nvs' = b    \* nvs_flash_erase
        /\ nvsLost' = TRUE
     \/ /\ hdr' = [gen |-> 0, boot |-> 0]        \* skip_nvs_read_write
        /\ nvsLost' = TRUE
        /\ UNCHANGED nvs
  /\ inits' = inits + 1
  /\ pc' = "slot"
  /\ UNCHANGED <<crit, nonc, meta, ram, cold>>

\* Faulty variant: the boot takes the slot of the one before it.
SameSlot ==
  /\ pc = "slot"
  /\ meta_hdr_idx' = meta_hdr_idx % MaxMeta
  /\ pc' = "header"
  /\ UNCHANGED <<crit, nonc, meta, nvs, hdr, ram, cold, inits, nvsLost>>

NextSlot ==
  /\ pc = "slot"
  /\ meta_hdr_idx' = (meta_hdr_idx + 1) % MaxMeta
  /\ pc' = "header"
  /\ UNCHANGED <<crit, nonc, meta, nvs, hdr, ram, cold, inits, nvsLost>>

WriteHeader ==
  /\ pc = "header"
  /\ meta' = [meta EXCEPT ![meta_hdr_idx] = hdr]
  /\ pc' = "up"
  /\ UNCHANGED <<crit, nonc, meta_hdr_idx, nvs, hdr, ram, cold, inits, nvsLost>>

\* rtc_store_deinit; a reader in the middle of its round finds the store down.
Deinit ==
  /\ pc = "up" /\ ~discarding
  /\ pc' = "off"
  /\ UNCHANGED <<crit, nonc, meta, meta_hdr_idx, nvs, hdr, ram, cold, inits, nvsLost>>

Forget ==
  /\ pc' = "off" /\ discarding' = FALSE
  /\ reader' = "idle" /\ encoded' = 0 /\ consumed' = <<>> /\ data_msg_len' = 0

SoftReset ==
  /\ Forget /\ cold' = FALSE
  /\ UNCHANGED <<crit, nonc, meta, meta_hdr_idx, nvs, hdr, inits, nvsLost>>

PowerLoss ==
  /\ crit' \in Garbage(CritLen) /\ nonc' \in Garbage(JunkLen)
  /\ meta' = [s \in Slot |-> Absent] /\ meta_hdr_idx' \in {0, IdxMod - 1}
  /\ Forget /\ cold' = TRUE
  /\ UNCHANGED <<nvs, hdr, inits, nvsLost>>

Next ==
  \/ WriteCritical(CritLen)
  \/ \E len \in NoncLens : WriteNonCritical(len)
  \/ ReadCritical \/ ReadNonCritical \/ ReleaseNonCritical \/ SendData \/ AckCritical
  \/ DiscardCritical \/ DiscardNonCritical
  \/ InitCritical \/ InitNonCritical \/ ReadNvs \/ NextSlot \/ WriteHeader
  \/ Deinit \/ SoftReset \/ PowerLoss

Spec == Init /\ [][Next]_vars

-----------------------------------------------------------------------------
Records(s) == {s[i].rec : i \in 1..Len(s)} \cap Record
Stored == Records(crit) \cup Records(nonc)

\* A record written less than MaxMeta boots ago is reported under the header
\* of the boot that wrote it, however the boots since then ended.
HeaderFresh ==
  \A rec \in Stored : inits - rec.born < MaxMeta => meta[rec.idx] = rec.hdr

\* The cloud can tell boots apart: records of different boots still in the
\* store carry different headers, as long as boot_cnt has not wrapped and NVS
\* has kept it.
BootsTold ==
  nvsLost \/ \A r1, r2 \in Stored :
    (r1.born < r2.born /\ r2.born - r1.born < BootMod) => r1.hdr # r2.hdr

\* The non-critical data the reader has encoded and not released yet is still
\* the oldest of the buffer, so that the release drops that and nothing else.
ConsumedIsOldest == pc = "up" => IsPrefix(consumed, nonc)

\* Both buffers start with the first byte of a record, although critical data is
\* released by a count of bytes that was remembered when other records were at
\* the front: a count of the wrong records may lose some and cuts none.
AlignedFront ==
  /\ crit # <<>> => crit[1].at = 1
  /\ nonc # <<>> => nonc[1].at = 1
=============================================================================
