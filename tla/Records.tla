------------------------------- MODULE Records -------------------------------
(***************************************************************************)
(* The way of a record: from the log hook, or a metric or variable that is *)
(* reported, into the store, and from there into a document for the cloud. *)
(* The store is the two sequences of bytes RtcStore and RingBuffer promise;*)
(* a read takes at most ReadCap of them, wherever that cuts a record.      *)
(*                                                                         *)
(* Tasks log and report at any time; the worker makes the documents.       *)
(***************************************************************************)
EXTENDS Documents, FiniteSets

CONSTANTS
  ReadCap,     \* INSIGHTS_READ_BUF_SIZE
  DataTypes,   \* data types reported
  MaxCalls,    \* bound: calls that log or report
  MaxBoots     \* bound: boots

ASSUME RecordsAssumption ==
  /\ ReadCap \in Nat
  /\ ReadCap >= 1 + LogSize /\ ReadCap >= 1 + HdrSize + PtSize /\ ReadCap >= 1 + HdrSize + StrSize
  /\ MaxCalls \in Nat /\ MaxBoots \in Nat \ {0}

LogTypes == {"error", "warning", "event"}
PointTypes == {"metrics", "variable"}

VARIABLES
  meta,      \* index of the current header: the boot
  booted,    \* the boot document has been made in this boot
  crit, nc,  \* the bytes in the two buffers
  logged,    \* history: what was logged while the hook is enabled, or reported
  direct,    \* history: messages of the tag "wifi" passed to esp_log_writev itself
  told,      \* history: how often each of these was told in a document
  doc        \* the document made by this step, if any, and what it was made of

vars == <<meta, booted, crit, nc, logged, direct, told, doc>>

NoDoc == [calls |-> <<>>, crit |-> <<>>, nc |-> <<>>, critConsumed |-> 0, ncConsumed |-> 0]

Init ==
  /\ meta = 1 /\ booted = FALSE
  /\ crit = <<>> /\ nc = <<>>
  /\ logged = <<>> /\ direct = {} /\ told = [i \in 1..MaxCalls |-> 0] /\ doc = NoDoc

Id == Len(logged) + 1
\* esp_diag_log_data_t; its msg_args follow from the format, kept by its number.
LogRecord(type, format) == [id |-> Id, type |-> type, meta |-> meta, format |-> format]

\* A message is logged: n of the wrapped functions call diag_log_add.
LogAs(n, type, format, via, wifi) ==
  /\ Id <= MaxCalls
  /\ LET rec == LogRecord(type, format) IN
     /\ crit' = crit \o FlattenSeq([i \in 1..n |-> LogBytes(rec)])
     /\ logged' = Append(logged, rec)
  /\ direct' = IF via = "writev" /\ wifi THEN direct \cup {Id} ELSE direct
  /\ doc' = NoDoc /\ UNCHANGED <<meta, booted, nc, told>>

\* Faulty variant: both wrapped functions record whatever the tag.
LogTwice(type, format, via, wifi) ==
  LogAs(IF via = "write" THEN 2 ELSE 1, type, format, via, wifi)

Log(type, format, via, wifi) == LogAs(TimesRecorded(via, wifi), type, format, via, wifi)

LogCall ==
  \E type \in LogTypes, format \in DOMAIN Formats, via \in {"write", "writev", "event"}, wifi \in BOOLEAN :
    /\ (type = "event") = (via = "event")
    /\ Log(type, format, via, wifi)

\* esp_diag_metrics_report, esp_diag_variable_report
Report(type, data_type) ==
  /\ Id <= MaxCalls
  /\ LET rec == [id |-> Id, type |-> type, data_type |-> data_type, meta |-> meta] IN
     /\ nc' = nc \o PtBytes(rec)
     /\ logged' = Append(logged, rec)
  /\ doc' = NoDoc /\ UNCHANGED <<meta, booted, crit, direct, told>>

\* The store is kept over a reset, its records under their own header.
Reboot ==
  /\ meta < MaxBoots
  /\ meta' = meta + 1 /\ booted' = FALSE
  /\ doc' = NoDoc /\ UNCHANGED <<crit, nc, logged, direct, told>>

Drop(bytes, n) == SubSeq(bytes, n + 1, Len(bytes))
Read(bytes) == IF Len(bytes) > ReadCap THEN SubSeq(bytes, 1, ReadCap) ELSE bytes

\* How often a document tells of a record: the values for this key in maps enc.
Told(calls, enc, key, id) ==
  Cardinality({k \in 1..Len(calls) : /\ calls[k].op = "pair" /\ calls[k].in = enc
                                     /\ calls[k].key = key /\ calls[k].val = id})

\* send_insights_data: non-critical data is released before the document is
\* sent, critical data after; without a whole record nothing is sent.
SendEncoded(c, n) ==
  /\ c.consumed > 0 \/ n.consumed > 0
  /\ doc' = [calls |-> DataBegin(meta) \o c.calls \o n.calls \o DataEnd,
             crit |-> Read(crit), nc |-> Read(nc),
             critConsumed |-> c.consumed, ncConsumed |-> n.consumed]
  /\ nc' = Drop(nc, n.consumed)
  /\ LET critical == [i \in DOMAIN told |-> Told(doc'.calls, "element", "pc", i)]
         rest == [i \in DOMAIN told |-> Told(doc'.calls, "map", "v", i)]
     IN \/ /\ crit' = Drop(crit, c.consumed)
           /\ told' = [i \in DOMAIN told |-> told[i] + critical[i] + rest[i]]
        \/ crit' = crit /\ told' = [i \in DOMAIN told |-> told[i] + rest[i]]

SendData ==
  /\ booted
  /\ SendEncoded(CriticalData(Read(crit)), NonCriticalData(Read(nc)))
  /\ UNCHANGED <<meta, booted, logged, direct>>

\* send_boottime_data, in the first round after a boot.
SendBoot(crash) ==
  /\ ~booted /\ booted' = TRUE
  /\ doc' = [NoDoc EXCEPT !.calls = BootDocument(meta, crash)]
  /\ UNCHANGED <<meta, crit, nc, logged, direct, told>>

Next ==
  \/ LogCall
  \/ \E type \in PointTypes, data_type \in DataTypes : Report(type, data_type)
  \/ Reboot
  \/ SendData
  \/ \E crash \in {<<>>, <<2>>} : SendBoot(crash)

Spec == Init /\ [][Next]_vars

-----------------------------------------------------------------------------
(* Properties *)

\* Every document is one complete CBOR item: whatever records it was made of
\* and wherever the read cut the last one, containers are closed in the order
\* they were opened, maps hold pairs and no key twice.
DocumentsWellFormed == doc.calls = <<>> \/ WellFormed(doc.calls, "s_encoder")

\* The first n of these bytes are whole records under one header.
WholeUnder(bytes, n) ==
  n > 0 =>
    /\ n <= Len(bytes) /\ bytes[1].at = 0
    /\ n = Len(bytes) \/ bytes[n + 1].at = 0
    /\ \A i \in 1..n : bytes[i].rec.meta = bytes[1].rec.meta
    /\ \A i \in 1..n : bytes[i].at = 0 => i + (IF bytes[i].rec.type \in LogTypes THEN LogSize
                                              ELSE HdrSize + Size(bytes[i].rec)) <= n

\* What is consumed, and then released from the store, is whole records of
\* one header: the store is never left in the middle of a record, and no
\* record is reported under a header that is not its own.
ConsumesWholeRecords ==
  WholeUnder(doc.crit, doc.critConsumed) /\ WholeUnder(doc.nc, doc.ncConsumed)

\* A front record that was read whole is consumed: no record stands in the way
\* of those behind it.
FrontIsConsumed ==
  /\ Len(doc.crit) > LogSize => doc.critConsumed > 0
  /\ (doc.nc # <<>> /\ Len(doc.nc) > HdrSize + Size(doc.nc[1].rec)) => doc.ncConsumed > 0

\* How often a record is in a buffer.
Held(bytes, id) == Cardinality({k \in 1..Len(bytes) : bytes[k].at = 0 /\ bytes[k].rec.id = id})

\* Every message while the hook is enabled, and every point reported, is at any time
\* either in the store or told in a document, once: the two wrapped log
\* functions do not record it twice, and the three walks over the critical data
\* and two over the rest leave none out.  But a message of the tag "wifi" that
\* the Wi-Fi libraries pass to esp_log_writev itself is not recorded at all:
\* "Logs with "wifi" tag, will be collected in esp_log_writev()"
\* (esp_diagnostics_log_hook.c:434), but the wrapped esp_log_writev leaves them
\* out, and only the wrapped esp_log_write takes them (:450, :461).
\* (A document that was not sent tells of its non-critical records only.)
TakenOnce ==
  \A i \in 1..MaxCalls :
    told[i] + Held(crit, i) + Held(nc, i) =
      IF i <= Len(logged) /\ i \notin direct THEN 1 ELSE 0

\* The parser takes just what was passed for this directive, and keeps it.
Regular(d) == ArgOf(d).type # "none" /\ ArgOf(d).words = Passed(d)

\* The bytes of argument k of a message, as the caller passed it.
Intended(d, k) ==
  [b \in 1..ArgOf(d).len |->
     IF d.conv = "s" THEN [word |-> [arg |-> k, word |-> 1], byte |-> b]
     ELSE [word |-> [arg |-> k, word |-> (b - 1) \div 4 + 1], byte |-> (b - 1) % 4]]

\* The arguments of a message before the first irregular directive are kept,
\* each with all its bytes, up to the first that does not fit, and what is kept
\* is never longer than the buffer, whatever the format: a modifier does not
\* take the words of the next argument, nor a string longer than its length
\* byte shift the entries behind it.  (Behind a "%%" or a "*" the parser is one
\* or more words off, and nothing is claimed.)
ArgsSurvive ==
  \A i \in 1..Len(logged) : logged[i].type \in LogTypes =>
    LET format == Formats[logged[i].format] IN
    \A tlv \in {Tlv(format)} : \A args \in {Args(tlv)} :
      /\ Len(tlv) <= MaxArgs
      /\ \A k \in 1..Len(format) : (\A j \in 1..k : Regular(format[j])) =>
           IF k <= Len(args) THEN args[k].value = Intended(format[k], k)
           ELSE Len(tlv) + 2 + ArgOf(format[Len(args) + 1]).len > MaxArgs

=============================================================================
