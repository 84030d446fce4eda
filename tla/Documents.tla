------------------------------ MODULE Documents ------------------------------
(***************************************************************************)
(* The documents sent to the cloud (esp_insights_encoder.c and             *)
(* esp_insights_cbor_encoder.c), as calls to the CBOR encoder, and how     *)
(* much of the data read from the store an encoded list accounts for.      *)
(*                                                                         *)
(* A byte read from the store is known by its record and its place in it.  *)
(***************************************************************************)
EXTENDS LogHook

CONSTANTS
  Formats,   \* formats of log messages, a sequence
  LogSize,   \* sizeof(esp_diag_log_data_t)
  PtSize,    \* sizeof(esp_diag_data_pt_t)
  StrSize,   \* sizeof(esp_diag_str_data_pt_t)
  HdrSize    \* sizeof(rtc_store_non_critical_data_hdr_t)

ASSUME FormatsAssumption == Formats \in Seq(Seq(Directives))

ASSUME SizeAssumption ==
  /\ LogSize \in Nat \ {0} /\ PtSize \in Nat \ {0} /\ StrSize \in Nat \ {0} /\ HdrSize \in Nat \ {0}
  /\ PtSize # StrSize

-----------------------------------------------------------------------------
(* The frame of a document *)

MetaHdr(enc, hdr) ==
  Pair(enc, "sha256", hdr) \o Pair(enc, "gen_id", hdr) \o Pair(enc, "boot_cnt", hdr)

DiagBegin(hdr) ==
  Open("s_encoder", "s_result_map", "map") \o Begin("s_result_map", "diag", "s_diag_map")
    \o Pairs("s_diag_map", <<"ver", "ts">>, "") \o MetaHdr("s_diag_map", hdr)

DiagEnd == Close("s_result_map", "s_diag_map") \o Close("s_encoder", "s_result_map")

DataBegin(hdr) == DiagBegin(hdr) \o Begin("s_diag_map", "data", "s_diag_data_map")
\* Faulty variant: the map of the data is left open.
DataEndOpen == DiagEnd
DataEnd == Close("s_diag_map", "s_diag_data_map") \o DiagEnd

\* The header under which a list of the document was recorded.
DataHdr(key, targets, hdr) ==
  Container("s_diag_data_map", key, "hdr_map", "map",
            Container("hdr_map", "maps_to", "map_list", "array",
                      Puts("map_list", targets))
              \o MetaHdr("hdr_map", hdr))

BootInfo ==
  Container("s_diag_data_map", "boot", "boot_map", "map",
            Pairs("boot_map", <<"ts", "chip", "chip_rev", "reason", "proj", "app_ver">>, ""))

\* The summary of a core dump, of n words of stack (RISC-V).
Crash(n) ==
  LET words(key, list, len) ==
        Container("crash_map", key, list, "array", Puts(list, [i \in 1..len |-> i]))
      fields(keys) == Pairs("crash_map", keys, "")
  IN Container("s_diag_data_map", "crash", "crash_map", "map",
               fields(<<"ver", "sha256", "task">>) \o words("exc_val", "val_list", 3)
                 \o words("stackdump", "bt_list", n)
                 \o fields(<<"dump_size", "mstatus", "mtvec", "ra", "sp">>) \o words("a_reg", "reg_list", 8))

\* The boot message; crash is the stack depth of a core dump, or none.
BootDocument(hdr, crash) ==
  DataBegin(hdr) \o BootInfo \o Each(crash, Crash) \o DataEnd

-----------------------------------------------------------------------------
(* Critical data: logs *)

Bytes(rec, size) == [k \in 1..size |-> [rec |-> rec, at |-> k - 1]]
LogBytes(rec) == Bytes(rec, 1 + LogSize)

\* What a byte is taken for at the place it is found at.
MetaIdx(b) == IF b.at = 0 THEN b.rec.meta ELSE 0
TypeByte(b) == IF b.at = 1 THEN b.rec.type ELSE "none"

LogElement(list, rec) ==
  Element(list, "element",
          Pairs("element", <<"ts", "tag", "pc", "ro">>, rec.id)
            \o MsgArgs("element", Tlv(Formats[rec.format]))
            \o Pair("element", "task", ""))

\* Faulty variant: the last whole record is taken for a part of one.
LogWalkEarly(data, type) ==
  LET From[i \in Nat] ==
        IF Len(data) - i <= LogSize + 1 \/ MetaIdx(data[i + 1]) # MetaIdx(data[1])
        THEN [calls |-> <<>>, consumed |-> i]
        ELSE LET rest == From[i + 1 + LogSize]
                 told == IF TypeByte(data[i + 2]) = type
                         THEN LogElement("list", data[i + 2].rec) ELSE <<>>
             IN [calls |-> told \o rest.calls, consumed |-> rest.consumed]
  IN From[0]

\* The elements of one type, and the bytes walked over: whole records under
\* the header of the first.
LogWalk(data, type) ==
  LET From[i \in Nat] ==
        IF Len(data) - i <= LogSize \/ MetaIdx(data[i + 1]) # MetaIdx(data[1])
        THEN [calls |-> <<>>, consumed |-> i]
        ELSE LET rest == From[i + 1 + LogSize]
                 told == IF TypeByte(data[i + 2]) = type
                         THEN LogElement("list", data[i + 2].rec) ELSE <<>>
             IN [calls |-> told \o rest.calls, consumed |-> rest.consumed]
  IN From[0]

MaxOf(a, b) == IF a > b THEN a ELSE b

\* What an encoding function leaves: calls and consumed bytes.
Nothing == [calls |-> <<>>, consumed |-> 0]

Traces(e, w, v) ==
  [calls |-> Container("s_diag_data_map", "traces", "log_map", "map", e.calls \o w.calls \o v.calls),
   consumed |-> MaxOf(e.consumed, MaxOf(w.consumed, v.consumed))]

DiagLogs(data) ==
  LET list(type, key) ==
        LET walk == LogWalk(data, type)
        IN [calls |-> Container("log_map", key, "list", "array", walk.calls), consumed |-> walk.consumed]
  IN Traces(list("error", "errors"), list("warning", "warnings"), list("event", "events"))

\* Lists of which something was consumed are followed by their header.
WithHdr(lists, key, targets, data) ==
  LET hdr == IF lists.consumed > 0 THEN DataHdr(key, targets, MetaIdx(data[1])) ELSE <<>>
  IN [calls |-> lists.calls \o hdr, consumed |-> lists.consumed]

\* esp_insights_encode_critical_data
CriticalData(data) ==
  IF data = <<>> THEN Nothing ELSE WithHdr(DiagLogs(data), "meta_c", <<"traces">>, data)

-----------------------------------------------------------------------------
(* Non-critical data: metrics and variables *)

Size(rec) == IF rec.data_type = "STR" THEN StrSize ELSE PtSize
PtBytes(rec) == Bytes(rec, 1 + HdrSize + Size(rec))

HeaderLen(b) == IF b.at = 1 THEN Size(b.rec) ELSE 0

\* A value of a type the switch does not know leaves the key without a value.
DataPt(rec) ==
  Element("array", "map",
          Container("map", "n", "key_arr", "array",
                    Put("key_arr", rec.type) \o Put("key_arr", "tag") \o Put("key_arr", rec.id))
            \o (IF rec.data_type = "NULL" THEN Key("map", "v") ELSE Pair("map", "v", rec.id))
            \o Pair("map", "t", ""))

\* Faulty variant: the index byte of a part of a record is not given back.
PointWalkKeepingIndex(data, type) ==
  LET From[i \in Nat] ==
        IF Len(data) - i <= HdrSize \/ MetaIdx(data[i + 1]) # MetaIdx(data[1])
        THEN [calls |-> <<>>, consumed |-> i]
        ELSE LET len == HeaderLen(data[i + 2]) IN
             IF HdrSize + len > Len(data) - i - 1 \/ len = 0
             THEN [calls |-> <<>>, consumed |-> i + 1]
             ELSE LET rest == From[i + 1 + HdrSize + len]
                      rec == data[i + 2].rec
                      told == IF rec.type = type THEN DataPt(rec) ELSE <<>>
                  IN [calls |-> told \o rest.calls, consumed |-> rest.consumed]
  IN From[0]

PointWalk(data, type) ==
  LET From[i \in Nat] ==
        IF Len(data) - i <= HdrSize \/ MetaIdx(data[i + 1]) # MetaIdx(data[1])
        THEN [calls |-> <<>>, consumed |-> i]
        ELSE LET len == HeaderLen(data[i + 2]) IN
             IF HdrSize + len > Len(data) - i - 1 \/ len = 0
             THEN [calls |-> <<>>, consumed |-> i]
             ELSE LET rest == From[i + 1 + HdrSize + len]
                      rec == data[i + 2].rec
                      told == IF rec.type = type THEN DataPt(rec) ELSE <<>>
                  IN [calls |-> told \o rest.calls, consumed |-> rest.consumed]
  IN From[0]

DataPoints(data, key, type) ==
  IF Len(data) <= HdrSize THEN Nothing
  ELSE LET walk == PointWalk(data, type)
       IN [calls |-> Container("s_diag_data_map", key, "array", "array", walk.calls),
           consumed |-> walk.consumed]

Points(m, p) == [calls |-> m.calls \o p.calls, consumed |-> MaxOf(m.consumed, p.consumed)]

\* esp_insights_encode_non_critical_data
NonCriticalData(data) ==
  WithHdr(Points(DataPoints(data, "metrics", "metrics"), DataPoints(data, "params", "variable")),
          "meta_nc", <<"metrics", "params">>, data)

-----------------------------------------------------------------------------
(* Metadata *)

MetaBegin ==
  Open("s_meta_encoder", "s_meta_result_map", "map") \o Begin("s_meta_result_map", "diagmeta", "s_diag_meta_map")
    \o Pairs("s_diag_meta_map", <<"ver", "ts", "sha256">>, "")
    \o Begin("s_diag_meta_map", "data", "s_diag_meta_data_map")

MetaEnd ==
  Close("s_diag_meta_map", "s_diag_meta_data_map")
    \o Close("s_meta_result_map", "s_diag_meta_map") \o Close("s_meta_encoder", "s_meta_result_map")

\* kind is "m" or "p"; a unit is there if it was added.
MetaElement(kind, e) ==
  Container("tag_map", e.key, "m_map", "map",
            Container("m_map", kind, "id_map", "map",
                      Pairs("id_map", <<"label", "path", "data_type">>, e)
                        \o (IF e.unit # "" THEN Pair("id_map", "unit", e.unit) ELSE <<>>)))

\* The entries of one tag, in the order of the table.
TagGroup(kind, table, tag) ==
  Container("map", tag, "tag_d_map", "map",
            Container("tag_d_map", "d", "tag_map", "map",
                      Each(table, LAMBDA e : IF e.tag = tag THEN MetaElement(kind, e) ELSE <<>>)))

\* A tag is written with the first of its entries.
MetaTable(path, kind, table) ==
  IF table = <<>> THEN <<>>
  ELSE LET first(i) == \A j \in 1..(i - 1) : table[j].tag # table[i].tag
           groups == [i \in 1..Len(table) |-> IF first(i) THEN TagGroup(kind, table, table[i].tag) ELSE <<>>]
       IN Container("s_diag_meta_data_map", path, "metrics_map", "map",
                    Container("metrics_map", "d", "map", "map", FlattenSeq(groups)))

MetaDocument(metrics, variables) ==
  MetaBegin \o MetaTable("M", "m", metrics) \o MetaTable("P", "p", variables) \o MetaEnd

=============================================================================
