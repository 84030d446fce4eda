---------------------------- MODULE RtcStoreProofs ----------------------------
(***************************************************************************)
(* Proofs about the data store as a whole, for every size of the buffers   *)
(* and of the header table, all record lengths and any number of boots.    *)
(***************************************************************************)
EXTENDS RtcStore, TLAPS, SequenceTheorems

-----------------------------------------------------------------------------
(* The inductive invariant                                                  *)

\* What a byte of a buffer may be.
Junks == {Junk(CritLen), Junk(JunkLen)}
Stores == Record \cup Junks
ByteSet == {b \in [rec : Stores, at : Nat] : b.at \in 1..b.rec.len}

Types ==
  /\ crit \in Seq(ByteSet) /\ Len(crit) <= CritSize
  /\ nonc \in Seq(ByteSet) /\ Len(nonc) <= NoncSize
  /\ reader \in {"idle", "critical", "release", "send"} /\ consumed \in Seq(ByteSet)
  /\ encoded \in 0..CritSize /\ data_msg_len \in 0..CritSize
  /\ meta \in [Slot -> Header \cup {Absent}] /\ meta_hdr_idx \in 0..IdxMod-1
  /\ nvs \in Header \cup {Absent} /\ hdr \in Header
  /\ pc \in {"off", "noncritical", "meta", "slot", "header", "up"}
  /\ cold \in BOOLEAN /\ discarding \in BOOLEAN /\ nvsLost \in BOOLEAN
  /\ inits \in 0..MaxInits

\* What is true between which steps of the initialisation, the reader and the
\* discarding of data.
StepInv ==
  /\ pc \in {"slot", "header", "up"} => inits # 0
  /\ pc \in {"header", "up"} \/ Stored # {} => meta_hdr_idx \in Slot
  /\ pc = "up" => meta[meta_hdr_idx] = hdr
  /\ cold /\ pc \in {"noncritical", "meta", "slot", "header"} => crit = <<>>
  /\ cold /\ pc \in {"meta", "slot", "header"} => nonc = <<>>
  /\ reader # "idle" => pc \in {"up", "off"}
  /\ consumed # <<>> => reader = "release"
  /\ discarding => pc = "up" /\ reader = "idle"

\* The table has moved on by at most one slot for each boot since a record was
\* written, one less while a boot has been counted and not got its slot.
Age(rec) == inits - rec.born
Moves(rec) == 0..(IF pc = "slot" THEN Age(rec) - 1 ELSE Age(rec))
SlotKept(rec) ==
  /\ meta[rec.idx] = rec.hdr
  /\ \E k \in Moves(rec) : /\ meta_hdr_idx = rec.idx + k \/ meta_hdr_idx = rec.idx + k - MaxMeta
                           /\ pc = "header" => k # 0
SlotInv == \A rec \in Stored : rec.born <= inits /\ (Age(rec) < MaxMeta => SlotKept(rec))

\* NVS and the headers count boots, modulo the width of the counter.
Counted(a, b, d) == b = a + d \/ b = a + d - BootMod
CountInv ==
  /\ inits = 0 => nvs = Absent
  /\ inits # 0 => nvs \in Header
  /\ pc \in {"slot", "header", "up"} => hdr = nvs
  /\ \A rec \in Stored : Age(rec) < BootMod => Counted(rec.hdr.boot, nvs.boot, Age(rec))
  /\ \A r1, r2 \in Stored : r1.born < r2.born /\ r2.born - r1.born < BootMod =>
       Counted(r1.hdr.boot, r2.hdr.boot, r2.born - r1.born)
BootInv == nvsLost \/ CountInv

IInv == Types /\ StepInv /\ SlotInv /\ BootInv

-----------------------------------------------------------------------------
(* Bytes and records                                                        *)

LEMMA Sizes ==
  /\ MaxMeta \in Nat \ {0} /\ IdxMod \in Nat /\ MaxMeta <= IdxMod /\ BootMod \in Nat \ {0} /\ MaxInits \in Nat
  /\ CritSize \in Nat /\ NoncSize \in Nat /\ CritSize >= 2 /\ NoncSize >= 2
  /\ CritLen \in 1..CritSize /\ NoncLens \subseteq 1..NoncSize
  BY StoreAssumption DEF StoreAssumption

LEMMA LensPositive == \A len \in {CritLen} \cup NoncLens : len \in Nat \ {0}
  BY Sizes

LEMMA NoBytes == <<>> \in Seq(ByteSet) /\ Len(<<>>) = 0
  OBVIOUS

\* Garbage is no record.
LEMMA RecordParts ==
  ASSUME NEW rec \in Record
  PROVE  /\ rec.len \in Nat \ {0} /\ rec.idx \in Slot /\ rec.born \in 1..MaxInits /\ rec.hdr \in Header
         /\ rec \notin Junks /\ rec \in Stores
  <1>1. rec.len \in {CritLen} \cup NoncLens /\ rec.idx \in Slot /\ rec.born \in 1..MaxInits /\ rec.hdr \in Header
    BY DEF Record
  <1>2. \A j \in Junks : j.born = 0
    BY DEF Junks, Junk
  <1>3. rec.len \in Nat \ {0}
    BY <1>1, LensPositive
  <1>4. rec \notin Junks
    BY <1>1, <1>2, Sizes
  <1> QED BY <1>1, <1>3, <1>4 DEF Stores

LEMMA StoresLen == \A rec \in Stores : rec.len \in Nat \ {0}
  <1>1. \A j \in Junks : j.len \in Nat \ {0}
    BY Sizes DEF Junks, Junk, JunkLen
  <1> QED BY <1>1, RecordParts DEF Stores

\* The bytes of a record.
LEMMA BytesOf ==
  ASSUME NEW rec \in Stores
  PROVE  /\ Bytes(rec) \in Seq(ByteSet) /\ Len(Bytes(rec)) = rec.len
         /\ \A k \in 1..rec.len : Bytes(rec)[k].rec = rec /\ Bytes(rec)[k].at = k
  <1>1. rec.len \in Nat \ {0}
    BY StoresLen
  <1>2. ASSUME NEW k \in 1..rec.len
        PROVE  [rec |-> rec, at |-> k] \in ByteSet
    BY <1>1 DEF ByteSet
  <1>3. Bytes(rec) \in [1..rec.len -> ByteSet]
    BY <1>2 DEF Bytes
  <1>4. Bytes(rec) \in Seq(ByteSet) /\ Len(Bytes(rec)) = rec.len
    BY <1>1, <1>3
  <1>5. \A k \in 1..rec.len : Bytes(rec)[k].rec = rec /\ Bytes(rec)[k].at = k
    BY DEF Bytes
  <1> QED BY <1>4, <1>5

\* What remains when the first n bytes are dropped, and the bytes dropped.
LEMMA Dropped ==
  ASSUME NEW S, NEW q \in Seq(S), NEW n \in 0..Len(q)
  PROVE  /\ SubSeq(q, n + 1, Len(q)) \in Seq(S)
         /\ Len(SubSeq(q, n + 1, Len(q))) = Len(q) - n
         /\ \A i \in 1..Len(q) - n : SubSeq(q, n + 1, Len(q))[i] = q[n + i]
         /\ SubSeq(q, 1, n) \in Seq(S) /\ Len(SubSeq(q, 1, n)) = n
         /\ \A i \in 1..n : SubSeq(q, 1, n)[i] = q[i]
  OBVIOUS

LEMMA Joined ==
  ASSUME NEW S, NEW p \in Seq(S), NEW q \in Seq(S)
  PROVE  /\ p \o q \in Seq(S) /\ Len(p \o q) = Len(p) + Len(q)
         /\ \A i \in 1..Len(p) : (p \o q)[i] = p[i]
         /\ \A i \in 1..Len(q) : (p \o q)[Len(p) + i] = q[i]
  OBVIOUS

\* Which records a buffer holds after its steps.
LEMMA RecordsIn == ASSUME NEW q \in Seq(ByteSet) PROVE Records(q) \subseteq Record
  <1>1. \A i \in 1..Len(q) : q[i].rec \in Stores
    BY DEF ByteSet
  <1> QED BY <1>1 DEF Records, Stores

LEMMA RecordsDropped ==
  ASSUME NEW q \in Seq(ByteSet), NEW n \in 0..Len(q)
  PROVE  Records(SubSeq(q, n + 1, Len(q))) \subseteq Records(q)
  <1>1. PICK r : r = SubSeq(q, n + 1, Len(q))
    OBVIOUS
  <1>2. Len(r) = Len(q) - n /\ \A i \in 1..Len(r) : n + i \in 1..Len(q) /\ r[i] = q[n + i]
    BY <1>1, Dropped
  <1> QED BY <1>1, <1>2 DEF Records

LEMMA Emptied == \A n \in Nat : Released(<<>>, n) = <<>>
  <1>1. \A n \in Nat : n <= 0 => SubSeq(<<>>, n + 1, 0) = <<>>
    OBVIOUS
  <1> QED BY <1>1, NoBytes DEF Released

LEMMA ReleasedBytes ==
  ASSUME NEW q \in Seq(ByteSet), NEW n \in Nat
  PROVE  /\ Released(q, n) \in Seq(ByteSet) /\ Len(Released(q, n)) <= Len(q)
         /\ Records(Released(q, n)) \subseteq Records(q)
         /\ Released(q, n) = q \/ (n <= Len(q) /\ Released(q, n) = SubSeq(q, n + 1, Len(q)))
  <1>1. CASE n <= Len(q) /\ Released(q, n) = SubSeq(q, n + 1, Len(q))
    <2>1. n \in 0..Len(q)
      BY <1>1
    <2> QED BY <1>1, <2>1, Dropped, RecordsDropped
  <1>2. CASE Released(q, n) = q
    BY <1>2
  <1> QED BY <1>1, <1>2 DEF Released

LEMMA RecordsAdded ==
  ASSUME NEW q \in Seq(ByteSet), NEW rec \in Stores
  PROVE  Records(q \o Bytes(rec)) \subseteq Records(q) \cup {rec}
  <1>1. PICK r, b : r = q \o b /\ b = Bytes(rec)
    OBVIOUS
  <1>2. b \in Seq(ByteSet) /\ Len(b) = rec.len /\ \A k \in 1..Len(b) : b[k].rec = rec
    BY <1>1, BytesOf
  <1>3. /\ Len(r) = Len(q) + Len(b) /\ \A i \in 1..Len(q) : r[i] = q[i]
        /\ \A i \in 1..Len(b) : r[Len(q) + i] = b[i]
    BY <1>1, <1>2, Joined
  <1>4. \A i \in 1..Len(r) : i \in 1..Len(q) \/ (i - Len(q) \in 1..Len(b) /\ i = Len(q) + (i - Len(q)))
    BY <1>2, <1>3
  <1>5. \A i \in 1..Len(r) : (i \in 1..Len(q) /\ r[i].rec = q[i].rec) \/ r[i].rec = rec
    BY <1>2, <1>3, <1>4
  <1> QED BY <1>1, <1>5 DEF Records

LEMMA JunkParts ==
  ASSUME NEW j \in Junks
  PROVE  /\ j \in Stores /\ j \notin Record /\ Bytes(j) \in Seq(ByteSet) /\ Len(Bytes(j)) = j.len
         /\ Records(Bytes(j)) = {}
  <1>1. j \in Stores /\ j \notin Record
    BY RecordParts DEF Stores
  <1>2. Records(Bytes(j)) = {}
    BY <1>1, BytesOf, StoresLen DEF Records
  <1> QED BY <1>1, <1>2, BytesOf

LEMMA NoRecords == Records(<<>>) = {}
  BY DEF Records

LEMMA GarbageTyped ==
  ASSUME NEW n \in {CritLen, JunkLen}
  PROVE  Garbage(n) \subseteq Seq(ByteSet) /\ \A g \in Garbage(n) : Len(g) \in 0..n /\ Records(g) = {}
  <1>1. Junk(n) \in Junks /\ Junk(n).len = n /\ n \in Nat
    BY Sizes DEF Junks, Junk, JunkLen
  <1> QED BY <1>1, NoBytes, NoRecords, JunkParts DEF Garbage

LEMMA GarbageFits ==
  /\ Garbage(CritLen) \subseteq Seq(ByteSet) /\ \A g \in Garbage(CritLen) : Len(g) <= CritSize
  /\ Garbage(JunkLen) \subseteq Seq(ByteSet) /\ \A g \in Garbage(JunkLen) : Len(g) <= NoncSize
  <1>1. CritLen <= CritSize /\ JunkLen <= NoncSize /\ CritLen \in Nat /\ JunkLen \in Nat
    BY Sizes DEF JunkLen
  <1>2. \A g \in Garbage(CritLen) : g \in Seq(ByteSet) /\ Len(g) \in 0..CritLen
    BY GarbageTyped
  <1>3. \A g \in Garbage(JunkLen) : g \in Seq(ByteSet) /\ Len(g) \in 0..JunkLen
    BY GarbageTyped
  <1> QED BY <1>1, <1>2, <1>3, Sizes

LEMMA ModUp == ASSUME NEW m \in Nat \ {0}, NEW x \in 0..m-1
               PROVE  (x + 1) % m = IF x + 1 = m THEN 0 ELSE x + 1
  OBVIOUS

LEMMA ModRange == ASSUME NEW m \in Nat \ {0}, NEW x \in Int PROVE x % m \in 0..m-1
  OBVIOUS

-----------------------------------------------------------------------------
(* Types                                                                    *)

LEMMA HeaderTyped ==
  /\ Absent \notin Header /\ Header # {}
  /\ \A b \in BootOf(Absent) : b \in Header /\ b.boot = 0
  /\ \A h \in Header : \A b \in BootOf(h) : b \in Header /\ b.boot = (IF h.boot + 1 = BootMod THEN 0 ELSE h.boot + 1)
  /\ [gen |-> 0, boot |-> 0] \in Header
  <1>1. 0 \in Gen /\ Gen \subseteq Nat /\ BootMod \in Nat \ {0}
    BY StoreAssumption DEF StoreAssumption
  <1>2. Absent \notin Header
    BY <1>1 DEF Absent, Header
  <1>3. \A g \in Gen : [gen |-> g, boot |-> 0] \in Header
    BY <1>1 DEF Header
  <1>4. \A b \in BootOf(Absent) : \E g \in Gen : b = [gen |-> g, boot |-> 0]
    BY DEF BootOf
  <1>5. \A g \in Gen : [gen |-> g, boot |-> 0].boot = 0
    OBVIOUS
  <1>6. ASSUME NEW h \in Header, NEW b \in BootOf(h)
        PROVE  b \in Header /\ b.boot = (IF h.boot + 1 = BootMod THEN 0 ELSE h.boot + 1)
    <2>1. b = [h EXCEPT !.boot = (@ + 1) % BootMod]
      BY <1>2, <1>6 DEF BootOf
    <2>2. h.boot \in 0..BootMod-1
      BY DEF Header
    <2>3. PICK n \in 0..BootMod-1 : n = (h.boot + 1) % BootMod /\ n = (IF h.boot + 1 = BootMod THEN 0 ELSE h.boot + 1)
      BY <1>1, <2>2, ModUp
    <2> QED BY <2>1, <2>3 DEF Header
  <1> QED BY <1>1, <1>2, <1>3, <1>4, <1>5, <1>6

\* A record that is written.
LEMMA NewTyped ==
  ASSUME Types, StepInv, pc = "up", NEW len \in {CritLen} \cup NoncLens
  PROVE  /\ NewRecord(len) \in Record /\ NewRecord(len).len = len /\ NewRecord(len).idx = meta_hdr_idx
         /\ NewRecord(len).hdr = hdr /\ NewRecord(len).born = inits
         /\ meta[meta_hdr_idx] = hdr
  <1>1. meta_hdr_idx \in Slot /\ meta[meta_hdr_idx] = hdr /\ hdr \in Header /\ inits \in 1..MaxInits
    BY Sizes DEF Types, StepInv
  <1> QED BY <1>1 DEF NewRecord, Record

\* How many bytes are freed for a record of length len.
LEMMA FreedFits ==
  ASSUME Types, NEW len \in NoncLens, NEW n \in Freed(len)
  PROVE  n \in 0..Len(nonc) /\ Len(nonc) - n + len <= NoncSize /\ (~Overwrite => n = 0)
  <1> DEFINE fitting == {m \in 0..Len(nonc) : Len(nonc) - m + len <= NoncSize}
             whole == {m \in fitting \ {0} : nonc[m].at = nonc[m].rec.len}
  <1>1. Freed(len) \subseteq fitting
    <2>1. whole \subseteq fitting
      OBVIOUS
    <2> HIDE DEF whole, fitting
    <2> QED BY <2>1 DEF Freed, whole, fitting
  <1>2. ~Overwrite => n = 0
    BY DEF Freed
  <1> QED BY <1>1, <1>2

LEMMA TypesStart == Init => Types
  <1> SUFFICES ASSUME Init PROVE Types
    OBVIOUS
  <1>1. crit \in Seq(ByteSet) /\ Len(crit) <= CritSize /\ nonc \in Seq(ByteSet) /\ Len(nonc) <= NoncSize
    BY GarbageFits DEF Init
  <1>2. consumed \in Seq(ByteSet) /\ encoded \in 0..CritSize /\ data_msg_len \in 0..CritSize
    BY NoBytes, Sizes DEF Init
  <1>3. hdr \in Header /\ nvs \in Header \cup {Absent} /\ inits \in 0..MaxInits
    BY HeaderTyped, Sizes DEF Init
  <1>4. meta \in [Slot -> Header \cup {Absent}] /\ meta_hdr_idx \in 0..IdxMod-1
    BY Sizes DEF Init
  <1> QED BY <1>1, <1>2, <1>3, <1>4 DEF Init, Types

LEMMA TypesNext == Types /\ StepInv /\ [Next]_vars => Types'
  <1> SUFFICES ASSUME Types, StepInv, [Next]_vars PROVE Types'
    OBVIOUS
  <1> USE Sizes DEF Types, ram, round
  <1>1. ASSUME NEW len \in {CritLen}, WriteCritical(len) PROVE Types'
    <2>1. PICK b : b = Bytes(NewRecord(len))
      OBVIOUS
    <2>2. b \in Seq(ByteSet) /\ Len(b) = len
      <3>1. NewRecord(len) \in Stores /\ NewRecord(len).len = len
        BY <1>1, NewTyped, RecordParts DEF WriteCritical
      <3> QED BY <2>1, <3>1, BytesOf
    <2>3. crit' = crit \o b /\ Len(crit) + len <= CritSize
      BY <1>1, <2>1 DEF WriteCritical
    <2>4. crit' \in Seq(ByteSet) /\ Len(crit') <= CritSize
      BY <2>2, <2>3, Joined
    <2> QED BY <1>1, <2>4 DEF WriteCritical
  <1>2. ASSUME NEW len \in NoncLens, WriteNonCritical(len) PROVE Types'
    <2>1. PICK b : b = Bytes(NewRecord(len))
      OBVIOUS
    <2>2. b \in Seq(ByteSet) /\ Len(b) = len
      <3>1. NewRecord(len) \in Stores /\ NewRecord(len).len = len
        BY <1>2, NewTyped, RecordParts DEF WriteNonCritical
      <3> QED BY <2>1, <3>1, BytesOf
    <2>3. PICK n \in Freed(len) : nonc' = SubSeq(nonc, n + 1, Len(nonc)) \o b
      BY <1>2, <2>1 DEF WriteNonCritical
    <2>4. n \in 0..Len(nonc) /\ Len(nonc) - n + len <= NoncSize
      BY <2>3, FreedFits
    <2>5. PICK r : r = SubSeq(nonc, n + 1, Len(nonc))
      OBVIOUS
    <2>6. r \in Seq(ByteSet) /\ Len(r) = Len(nonc) - n
      BY <2>4, <2>5, Dropped
    <2>7. nonc' \in Seq(ByteSet) /\ Len(nonc') = Len(r) + len
      BY <2>2, <2>3, <2>5, <2>6, Joined
    <2>8. Len(nonc') <= NoncSize
      BY <2>4, <2>6, <2>7
    <2> QED BY <1>2, <2>7, <2>8 DEF WriteNonCritical
  <1>3. CASE ReadCritical \/ ReadNonCritical
    <2>1. encoded' \in 0..CritSize /\ consumed' \in Seq(ByteSet)
      <3>1. CASE ReadCritical
        BY <3>1 DEF ReadCritical, Consumable, WholeRecords
      <3>2. CASE ReadNonCritical
        <4>1. PICK n \in Consumable(nonc) : consumed' = SubSeq(nonc, 1, n)
          BY <3>2 DEF ReadNonCritical
        <4>2. n \in 0..Len(nonc)
          BY <4>1 DEF Consumable, WholeRecords
        <4> QED BY <3>2, <4>1, <4>2, Dropped DEF ReadNonCritical
      <3> QED BY <1>3, <3>1, <3>2
    <2> QED BY <1>3, <2>1 DEF ReadCritical, ReadNonCritical
  <1>4. CASE ReleaseNonCritical
    <2>1. nonc' \in Seq(ByteSet) /\ Len(nonc') <= NoncSize
      <3>1. Len(consumed) \in Nat
        OBVIOUS
      <3> QED BY <1>4, <3>1, ReleasedBytes DEF ReleaseNonCritical
    <2> QED BY <1>4, <2>1, NoBytes DEF ReleaseNonCritical
  <1>5. CASE SendData \/ AckCritical
    <2>1. crit' = crit \/ crit' = Released(crit, encoded) \/ crit' = Released(crit, data_msg_len)
      BY <1>5 DEF SendData, AckCritical
    <2>2. crit' \in Seq(ByteSet) /\ Len(crit') <= CritSize
      BY <2>1, ReleasedBytes
    <2>3. /\ UNCHANGED <<nonc, meta, meta_hdr_idx, nvs, hdr, pc, discarding, consumed, cold, inits, nvsLost>>
          /\ encoded' \in {0, encoded} /\ data_msg_len' \in {encoded, data_msg_len} /\ reader' \in {"idle", reader}
      BY <1>5 DEF SendData, AckCritical
    <2> QED BY <2>2, <2>3
  <1>a. PICK none \in Seq(ByteSet) : none = <<>> /\ Len(none) = 0
    BY NoBytes
  <1>b. /\ none \in Seq(ByteSet) /\ Len(none) <= CritSize /\ Len(none) <= NoncSize
        /\ crit \in Seq(ByteSet) /\ Len(crit) <= CritSize /\ nonc \in Seq(ByteSet) /\ Len(nonc) <= NoncSize
    BY <1>a
  <1>6. CASE DiscardCritical \/ DiscardNonCritical
    <2>1. (crit' = none \/ crit' = crit) /\ (nonc' = none \/ nonc' = nonc)
      BY <1>6, <1>a DEF DiscardCritical, DiscardNonCritical
    <2>2. crit' \in Seq(ByteSet) /\ Len(crit') <= CritSize /\ nonc' \in Seq(ByteSet) /\ Len(nonc') <= NoncSize
      BY <1>b, <2>1, Zenon
    <2>3. /\ UNCHANGED <<meta, meta_hdr_idx, nvs, hdr, pc, round, cold, inits, nvsLost>>
          /\ discarding' \in BOOLEAN
      BY <1>6 DEF DiscardCritical, DiscardNonCritical
    <2> QED BY <2>2, <2>3
  <1>7. CASE InitCritical \/ InitNonCritical
    <2>1. (crit' = none \/ crit' = crit) /\ (nonc' = none \/ nonc' = nonc)
      BY <1>7, <1>a DEF InitCritical, InitNonCritical
    <2>2. crit' \in Seq(ByteSet) /\ Len(crit') <= CritSize /\ nonc' \in Seq(ByteSet) /\ Len(nonc') <= NoncSize
      BY <1>b, <2>1, Zenon
    <2>3. /\ UNCHANGED <<meta, meta_hdr_idx, nvs, hdr, ram, cold, inits, nvsLost>>
          /\ pc' \in {"noncritical", "meta", "off"}
      BY <1>7 DEF InitCritical, InitNonCritical
    <2> QED BY <2>2, <2>3
  <1>8. CASE ReadNvs
    <2>1. hdr' \in Header /\ nvs' \in Header \cup {Absent} /\ nvsLost' \in BOOLEAN
      <3>1. \A b \in BootOf(nvs) \cup BootOf(Absent) : b \in Header
        BY HeaderTyped
      <3> QED BY <1>8, <3>1, HeaderTyped DEF ReadNvs
    <2> QED BY <1>8, <2>1 DEF ReadNvs
  <1>9. CASE NextSlot
    <2>1. meta_hdr_idx' \in 0..MaxMeta-1
      BY <1>9, ModRange DEF NextSlot
    <2> QED BY <1>9, <2>1 DEF NextSlot
  <1>10. CASE WriteHeader
    BY <1>10 DEF WriteHeader
  <1>11. CASE Deinit \/ SoftReset
    <2>1. CASE Deinit
      BY <2>1 DEF Deinit
    <2>2. CASE SoftReset
      <3>1. consumed' = none /\ encoded' = 0 /\ data_msg_len' = 0
        BY <1>a, <2>2 DEF SoftReset, Forget
      <3>2. consumed' \in Seq(ByteSet) /\ encoded' \in 0..CritSize /\ data_msg_len' \in 0..CritSize
        BY <1>a, <3>1
      <3>3. /\ UNCHANGED <<crit, nonc, meta, meta_hdr_idx, nvs, hdr, inits, nvsLost>>
            /\ cold' = FALSE /\ discarding' = FALSE /\ pc' = "off" /\ reader' = "idle"
        BY <2>2 DEF SoftReset, Forget
      <3> QED BY <3>2, <3>3
    <2> QED BY <1>11, <2>1, <2>2
  <1>12. CASE PowerLoss
    <2>2. crit' \in Seq(ByteSet) /\ Len(crit') <= CritSize /\ nonc' \in Seq(ByteSet) /\ Len(nonc') <= NoncSize
      BY <1>12, GarbageFits DEF PowerLoss
    <2>3. meta' \in [Slot -> Header \cup {Absent}] /\ meta_hdr_idx' \in 0..IdxMod-1
      BY <1>12 DEF PowerLoss
    <2>4. UNCHANGED <<nvs, hdr, inits, nvsLost>> /\ Forget /\ cold' = TRUE
      BY <1>12 DEF PowerLoss
    <2>5. consumed' \in Seq(ByteSet) /\ encoded' \in 0..CritSize /\ data_msg_len' \in 0..CritSize
      BY <1>b, <1>a, <2>4 DEF Forget
    <2>6. /\ nvs' \in Header \cup {Absent} /\ hdr' \in Header /\ inits' \in 0..MaxInits
          /\ cold' \in BOOLEAN /\ discarding' \in BOOLEAN /\ nvsLost' \in BOOLEAN
      BY <2>4 DEF Forget
    <2>7. pc' = "off" /\ reader' = "idle"
      BY <2>4 DEF Forget
    <2> QED BY <2>2, <2>3, <2>5, <2>6, <2>7
  <1>13. CASE UNCHANGED vars
    BY <1>13 DEF vars
  <1> QED BY <1>1, <1>2, <1>3, <1>4, <1>5, <1>6, <1>7, <1>8, <1>9, <1>10, <1>11, <1>12, <1>13 DEF Next
-----------------------------------------------------------------------------
(* What the steps do to the stored records                                  *)

\* Nothing but the buffers and the reader changes.
Settled == UNCHANGED <<meta, meta_hdr_idx, nvs, hdr, pc, cold, inits, nvsLost>>

\* A write adds its record, and may free others.
LEMMA Writes ==
  ASSUME Types, StepInv, \/ WriteCritical(CritLen)
                         \/ \E len \in NoncLens : WriteNonCritical(len)
  PROVE  /\ Settled /\ UNCHANGED ram /\ pc = "up"
         /\ \E new \in Record : /\ new.idx = meta_hdr_idx /\ new.hdr = hdr /\ new.born = inits
                                /\ Stored' \subseteq Stored \cup {new}
  <1>1. ASSUME NEW len \in {CritLen}, WriteCritical(len)
        PROVE  /\ Settled /\ UNCHANGED ram /\ pc = "up"
               /\ NewRecord(len) \in Record /\ Stored' \subseteq Stored \cup {NewRecord(len)}
    <2>1. NewRecord(len) \in Record /\ NewRecord(len) \in Stores
      BY <1>1, NewTyped, RecordParts DEF WriteCritical
    <2>2. Records(crit') \subseteq Records(crit) \cup {NewRecord(len)}
      BY <1>1, <2>1, RecordsAdded DEF WriteCritical, Types
    <2>3. nonc' = nonc
      BY <1>1 DEF WriteCritical
    <2> QED BY <1>1, <2>1, <2>2, <2>3 DEF WriteCritical, Settled, Stored
  <1>2. ASSUME NEW len \in NoncLens, WriteNonCritical(len)
        PROVE  /\ Settled /\ UNCHANGED ram /\ pc = "up"
               /\ NewRecord(len) \in Record /\ Stored' \subseteq Stored \cup {NewRecord(len)}
    <2>1. NewRecord(len) \in Record /\ NewRecord(len) \in Stores
      BY <1>2, NewTyped, RecordParts DEF WriteNonCritical
    <2>2. PICK n \in Freed(len) : nonc' = SubSeq(nonc, n + 1, Len(nonc)) \o Bytes(NewRecord(len))
      BY <1>2 DEF WriteNonCritical
    <2>3. PICK q \in Seq(ByteSet) : q = SubSeq(nonc, n + 1, Len(nonc)) /\ Records(q) \subseteq Records(nonc)
      BY FreedFits, Dropped, RecordsDropped DEF Types
    <2>4. Records(nonc') \subseteq Records(q) \cup {NewRecord(len)}
      BY <2>1, <2>2, <2>3, RecordsAdded
    <2>5. crit' = crit
      BY <1>2 DEF WriteNonCritical
    <2> QED BY <1>2, <2>1, <2>3, <2>4, <2>5 DEF WriteNonCritical, Settled, Stored
  <1>3. PICK len \in {CritLen} \cup NoncLens :
          /\ Settled /\ UNCHANGED ram /\ pc = "up"
          /\ NewRecord(len) \in Record /\ Stored' \subseteq Stored \cup {NewRecord(len)}
    BY <1>1, <1>2
  <1> QED BY <1>3, NewTyped

\* The reader and the discarding of data only take away.
Takes == \/ ReadCritical \/ ReadNonCritical \/ ReleaseNonCritical \/ SendData \/ AckCritical
         \/ DiscardCritical \/ DiscardNonCritical

LEMMA Taking ==
  ASSUME Types, Takes PROVE Settled /\ Stored' \subseteq Stored
  <1> USE DEF Takes, ReadCritical, ReadNonCritical, ReleaseNonCritical, SendData, AckCritical, DiscardCritical,
              DiscardNonCritical, ram, round
  <1>1. Settled
    BY DEF Settled
  <1>2. Records(crit') \subseteq Records(crit)
    <2>1. crit' \in {crit, <<>>, Released(crit, encoded), Released(crit, data_msg_len)}
      OBVIOUS
    <2>2. crit \in Seq(ByteSet) /\ encoded \in Nat /\ data_msg_len \in Nat
      BY DEF Types
    <2> QED BY <2>1, <2>2, NoRecords, ReleasedBytes
  <1>3. Records(nonc') \subseteq Records(nonc)
    <2>1. nonc' \in {nonc, <<>>, Released(nonc, Len(consumed))}
      OBVIOUS
    <2>2. nonc \in Seq(ByteSet) /\ Len(consumed) \in Nat
      BY DEF Types
    <2> QED BY <2>1, <2>2, NoRecords, ReleasedBytes
  <1> QED BY <1>1, <1>2, <1>3 DEF Stored

\* Nor does the initialisation add records; after a power loss there are none.
Starts == InitCritical \/ InitNonCritical \/ ReadNvs \/ NextSlot \/ WriteHeader \/ Deinit \/ SoftReset

LEMMA Starting == ASSUME Types, Starts PROVE Stored' \subseteq Stored
  <1>1. (crit' = crit \/ crit' = <<>>) /\ (nonc' = nonc \/ nonc' = <<>>)
    BY DEF Starts, InitCritical, InitNonCritical, ReadNvs, NextSlot, WriteHeader, Deinit, SoftReset, Forget
  <1> QED BY <1>1, NoRecords DEF Stored

LEMMA PoweringDown == PowerLoss => Stored' = {}
  BY GarbageTyped DEF PowerLoss, Stored

LEMMA StoredRecords == Types => Stored \subseteq Record
  BY RecordsIn DEF Types, Stored

LEMMA Steps ==
  [Next]_vars <=> \/ WriteCritical(CritLen)
                  \/ \E len \in NoncLens : WriteNonCritical(len)
                  \/ Takes \/ Starts \/ PowerLoss \/ UNCHANGED vars
  BY DEF Next, Takes, Starts
-----------------------------------------------------------------------------
(* The parts of the invariant                                               *)

LEMMA PartsStart == Init => StepInv /\ SlotInv /\ BootInv
  <1> SUFFICES ASSUME Init PROVE StepInv /\ SlotInv /\ BootInv
    OBVIOUS
  <1>1. Stored = {}
    BY GarbageTyped DEF Init, Stored
  <1> QED BY <1>1 DEF Init, StepInv, SlotInv, BootInv, CountInv

LEMMA StepNext == IInv /\ [Next]_vars => StepInv'
  <1> SUFFICES ASSUME IInv, [Next]_vars PROVE StepInv'
    OBVIOUS
  <1> USE DEF ram, round, Forget
  <1>a. Types /\ StepInv /\ inits \in Nat
    BY DEF IInv, Types
  <1>1. CASE (WriteCritical(CritLen)) \/ (\E len \in NoncLens : WriteNonCritical(len))
    <2>1. Settled /\ UNCHANGED ram /\ pc = "up"
      BY <1>a, <1>1, Writes
    <2> QED BY <1>a, <2>1 DEF StepInv, Settled
  <1>2. CASE Takes
    <2>1. Settled /\ Stored' \subseteq Stored
      BY <1>a, <1>2, Taking
    <2>2. /\ (crit = <<>> /\ pc # "up" => crit' = <<>>) /\ (nonc = <<>> /\ pc # "up" => nonc' = <<>>)
          /\ reader' # "idle" => pc \in {"up", "off"}
          /\ consumed' # <<>> => reader' = "release"
          /\ discarding' => pc = "up" /\ reader' = "idle"
      BY <1>a, <1>2, Emptied DEF StepInv, Takes, Types, ReadCritical, ReadNonCritical, ReleaseNonCritical, SendData,
         AckCritical, DiscardCritical, DiscardNonCritical
    <2> QED BY <1>a, <2>1, <2>2 DEF StepInv, Settled
  <1>3. CASE InitCritical
    <2>1. Stored' \subseteq Stored
      BY <1>a, <1>3, Starting DEF Starts
    <2> QED BY <1>a, <1>3, <2>1 DEF StepInv, InitCritical
  <1>4. CASE InitNonCritical
    <2>1. Stored' \subseteq Stored
      BY <1>a, <1>4, Starting DEF Starts
    <2> QED BY <1>a, <1>4, <2>1 DEF StepInv, InitNonCritical
  <1>5. CASE ReadNvs
    <2>1. Stored' = Stored
      BY <1>5 DEF ReadNvs, Stored
    <2>2. cold => Stored = {}
      BY <1>a, <1>5, NoRecords DEF StepInv, ReadNvs, Stored
    <2> QED BY <1>a, <1>5, <2>1, <2>2 DEF StepInv, ReadNvs
  <1>6. CASE NextSlot
    <2>1. meta_hdr_idx' \in Slot
      BY <1>a, <1>6, Sizes, ModRange DEF NextSlot, Slot, Types
    <2> QED BY <1>a, <1>6, <2>1 DEF StepInv, NextSlot
  <1>7. CASE WriteHeader
    <2>1. meta'[meta_hdr_idx'] = hdr'
      BY <1>a, <1>7 DEF StepInv, WriteHeader, Types
    <2> QED BY <1>a, <1>7, <2>1 DEF StepInv, WriteHeader, Stored
  <1>8. CASE Deinit \/ SoftReset
    <2>1. Stored' = Stored
      BY <1>8 DEF Deinit, SoftReset, Stored
    <2> QED BY <1>a, <1>8, <2>1 DEF StepInv, Deinit, SoftReset
  <1>9. CASE PowerLoss
    <2>1. Stored' = {}
      BY <1>9, PoweringDown
    <2> QED BY <1>9, <2>1 DEF StepInv, PowerLoss
  <1>10. CASE UNCHANGED vars
    BY <1>a, <1>10 DEF vars, StepInv, Stored
  <1> QED BY <1>1, <1>2, <1>3, <1>4, <1>5, <1>6, <1>7, <1>8, <1>9, <1>10, Steps DEF Starts

LEMMA SlotNext == IInv /\ [Next]_vars => SlotInv'
  <1> SUFFICES ASSUME IInv, [Next]_vars PROVE SlotInv'
    OBVIOUS
  <1> USE Sizes
  <1>a. Types /\ StepInv /\ SlotInv /\ inits \in Nat /\ meta_hdr_idx \in Nat
    BY DEF IInv, Types
  <1>b. \A rec \in Stored : rec.born \in Nat /\ rec.idx \in Slot /\ rec.idx \in Nat /\ rec.idx < MaxMeta
    BY <1>a, StoredRecords, RecordParts DEF Slot
  \* A step that moves neither the table nor its index.
  <1>c. ASSUME UNCHANGED <<meta, meta_hdr_idx, inits>>, Stored' \subseteq Stored, pc' \in {pc, "off", "noncritical", "meta", "up"}
        PROVE  SlotInv'
    BY <1>a, <1>b, <1>c DEF SlotInv, SlotKept, Moves, Age
  <1>1. CASE (WriteCritical(CritLen)) \/ (\E len \in NoncLens : WriteNonCritical(len))
    <2>1. Settled /\ pc = "up"
      BY <1>a, <1>1, Writes
    <2>2. PICK new \in Record : /\ new.idx = meta_hdr_idx /\ new.hdr = hdr /\ new.born = inits
                                /\ Stored' \subseteq Stored \cup {new}
      BY <1>a, <1>1, Writes
    <2>3. meta[meta_hdr_idx] = hdr
      BY <1>a, <2>1 DEF StepInv
    <2>4. new.born <= inits /\ SlotKept(new)'
      BY <1>a, <2>1, <2>2, <2>3 DEF SlotKept, Moves, Age, Settled
    <2>5. \A rec \in Stored : rec.born <= inits' /\ (Age(rec)' < MaxMeta => SlotKept(rec)')
      BY <1>a, <2>1 DEF SlotInv, SlotKept, Moves, Age, Settled
    <2> QED BY <2>1, <2>2, <2>4, <2>5 DEF SlotInv, Settled
  <1>2. CASE Takes
    BY <1>a, <1>2, <1>c, Taking DEF Settled
  <1>3. CASE InitCritical \/ InitNonCritical \/ Deinit \/ SoftReset
    BY <1>a, <1>3, <1>c, Starting DEF Starts, InitCritical, InitNonCritical, Deinit, SoftReset, Forget
  <1>4. CASE ReadNvs
    <2>1. Stored' = Stored /\ meta' = meta /\ inits' = inits + 1 /\ pc' = "slot" /\ pc = "meta"
      BY <1>4 DEF ReadNvs, Stored
    <2>2. Stored # {} => meta_hdr_idx' = meta_hdr_idx
      BY <1>a, <1>4, NoRecords DEF StepInv, ReadNvs, Stored
    <2> QED BY <1>a, <1>b, <2>1, <2>2 DEF SlotInv, SlotKept, Moves, Age
  <1>5. CASE NextSlot
    <2>1. Stored' = Stored /\ meta' = meta /\ inits' = inits /\ pc' = "header" /\ pc = "slot"
      BY <1>5 DEF NextSlot, Stored
    <2>2. Stored # {} => meta_hdr_idx' = (IF meta_hdr_idx + 1 = MaxMeta THEN 0 ELSE meta_hdr_idx + 1)
      BY <1>a, <1>5, ModUp DEF StepInv, NextSlot, Slot
    <2>3. ASSUME NEW rec \in Stored, Age(rec) < MaxMeta PROVE SlotKept(rec)'
      <3>1. PICK k \in 0..Age(rec)-1 : meta_hdr_idx = rec.idx + k \/ meta_hdr_idx = rec.idx + k - MaxMeta
        BY <1>a, <2>1, <2>3 DEF SlotInv, SlotKept, Moves
      <3>2. k + 1 \in Moves(rec)' /\ k + 1 # 0
        BY <1>a, <1>b, <2>1, <3>1 DEF Moves, Age
      <3>3. meta_hdr_idx' = rec.idx + (k + 1) \/ meta_hdr_idx' = rec.idx + (k + 1) - MaxMeta
        BY <1>a, <1>b, <2>2, <2>3, <3>1 DEF Age
      <3>4. meta'[rec.idx] = rec.hdr
        BY <1>a, <2>1, <2>3 DEF SlotInv, SlotKept
      <3> QED BY <3>2, <3>3, <3>4 DEF SlotKept
    <2> QED BY <1>a, <2>1, <2>3 DEF SlotInv, Age
  <1>6. CASE WriteHeader
    <2>1. Stored' = Stored /\ meta' = [meta EXCEPT ![meta_hdr_idx] = hdr] /\ UNCHANGED <<inits, meta_hdr_idx>> /\ pc' = "up" /\ pc = "header"
      BY <1>6 DEF WriteHeader, Stored
    <2>2. ASSUME NEW rec \in Stored, Age(rec) < MaxMeta PROVE SlotKept(rec)'
      <3>1. PICK k \in 0..Age(rec) : /\ meta_hdr_idx = rec.idx + k \/ meta_hdr_idx = rec.idx + k - MaxMeta
                                     /\ k # 0
        BY <1>a, <2>1, <2>2 DEF SlotInv, SlotKept, Moves
      <3>2. meta_hdr_idx # rec.idx
        BY <1>a, <1>b, <2>2, <3>1 DEF Age
      <3>3. meta'[rec.idx] = rec.hdr
        BY <1>a, <1>b, <2>1, <2>2, <3>2 DEF SlotInv, SlotKept, Types
      <3>4. k \in Moves(rec)'
        BY <1>a, <1>b, <2>1, <3>1 DEF Moves, Age
      <3> QED BY <2>1, <3>1, <3>3, <3>4 DEF SlotKept
    <2> QED BY <1>a, <2>1, <2>2 DEF SlotInv, Age
  <1>7. CASE PowerLoss
    BY <1>7, PoweringDown DEF SlotInv
  <1>8. CASE UNCHANGED vars
    <2>1. UNCHANGED <<meta, meta_hdr_idx, inits, pc>> /\ Stored' = Stored
      BY <1>8 DEF vars, Stored
    <2> QED BY <2>1, <1>c
  <1> QED BY <1>1, <1>2, <1>3, <1>4, <1>5, <1>6, <1>7, <1>8, Steps DEF Starts

LEMMA BootNext == IInv /\ [Next]_vars => BootInv'
  <1> SUFFICES ASSUME IInv, [Next]_vars, ~nvsLost' PROVE CountInv'
    BY DEF BootInv
  <1> USE Sizes
  <1>1. ~nvsLost
    BY Steps, Writes, Taking DEF IInv, Settled, Starts, InitCritical, InitNonCritical, ReadNvs, NextSlot,
       WriteHeader, Deinit, SoftReset, PowerLoss, Forget, vars
  <1>a. Types /\ StepInv /\ SlotInv /\ CountInv /\ inits \in Nat
    BY <1>1 DEF IInv, Types, BootInv
  <1>b. \A rec \in Stored : rec.born \in Nat /\ rec.born <= inits /\ rec.hdr \in Header /\ rec.hdr.boot \in 0..BootMod-1
    BY <1>a, StoredRecords, RecordParts DEF SlotInv, Header
  \* A step that counts nothing.
  <1>c. ASSUME UNCHANGED <<nvs, hdr, inits>>, Stored' \subseteq Stored,
               pc' \in {"off", "noncritical", "meta"} \/ pc' = pc \/ (pc = "slot" /\ pc' = "header") \/ (pc = "header" /\ pc' = "up")
        PROVE  CountInv'
    BY <1>a, <1>c DEF CountInv, Age
  <1>2. CASE (WriteCritical(CritLen)) \/ (\E len \in NoncLens : WriteNonCritical(len))
    <2>1. Settled /\ pc = "up"
      BY <1>a, <1>2, Writes
    <2>2. PICK new \in Record : /\ new.idx = meta_hdr_idx /\ new.hdr = hdr /\ new.born = inits
                                /\ Stored' \subseteq Stored \cup {new}
      BY <1>a, <1>2, Writes
    <2>3. new.hdr.boot = nvs.boot /\ new.hdr.boot \in Nat
      BY <1>a, <2>1, <2>2 DEF CountInv, Types, Header
    <2>4. \A rec \in Stored' : Age(rec)' < BootMod => Counted(rec.hdr.boot, nvs'.boot, Age(rec)')
      BY <1>a, <2>1, <2>2, <2>3 DEF CountInv, Counted, Age, Settled
    <2>5. \A r1, r2 \in Stored' : r1.born < r2.born /\ r2.born - r1.born < BootMod =>
            Counted(r1.hdr.boot, r2.hdr.boot, r2.born - r1.born)
      <3> SUFFICES ASSUME NEW r1 \in Stored \cup {new}, NEW r2 \in Stored \cup {new},
                          r1.born < r2.born, r2.born - r1.born < BootMod
                   PROVE  Counted(r1.hdr.boot, r2.hdr.boot, r2.born - r1.born)
        BY <2>2
      <3>1. r1 \in Stored
        BY <1>a, <1>b, <2>2
      <3>2. CASE r2 \in Stored
        BY <1>a, <3>1, <3>2 DEF CountInv
      <3>3. CASE r2 = new
        BY <1>a, <2>2, <2>3, <3>1, <3>3 DEF CountInv, Age
      <3> QED BY <3>2, <3>3
    <2> QED BY <1>a, <2>1, <2>4, <2>5 DEF CountInv, Settled
  <1>3. CASE Takes
    BY <1>a, <1>3, <1>c, Taking DEF Settled
  <1>4. CASE InitCritical \/ InitNonCritical \/ NextSlot \/ WriteHeader \/ Deinit \/ SoftReset
    BY <1>a, <1>4, <1>c, Starting DEF Starts, InitCritical, InitNonCritical, NextSlot, WriteHeader, Deinit, SoftReset, Forget
  <1>5. CASE ReadNvs
    <2>1. Stored' = Stored /\ inits' = inits + 1 /\ hdr' = nvs' /\ nvs' \in BootOf(nvs)
      BY <1>5 DEF ReadNvs, Stored
    <2>2. nvs' \in Header /\ (nvs \in Header => nvs'.boot = (IF nvs.boot + 1 = BootMod THEN 0 ELSE nvs.boot + 1))
      BY <2>1, <1>a, HeaderTyped DEF CountInv
    <2>3. ASSUME NEW rec \in Stored, Age(rec)' < BootMod PROVE Counted(rec.hdr.boot, nvs'.boot, Age(rec)')
      <3>1. inits # 0 /\ rec.born \in Nat /\ rec.born <= inits /\ rec.born # 0
        BY <1>a, <1>b, StoredRecords, RecordParts
      <3>2. nvs \in Header /\ nvs.boot \in 0..BootMod-1
        BY <1>a, <3>1 DEF CountInv, Header
      <3>3. Age(rec)' = Age(rec) + 1 /\ Age(rec) \in Nat /\ Age(rec) < BootMod
        BY <1>a, <2>1, <2>3, <3>1 DEF Age
      <3>4. Counted(rec.hdr.boot, nvs.boot, Age(rec))
        BY <1>a, <3>3 DEF CountInv
      <3> QED BY <1>b, <2>2, <2>3, <3>2, <3>3, <3>4 DEF Counted
    <2> QED BY <1>a, <2>1, <2>2, <2>3 DEF CountInv
  <1>6. CASE PowerLoss
    <2>1. Stored' = {} /\ UNCHANGED <<nvs, hdr, inits>> /\ pc' = "off"
      BY <1>6, PoweringDown DEF PowerLoss, Forget
    <2> QED BY <1>a, <2>1 DEF CountInv
  <1>7. CASE UNCHANGED vars
    <2>1. UNCHANGED <<nvs, hdr, inits, pc>> /\ Stored' = Stored
      BY <1>7 DEF vars, Stored
    <2> QED BY <2>1, <1>c
  <1> QED BY <1>2, <1>3, <1>4, <1>5, <1>6, <1>7, Steps DEF Starts

LEMMA IInvStart == Init => IInv
  BY TypesStart, PartsStart DEF IInv

LEMMA IInvNext == IInv /\ [Next]_vars => IInv'
  BY TypesNext, StepNext, SlotNext, BootNext DEF IInv
-----------------------------------------------------------------------------
(* Theorems                                                                 *)

\* The inductive invariant holds in every reachable state.
THEOREM StoreSafe == Spec => []IInv
  <1> QED BY IInvStart, IInvNext, PTL DEF Spec

LEMMA StoredBytes == ASSUME NEW q \in Seq(ByteSet) PROVE IsStored(q)
  <1>1. \A b \in ByteSet : b.rec \in Record \cup {Junk(CritLen), Junk(JunkLen)} /\ b.at \in 1..b.rec.len
    BY DEF ByteSet, Stores, Junks
  <1> QED BY <1>1 DEF IsStored

\* Every variable keeps its type and neither buffer of rtc_store.c ever holds
\* more than fits, whatever is written, released, discarded or reset.
THEOREM TypesHold == Spec => []TypeOK
  <1>1. IInv => TypeOK
    BY StoredBytes DEF IInv, Types, TypeOK
  <1> QED BY <1>1, StoreSafe, PTL

\* A record less than MaxMeta boots old is found under the header of the boot
\* that wrote it: its slot of the table has not come round again, and a boot
\* that ended between taking a slot and writing it did no harm.
THEOREM HeadersFresh == Spec => []HeaderFresh
  <1>1. IInv => HeaderFresh
    BY DEF IInv, SlotInv, SlotKept, Age, HeaderFresh
  <1> QED BY <1>1, StoreSafe, PTL

\* Records of different boots have different headers as long as the counter
\* has not come round and NVS has kept it.
THEOREM BootsAreTold == Spec => []BootsTold
  <1>1. ASSUME IInv PROVE BootsTold
    <2> SUFFICES ASSUME ~nvsLost, NEW r1 \in Stored, NEW r2 \in Stored,
                        r1.born < r2.born, r2.born - r1.born < BootMod
                 PROVE  r1.hdr # r2.hdr
      BY DEF BootsTold
    <2>1. r1 \in Record /\ r2 \in Record
      BY <1>1, StoredRecords DEF IInv
    <2>2. r1.born \in Nat /\ r2.born \in Nat /\ r1.hdr.boot \in Nat /\ r2.hdr.boot \in Nat
      BY <2>1, RecordParts, Sizes DEF Header
    <2>3. Counted(r1.hdr.boot, r2.hdr.boot, r2.born - r1.born)
      BY <1>1 DEF IInv, BootInv, CountInv
    <2>4. r1.hdr.boot # r2.hdr.boot
      BY <2>2, <2>3, Sizes DEF Counted
    <2> QED BY <2>4
  <1> QED BY <1>1, StoreSafe, PTL

-----------------------------------------------------------------------------
(* The front of the buffers                                                 *)

\* A buffer holds whole records one after the other.
Chain(q) ==
  /\ q # <<>> => q[1].at = 1 /\ q[Len(q)].at = q[Len(q)].rec.len
  /\ \A i \in 1..Len(q) - 1 :
       IF q[i].at = q[i].rec.len THEN q[i + 1].at = 1
       ELSE q[i + 1].rec = q[i].rec /\ q[i + 1].at = q[i].at + 1

\* p is the beginning of q.
Begins(p, q) == Len(p) <= Len(q) /\ \A i \in 1..Len(p) : p[i] = q[i]

\* Critical records all have one length, so that they start at multiples of it,
\* and what is remembered for a later release is a multiple of it as well.
Multiples == {m * CritLen : m \in Nat}
WholeUnits(q) ==
  /\ Len(q) \in Multiples
  /\ \A i \in 1..Len(q) : q[i].rec.len = CritLen /\ \E m \in Multiples : i = m + q[i].at
CritInv == WholeUnits(crit) /\ encoded \in Multiples /\ data_msg_len \in Multiples

FrontInv ==
  /\ CritInv /\ Chain(nonc)
  /\ consumed # <<>> => consumed[Len(consumed)].at = consumed[Len(consumed)].rec.len
  /\ pc = "up" => Begins(consumed, nonc)

\* Writes and releases of whole records keep the chain.
LEMMA ChainGrows ==
  ASSUME NEW q \in Seq(ByteSet), Chain(q), NEW rec \in Stores
  PROVE  Chain(q \o Bytes(rec))
  <1>1. PICK r, b : r = q \o b /\ b = Bytes(rec)
    OBVIOUS
  <1>2. b \in Seq(ByteSet) /\ Len(b) = rec.len /\ rec.len \in Nat \ {0} /\ \A k \in 1..Len(b) : b[k].rec = rec /\ b[k].at = k
    BY <1>1, BytesOf, StoresLen
  <1>3. /\ r \in Seq(ByteSet) /\ Len(r) = Len(q) + Len(b) /\ Len(q) \in Nat
        /\ \A i \in 1..Len(q) : r[i] = q[i]
        /\ \A i \in 1..Len(b) : r[Len(q) + i] = b[i]
    BY <1>1, <1>2, Joined
  <1>4. \A i \in Len(q)+1..Len(r) : r[i].rec = rec /\ r[i].at = i - Len(q)
    <2>1. ASSUME NEW i \in Len(q)+1..Len(r) PROVE r[i] = b[i - Len(q)] /\ i - Len(q) \in 1..Len(b)
      <3>1. i - Len(q) \in 1..Len(b) /\ Len(q) + (i - Len(q)) = i
        BY <1>2, <1>3
      <3> QED BY <1>3, <3>1
    <2> QED BY <1>2, <2>1
  <1>5. r[1].at = 1
    BY <1>2, <1>3, <1>4 DEF Chain
  <1>6. r[Len(r)].at = r[Len(r)].rec.len
    <2>1. Len(r) \in Len(q)+1..Len(r) /\ Len(r) - Len(q) = rec.len
      BY <1>2, <1>3
    <2> QED BY <1>4, <2>1
  <1>7. ASSUME NEW i \in 1..Len(r) - 1
        PROVE  IF r[i].at = r[i].rec.len THEN r[i + 1].at = 1
               ELSE r[i + 1].rec = r[i].rec /\ r[i + 1].at = r[i].at + 1
    <2>1. CASE i < Len(q)
      <3>1. i \in 1..Len(q) - 1 /\ i \in 1..Len(q) /\ i + 1 \in 1..Len(q)
        BY <1>3, <2>1
      <3>2. r[i] = q[i]
        BY <1>3, <3>1
      <3>3. r[i + 1] = q[i + 1]
        BY <1>3, <3>1
      <3> QED BY <3>1, <3>2, <3>3 DEF Chain
    <2>2. CASE i = Len(q)
      <3>1. r[i] = q[i] /\ q[i].at = q[i].rec.len
        BY <1>3, <2>2 DEF Chain
      <3>2. r[i + 1].at = 1
        <4>1. i + 1 \in Len(q)+1..Len(r) /\ (i + 1) - Len(q) = 1
          BY <1>2, <1>3, <2>2
        <4> QED BY <1>4, <4>1
      <3> QED BY <3>1, <3>2
    <2>3. CASE i > Len(q)
      <3>1. i \in Len(q)+1..Len(r) /\ i + 1 \in Len(q)+1..Len(r) /\ i - Len(q) # rec.len
        BY <1>2, <1>3, <2>3
      <3>2. r[i].rec = rec /\ r[i].at = i - Len(q) /\ r[i + 1].rec = rec /\ r[i + 1].at = (i + 1) - Len(q)
        BY <1>4, <3>1
      <3> QED BY <1>3, <3>1, <3>2
    <2> QED BY <1>2, <1>3, <2>1, <2>2, <2>3
  <1> QED BY <1>1, <1>5, <1>6, <1>7 DEF Chain

LEMMA ChainShrinks ==
  ASSUME NEW q \in Seq(ByteSet), Chain(q), NEW n \in 0..Len(q), n # 0 => q[n].at = q[n].rec.len
  PROVE  Chain(SubSeq(q, n + 1, Len(q)))
  <1>1. PICK r : r = SubSeq(q, n + 1, Len(q))
    OBVIOUS
  <1>2. r \in Seq(ByteSet) /\ Len(r) = Len(q) - n /\ Len(q) \in Nat /\ \A i \in 1..Len(q) - n : r[i] = q[n + i]
    BY <1>1, Dropped
  <1>3. ASSUME r # <<>> PROVE r[1].at = 1 /\ r[Len(r)].at = r[Len(r)].rec.len
    <2>1. Len(r) > 0
      BY <1>2, <1>3
    <2>2. r[1] = q[n + 1] /\ r[Len(r)] = q[Len(q)] /\ q # <<>>
      <3>1. n + Len(r) = Len(q) /\ 1 \in 1..Len(q) - n /\ Len(r) \in 1..Len(q) - n
        BY <1>2, <2>1
      <3> QED BY <1>2, <2>1, <3>1
    <2>3. q[n + 1].at = 1
      <3>1. CASE n = 0
        BY <2>2, <3>1 DEF Chain
      <3>2. CASE n # 0
        BY <1>2, <2>1, <3>2 DEF Chain
      <3> QED BY <3>1, <3>2
    <2> QED BY <2>2, <2>3 DEF Chain
  <1>4. ASSUME NEW i \in 1..Len(r) - 1
        PROVE  IF r[i].at = r[i].rec.len THEN r[i + 1].at = 1
               ELSE r[i + 1].rec = r[i].rec /\ r[i + 1].at = r[i].at + 1
    <2>1. n + i \in 1..Len(q) - 1 /\ r[i] = q[n + i] /\ r[i + 1] = q[(n + i) + 1]
      BY <1>2
    <2> QED BY <2>1 DEF Chain
  <1> QED BY <1>1, <1>3, <1>4 DEF Chain

LEMMA ChainGarbage == Chain(<<>>) /\ \A g \in Garbage(JunkLen) : Chain(g)
  <1>1. Chain(<<>>)
    BY DEF Chain
  <1>2. Junk(JunkLen) \in Stores
    BY JunkParts DEF Junks
  <1>3. Chain(<<>> \o Bytes(Junk(JunkLen)))
    BY <1>1, <1>2, ChainGrows, NoBytes
  <1>4. <<>> \o Bytes(Junk(JunkLen)) = Bytes(Junk(JunkLen))
    <2>1. Bytes(Junk(JunkLen)) \in Seq(ByteSet)
      BY <1>2, BytesOf
    <2> QED BY <2>1
  <1> QED BY <1>1, <1>3, <1>4 DEF Garbage

\* Multiples of the one length: between two of them there is none.
LEMMA UnitsAdd ==
  /\ 0 \in Multiples /\ CritLen \in Multiples /\ Multiples \subseteq Nat
  /\ \A x, y \in Multiples : x + y \in Multiples
  <1>1. CritLen \in Nat \ {0}
    BY Sizes
  <1>2. 0 * CritLen = 0 /\ 1 * CritLen = CritLen
    BY <1>1
  <1>3. \A m \in Nat : m * CritLen \in Nat
    BY <1>1
  <1>4. \A k, m \in Nat : k * CritLen + m * CritLen = (k + m) * CritLen /\ k + m \in Nat
    BY <1>1
  <1>5. 0 \in Multiples /\ CritLen \in Multiples
    <2>1. 0 = 0 * CritLen /\ CritLen = 1 * CritLen /\ 0 \in Nat /\ 1 \in Nat
      BY <1>2
    <2> QED BY <2>1, Zenon DEF Multiples
  <1>6. Multiples \subseteq Nat
    BY <1>3 DEF Multiples
  <1>7. ASSUME NEW x \in Multiples, NEW y \in Multiples PROVE x + y \in Multiples
    <2>1. PICK k \in Nat : x = k * CritLen
      BY DEF Multiples
    <2>2. PICK m \in Nat : y = m * CritLen
      BY DEF Multiples
    <2>3. x + y = (k + m) * CritLen /\ k + m \in Nat
      BY <1>4, <2>1, <2>2
    <2> QED BY <2>3, Zenon DEF Multiples
  <1> QED BY <1>5, <1>6, <1>7

LEMMA UnitsApart ==
  ASSUME NEW x \in Multiples, NEW y \in Multiples, x > y - CritLen
  PROVE  x >= y /\ x - y \in Multiples
  <1>1. CritLen \in Nat \ {0}
    BY Sizes
  <1>2. PICK k \in Nat : x = k * CritLen
    BY DEF Multiples
  <1>3. PICK m \in Nat : y = m * CritLen
    BY DEF Multiples
  <1>4. k >= m
    <2> SUFFICES ASSUME k < m PROVE FALSE
      BY <1>2, <1>3
    <2>1. PICK d \in Nat : m = k + (1 + d)
      <3>1. m - k - 1 \in Nat /\ m = k + (1 + (m - k - 1))
        OBVIOUS
      <3> QED BY <3>1
    <2>2. m * CritLen = k * CritLen + CritLen + d * CritLen
      BY <1>1, <2>1
    <2>3. d * CritLen \in Nat /\ k * CritLen \in Nat
      BY <1>1
    <2> QED BY <1>1, <1>2, <1>3, <2>2, <2>3
  <1>5. PICK d \in Nat : k = m + d
    <2>1. k - m \in Nat /\ k = m + (k - m)
      BY <1>4
    <2> QED BY <2>1
  <1>6. x = y + d * CritLen /\ d * CritLen \in Nat /\ y \in Nat
    BY <1>1, <1>2, <1>3, <1>5
  <1>7. d * CritLen \in Multiples
    BY DEF Multiples
  <1> QED BY <1>6, <1>7

\* A critical buffer of whole records starts with one, ends a run of them at a
\* multiple, and stays so when a record is appended or a multiple dropped.
LEMMA UnitsAtFront ==
  ASSUME NEW q \in Seq(ByteSet), WholeUnits(q)
  PROVE  /\ q # <<>> => q[1].at = 1
         /\ \A n \in 1..Len(q) : q[n].at = q[n].rec.len => n \in Multiples
  <1>1. \A b \in ByteSet : b.at \in 1..b.rec.len
    BY DEF ByteSet
  <1>2. q # <<>> => q[1].at = 1
    <2> SUFFICES ASSUME q # <<>> PROVE q[1].at = 1
      OBVIOUS
    <2>1. 1 \in 1..Len(q) /\ q[1] \in ByteSet
      OBVIOUS
    <2>2. PICK m \in Multiples : 1 = m + q[1].at
      BY <2>1 DEF WholeUnits
    <2>3. q[1].at \in Nat /\ q[1].at >= 1
      BY <1>1, <2>1, StoresLen DEF ByteSet
    <2>4. m \in Nat
      BY UnitsAdd
    <2> QED BY <2>2, <2>3, <2>4
  <1>3. ASSUME NEW n \in 1..Len(q), q[n].at = q[n].rec.len PROVE n \in Multiples
    <2>1. PICK m \in Multiples : n = m + q[n].at
      BY DEF WholeUnits
    <2>2. q[n].rec.len = CritLen
      BY DEF WholeUnits
    <2> QED BY <1>3, <2>1, <2>2, UnitsAdd
  <1> QED BY <1>2, <1>3

LEMMA UnitsGrow ==
  ASSUME NEW q \in Seq(ByteSet), WholeUnits(q), NEW rec \in Stores, rec.len = CritLen
  PROVE  WholeUnits(q \o Bytes(rec))
  <1>1. PICK t, b : t = q \o b /\ b = Bytes(rec)
    OBVIOUS
  <1>2. b \in Seq(ByteSet) /\ Len(b) = CritLen /\ \A k \in 1..Len(b) : b[k].rec = rec /\ b[k].at = k
    BY <1>1, BytesOf
  <1>3. /\ Len(t) = Len(q) + Len(b) /\ Len(q) \in Nat
        /\ \A i \in 1..Len(q) : t[i] = q[i]
        /\ \A i \in 1..Len(b) : t[Len(q) + i] = b[i]
    BY <1>1, <1>2, Joined
  <1>4. Len(t) \in Multiples
    BY <1>2, <1>3, UnitsAdd DEF WholeUnits
  <1>5. ASSUME NEW i \in 1..Len(t) PROVE t[i].rec.len = CritLen /\ \E m \in Multiples : i = m + t[i].at
    <2>1. CASE i \in 1..Len(q)
      BY <1>3, <2>1 DEF WholeUnits
    <2>2. CASE i \notin 1..Len(q)
      <3>1. PICK k \in 1..Len(b) : i = Len(q) + k
        <4>1. i - Len(q) \in 1..Len(b) /\ i = Len(q) + (i - Len(q))
          BY <1>2, <1>3, <2>2, Sizes
        <4> QED BY <4>1
      <3>2. t[i] = b[k] /\ b[k].rec = rec /\ b[k].at = k
        BY <1>2, <1>3, <3>1
      <3> QED BY <3>1, <3>2 DEF WholeUnits
    <2> QED BY <2>1, <2>2
  <1> QED BY <1>1, <1>4, <1>5 DEF WholeUnits

LEMMA UnitsShrink ==
  ASSUME NEW q \in Seq(ByteSet), WholeUnits(q), NEW n \in Multiples
  PROVE  WholeUnits(Released(q, n))
  <1>1. CASE n <= Len(q) /\ Released(q, n) = SubSeq(q, n + 1, Len(q))
    <2>1. PICK t : t = Released(q, n)
      OBVIOUS
    <2>2. n \in 0..Len(q) /\ n \in Nat
      BY <1>1, UnitsAdd
    <2>3. Len(t) = Len(q) - n /\ \A i \in 1..Len(t) : t[i] = q[n + i]
      BY <1>1, <2>1, <2>2, Dropped
    <2>4. Len(t) \in Multiples
      BY <1>1, <2>2, <2>3, UnitsApart, Sizes DEF WholeUnits
    <2>5. ASSUME NEW i \in 1..Len(t) PROVE t[i].rec.len = CritLen /\ \E m \in Multiples : i = m + t[i].at
      <3>1. n + i \in 1..Len(q) /\ t[i] = q[n + i]
        BY <2>2, <2>3
      <3>2. t[i].rec.len = CritLen
        BY <3>1 DEF WholeUnits
      <3>3. PICK m \in Multiples : n + i = m + t[i].at
        BY <3>1 DEF WholeUnits
      <3>4. t[i].at \in 1..CritLen
        <4>1. t[i] \in ByteSet
          BY <3>1
        <4> QED BY <4>1, <3>2 DEF ByteSet
      <3>5. m \in Nat /\ m > n - CritLen
        <4>1. m \in Nat
          BY UnitsAdd
        <4> QED BY <4>1, <2>2, <3>3, <3>4, Sizes
      <3>6. m - n \in Multiples /\ m >= n
        BY <3>5, UnitsApart
      <3>7. i = (m - n) + t[i].at
        <4>1. PICK a : a = t[i].at
          OBVIOUS
        <4>2. a \in Int /\ m \in Int /\ n \in Int /\ i \in Int
          BY <2>2, <3>4, <3>5, <4>1, Sizes
        <4>3. n + i = m + a
          BY <3>3, <4>1
        <4>4. i = (m - n) + a
          BY <4>2, <4>3
        <4> QED BY <4>1, <4>4
      <3> QED BY <3>2, <3>6, <3>7
    <2> QED BY <2>1, <2>4, <2>5 DEF WholeUnits
  <1>2. CASE Released(q, n) = q
    BY <1>2
  <1>3. n \in Nat
    BY UnitsAdd
  <1> QED BY <1>1, <1>2, <1>3, ReleasedBytes

LEMMA UnitsGarbage == WholeUnits(<<>>) /\ \A g \in Garbage(CritLen) : WholeUnits(g)
  <1>1. WholeUnits(<<>>)
    BY NoBytes, UnitsAdd DEF WholeUnits
  <1>2. Junk(CritLen) \in Stores /\ Junk(CritLen).len = CritLen
    BY JunkParts DEF Junks, Junk
  <1>3. WholeUnits(<<>> \o Bytes(Junk(CritLen)))
    BY <1>1, <1>2, UnitsGrow, NoBytes
  <1>4. <<>> \o Bytes(Junk(CritLen)) = Bytes(Junk(CritLen))
    <2>1. Bytes(Junk(CritLen)) \in Seq(ByteSet)
      BY <1>2, BytesOf
    <2> QED BY <2>1
  <1> QED BY <1>1, <1>3, <1>4 DEF Garbage

\* A write leaves what was read at the front.
LEMMA BeginsGrows ==
  ASSUME NEW p \in Seq(ByteSet), NEW q \in Seq(ByteSet), Begins(p, q), NEW b \in Seq(ByteSet)
  PROVE  Begins(p, q \o b)
  BY Joined DEF Begins

LEMMA BeginsNothing == ASSUME NEW q \in Seq(ByteSet) PROVE Begins(<<>>, q)
  BY DEF Begins

\* The critical buffer, whatever the option for the other one.
LEMMA CritNext == IInv /\ CritInv /\ [Next]_vars => CritInv'
  <1> SUFFICES ASSUME IInv, CritInv, [Next]_vars PROVE CritInv'
    OBVIOUS
  <1> USE UnitsAdd DEF CritInv, ram, round, Forget
  <1>a. Types /\ StepInv /\ crit \in Seq(ByteSet)
    BY DEF IInv, Types
  <1>1. CASE WriteCritical(CritLen)
    <2>1. NewRecord(CritLen) \in Stores /\ NewRecord(CritLen).len = CritLen
      BY <1>1, <1>a, NewTyped, RecordParts DEF WriteCritical
    <2>2. WholeUnits(crit')
      BY <1>1, <1>a, <2>1, UnitsGrow DEF WriteCritical
    <2> QED BY <1>1, <2>2 DEF WriteCritical
  <1>2. CASE ReadCritical
    <2>1. encoded' \in Multiples
      BY <1>2, <1>a, UnitsAtFront DEF ReadCritical, Consumable, WholeRecords
    <2> QED BY <1>2, <2>1 DEF ReadCritical
  <1>3. CASE SendData \/ AckCritical
    <2>1. WholeUnits(crit')
      <3>1. crit' = crit \/ crit' = Released(crit, encoded) \/ crit' = Released(crit, data_msg_len)
        BY <1>3 DEF SendData, AckCritical
      <3> QED BY <1>a, <3>1, UnitsShrink
    <2>2. encoded' \in {0, encoded} /\ data_msg_len' \in {encoded, data_msg_len}
      BY <1>3 DEF SendData, AckCritical
    <2> QED BY <2>1, <2>2
  <1>4. CASE DiscardCritical \/ InitCritical
    <2>1. WholeUnits(crit') /\ UNCHANGED <<encoded, data_msg_len>>
      BY <1>4, UnitsGarbage DEF DiscardCritical, InitCritical
    <2> QED BY <2>1
  <1>5. CASE SoftReset \/ PowerLoss
    <2>1. WholeUnits(crit') /\ encoded' = 0 /\ data_msg_len' = 0
      BY <1>5, UnitsGarbage DEF SoftReset, PowerLoss
    <2> QED BY <2>1
  <1>6. CASE \/ \E len \in NoncLens : WriteNonCritical(len)
             \/ ReadNonCritical \/ ReleaseNonCritical \/ DiscardNonCritical \/ InitNonCritical
             \/ ReadNvs \/ NextSlot \/ WriteHeader \/ Deinit \/ UNCHANGED vars
    <2>1. UNCHANGED <<crit, encoded, data_msg_len>>
      BY <1>6 DEF WriteNonCritical, ReadNonCritical, ReleaseNonCritical, DiscardNonCritical, InitNonCritical,
         ReadNvs, NextSlot, WriteHeader, Deinit, vars
    <2> QED BY <2>1
  <1> QED BY <1>1, <1>2, <1>3, <1>4, <1>5, <1>6 DEF Next

LEMMA FrontStart == Init => FrontInv
  BY ChainGarbage, UnitsGarbage, UnitsAdd DEF Init, FrontInv, CritInv

LEMMA FrontNext == ~Overwrite /\ IInv /\ FrontInv /\ [Next]_vars => FrontInv'
  <1> SUFFICES ASSUME ~Overwrite, IInv, FrontInv, [Next]_vars PROVE FrontInv'
    OBVIOUS
  <1> USE DEF ram, round, Forget
  <1>a. Types /\ StepInv /\ nonc \in Seq(ByteSet) /\ consumed \in Seq(ByteSet)
    BY DEF IInv, Types
  <1>b. CritInv'
    BY CritNext DEF FrontInv
  <1>t. nonc' \in Seq(ByteSet)
    BY <1>a, TypesNext DEF Types
  \* A step that leaves the reader alone, the reader not having read.
  <1>c. ASSUME consumed = <<>>, consumed' = <<>>, Chain(nonc')
        PROVE  FrontInv'
    BY <1>b, <1>t, <1>c, BeginsNothing DEF FrontInv
  <1>2. ASSUME NEW len \in NoncLens, WriteNonCritical(len) PROVE FrontInv'
    <2>1. PICK b : b = Bytes(NewRecord(len))
      OBVIOUS
    <2>2. NewRecord(len) \in Stores /\ b \in Seq(ByteSet)
      BY <1>2, <1>a, <2>1, NewTyped, RecordParts, BytesOf DEF WriteNonCritical
    <2>3. PICK n \in Freed(len) : nonc' = SubSeq(nonc, n + 1, Len(nonc)) \o b
      BY <1>2, <2>1 DEF WriteNonCritical
    <2>4. n = 0
      BY <1>a, FreedFits
    <2>5. nonc' = nonc \o b
      <3>1. SubSeq(nonc, 1, Len(nonc)) = nonc
        BY <1>a
      <3>2. n + 1 = 1
        BY <2>4
      <3> QED BY <2>3, <3>1, <3>2, Zenon
    <2>6. Chain(nonc')
      BY <1>a, <2>1, <2>2, <2>5, ChainGrows DEF FrontInv
    <2>7. Begins(consumed, nonc) => Begins(consumed, nonc')
      BY <1>a, <2>2, <2>5, BeginsGrows
    <2> QED BY <1>b, <1>2, <2>6, <2>7 DEF WriteNonCritical, FrontInv
  <1>3. CASE ReadNonCritical
    <2>1. PICK n \in Consumable(nonc) : consumed' = SubSeq(nonc, 1, n)
      BY <1>3 DEF ReadNonCritical
    <2>2. CASE n = 0
      <3>1. consumed' = <<>>
        BY <1>a, <2>1, <2>2
      <3>2. Chain(nonc')
        BY <1>3 DEF ReadNonCritical, FrontInv
      <3> QED BY <1>b, <1>t, <3>1, <3>2, BeginsNothing DEF FrontInv
    <2>3. CASE n # 0
      <3>1. n \in 1..Len(nonc) /\ nonc[n].at = nonc[n].rec.len
        BY <2>1, <2>3 DEF Consumable, WholeRecords
      <3>2. Len(consumed') = n /\ \A i \in 1..n : consumed'[i] = nonc[i]
        BY <1>a, <2>1, <3>1, Dropped
      <3>3. consumed'[Len(consumed')].at = consumed'[Len(consumed')].rec.len
        BY <3>1, <3>2
      <3>4. Begins(consumed', nonc)
        BY <3>1, <3>2 DEF Begins
      <3> QED BY <1>b, <1>3, <3>3, <3>4 DEF ReadNonCritical, FrontInv
    <2> QED BY <2>2, <2>3
  <1>4. CASE ReleaseNonCritical
    <2>1. Chain(nonc')
      <3>1. CASE pc = "up" /\ Len(consumed) <= Len(nonc) /\ consumed # <<>>
        <4>1. PICK n \in 0..Len(nonc) : n = Len(consumed)
          BY <1>a, <3>1
        <4>2. n # 0 /\ nonc[n] = consumed[n]
          BY <1>4, <1>a, <3>1, <4>1 DEF FrontInv, Begins
        <4>3. nonc[n].at = nonc[n].rec.len
          BY <3>1, <4>1, <4>2 DEF FrontInv
        <4>4. nonc' = SubSeq(nonc, n + 1, Len(nonc))
          BY <1>4, <3>1, <4>1 DEF ReleaseNonCritical, Released
        <4> QED BY <1>a, <4>3, <4>4, ChainShrinks DEF FrontInv
      <3>2. CASE ~(pc = "up" /\ Len(consumed) <= Len(nonc))
        BY <1>4, <3>2 DEF ReleaseNonCritical, Released, FrontInv
      <3>3. CASE consumed = <<>>
        <4>1. SubSeq(nonc, 1, Len(nonc)) = nonc
          BY <1>a
        <4>2. Len(consumed) + 1 = 1
          BY <3>3
        <4>3. nonc' = nonc
          BY <1>4, <4>1, <4>2 DEF ReleaseNonCritical, Released
        <4> QED BY <4>3 DEF FrontInv
      <3> QED BY <3>1, <3>2, <3>3
    <2> QED BY <1>b, <1>4, <1>t, <2>1, BeginsNothing DEF ReleaseNonCritical, FrontInv
  <1>5. CASE WriteCritical(CritLen) \/ ReadCritical \/ SendData \/ AckCritical
    <2>1. UNCHANGED <<nonc, consumed, pc>>
      BY <1>5 DEF WriteCritical, ReadCritical, SendData, AckCritical
    <2> QED BY <1>b, <2>1 DEF FrontInv
  <1>6. CASE DiscardCritical \/ DiscardNonCritical
    <2>1. Chain(nonc') /\ consumed = <<>> /\ consumed' = <<>>
      BY <1>6, <1>a, ChainGarbage DEF DiscardCritical, DiscardNonCritical, FrontInv, StepInv
    <2> QED BY <2>1, <1>c
  <1>7. CASE InitCritical \/ InitNonCritical \/ ReadNvs \/ NextSlot \/ WriteHeader
    <2>1. Chain(nonc')
      BY <1>7, ChainGarbage DEF InitCritical, InitNonCritical, ReadNvs, NextSlot, WriteHeader, FrontInv
    <2>2. consumed = <<>> /\ consumed' = <<>>
      BY <1>7, <1>a DEF InitCritical, InitNonCritical, ReadNvs, NextSlot, WriteHeader, StepInv
    <2> QED BY <2>1, <2>2, <1>c
  <1>8. CASE Deinit
    <2>1. UNCHANGED <<nonc, consumed>> /\ pc' = "off"
      BY <1>8 DEF Deinit
    <2> QED BY <1>b, <2>1 DEF FrontInv
  <1>9. CASE SoftReset \/ PowerLoss
    <2>1. Chain(nonc') /\ pc' = "off" /\ consumed' = <<>>
      BY <1>9, ChainGarbage DEF SoftReset, PowerLoss, FrontInv
    <2> QED BY <1>b, <2>1 DEF FrontInv
  <1>10. CASE UNCHANGED vars
    BY <1>b, <1>10 DEF vars, FrontInv
  <1> QED BY <1>2, <1>3, <1>4, <1>5, <1>6, <1>7, <1>8, <1>9, <1>10 DEF Next

LEMMA FrontAlways == ASSUME ~Overwrite PROVE Spec => [](IInv /\ FrontInv)
  <1>1. Init => IInv /\ FrontInv
    BY IInvStart, FrontStart
  <1>2. (IInv /\ FrontInv) /\ [Next]_vars => (IInv /\ FrontInv)'
    BY IInvNext, FrontNext
  <1> QED BY <1>1, <1>2, PTL DEF Spec

\* Without the overwriting of non-critical data, which no Kconfig offers, both
\* buffers always start with the first byte of a record, whenever the answers
\* come that release critical data and whatever was remembered for them.
THEOREM FrontIsAligned == ASSUME ~Overwrite PROVE Spec => []AlignedFront
  <1>1. ASSUME IInv, FrontInv PROVE AlignedFront
    <2>1. crit \in Seq(ByteSet) /\ WholeUnits(crit)
      BY <1>1 DEF IInv, Types, FrontInv, CritInv
    <2> QED BY <1>1, <2>1, UnitsAtFront DEF FrontInv, Chain, AlignedFront
  <1> QED BY <1>1, FrontAlways, PTL

\* Under the same condition the release drops just what was read, whatever was
\* written, discarded, initialised or reset in between.
THEOREM TheOldestIsConsumed == ASSUME ~Overwrite PROVE Spec => []ConsumedIsOldest
  <1>1. ASSUME IInv, FrontInv PROVE ConsumedIsOldest
    <2> SUFFICES ASSUME pc = "up" PROVE IsPrefix(consumed, nonc)
      BY DEF ConsumedIsOldest
    <2>1. Begins(consumed, nonc) /\ consumed \in Seq(ByteSet) /\ nonc \in Seq(ByteSet)
      BY <1>1 DEF IInv, Types, FrontInv
    <2>2. Len(consumed) \in 0..Len(consumed) /\ Len(consumed) \in 0..Len(nonc)
      BY <2>1 DEF Begins
    <2>3. PICK p, q \in Seq(ByteSet) : p = SubSeq(consumed, 1, Len(consumed)) /\ q = SubSeq(nonc, 1, Len(consumed))
      BY <2>1, <2>2, Dropped
    <2>4. Len(p) = Len(consumed) /\ Len(q) = Len(consumed) /\ \A i \in 1..Len(consumed) : p[i] = consumed[i] /\ q[i] = nonc[i]
      BY <2>1, <2>2, <2>3, Dropped
    <2>5. p = q
      BY <2>1, <2>3, <2>4 DEF Begins
    <2> QED BY <2>1, <2>3, <2>5 DEF Begins, IsPrefix
  <1> QED BY <1>1, FrontAlways, PTL

=============================================================================
