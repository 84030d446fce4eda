----------------------------- MODULE RingBuffer -----------------------------
(***************************************************************************)
(* One ring buffer (rbuf_data_t) of rtc_store.c, byte by byte.  The       *)
(* critical and the non-critical buffer run the same code and differ only *)
(* in the pieces a record is written in: {meta index, data} or            *)
(* {meta index, header, data}.                                             *)
(*                                                                         *)
(* The buffer's lock is held exactly while a write is in progress, so a    *)
(* write is a sequence of steps (one per call of                           *)
(* rtc_store_write_at_offset, then rtc_store_write_complete) that only a   *)
(* reset can cut short, and every other locked section is a single step.   *)
(* The write's steps matter because the memory is RTC_NOINIT: it survives  *)
(* a soft reset, half-written records included.                            *)
(***************************************************************************)
EXTENDS Integers, Sequences

CONSTANTS Size,       \* data_store_t.size
          OffsetMod,  \* 2^16 in the code: the range of the uint16_t fields
          Byte,       \* values of a byte
          Records,    \* whole records (meta index byte included) writers store
          PieceEnds,  \* offsets in a record at which a piece of it ends
          Garbage     \* what the RTC memory may hold after power-on

Offset == 0..OffsetMod-1

ASSUME RingAssumption ==
  /\ Size \in Nat \ {0}
  /\ OffsetMod \in Nat
  /\ Size < OffsetMod          \* rtc_store.c: "memory size will never exceed UINT16_MAX"
  /\ Records \subseteq Seq(Byte) \ {<<>>}
  /\ PieceEnds \subseteq Nat
  /\ Garbage \subseteq
       [buf : [0..Size-1 -> Byte], read_offset : Offset, filled : Offset]

VARIABLES buf,          \* data_store_t.buf
          read_offset,  \* data_store_info_t.read_offset
          filled,       \* data_store_info_t.filled
          job,          \* the record being written and how much of it is copied
          up,           \* s_priv_data.init
          cold          \* esp_reset_reason() is UNKNOWN, POWERON or BROWNOUT

vars == <<buf, read_offset, filled, job, up, cold>>

NoJob == [bytes |-> <<>>, at |-> 0]
Writing == job.bytes # <<>>

\* The fields keep their types, and a write in progress is of a record.
TypeOK ==
  /\ buf \in [0..Size-1 -> Byte]
  /\ read_offset \in Offset
  /\ filled \in Offset
  /\ job \in [bytes : Records \cup {<<>>}, at : Nat]
  /\ up \in BOOLEAN
  /\ cold \in BOOLEAN

-----------------------------------------------------------------------------
(* Index arithmetic.  uint16_t expressions that are assigned are cut to    *)
(* the type's width, the ones that are only compared are ints.             *)

DataFree == Size - filled

FreeAtEnd == IF read_offset + filled < Size
             THEN Size - (filled + read_offset)
             ELSE 0

WriteOffset == LET w == (filled + read_offset) % OffsetMod
               IN  IF w >= Size THEN w - Size ELSE w

\* Faulty variants: a piece that follows the wrap is not moved to the start
\* of the buffer, a piece that straddles it is not split.
UnmovedCopyStart(offset) == WriteOffset + offset
UnsplitCopyLen(offset, len) == len

\* rtc_store_write_at_offset makes at most two copies of a piece of length
\* len: the first goes to CopyStart and takes CopyLen bytes, what is left
\* goes to the start of the buffer.
CopyStart(offset) == IF FreeAtEnd > 0 /\ FreeAtEnd < offset
                     THEN offset - FreeAtEnd
                     ELSE WriteOffset + offset

CopyLen(offset, len) ==
  IF FreeAtEnd > 0 /\ FreeAtEnd >= offset /\ FreeAtEnd < offset + len
  THEN FreeAtEnd - offset
  ELSE len

WriteAtOffset(piece, offset) ==
  LET start == CopyStart(offset)
      n     == CopyLen(offset, Len(piece))
  IN  [a \in 0..Size-1 |->
         IF a < Len(piece) - n THEN piece[n + a + 1]
         ELSE IF start <= a /\ a < start + n THEN piece[a - start + 1]
         ELSE buf[a]]

\* Faulty variant: wrapped data is read from the start of the buffer only.
UnsplitRead(size) ==
  LET n == IF filled < size THEN filled ELSE size
  IN  [k \in 1..n |-> IF Size - read_offset < n THEN buf[k - 1]
                                                ELSE buf[read_offset + k - 1]]

\* rtc_store_data_read_unsafe: the bytes copied out, in one or two copies.
ReadUnsafe(size) ==
  LET n         == IF filled < size THEN filled ELSE size
      dataAtEnd == Size - read_offset
  IN  [k \in 1..n |-> IF dataAtEnd < n /\ k > dataAtEnd
                      THEN buf[k - dataAtEnd - 1]
                      ELSE buf[read_offset + k - 1]]

-----------------------------------------------------------------------------
Init == /\ \E g \in Garbage : /\ buf = g.buf
                              /\ read_offset = g.read_offset
                              /\ filled = g.filled
        /\ job = NoJob
        /\ up = FALSE
        /\ cold = TRUE

\* The caller has taken the lock and there is room: the writer starts.  A
\* write that does not fit returns ESP_ERR_NO_MEM and leaves the ring alone.
WriteBegin(rec) ==
  /\ up
  /\ ~Writing
  /\ DataFree >= Len(rec)
  /\ job' = [bytes |-> rec, at |-> 0]
  /\ UNCHANGED <<buf, read_offset, filled, up, cold>>

\* One call of rtc_store_write_at_offset: the next piece of the record.
WritePiece ==
  /\ job.at < Len(job.bytes)
  /\ \E end \in (PieceEnds \cap 0..Len(job.bytes)) \cup {Len(job.bytes)} :
       /\ job.at < end
       /\ \A e \in PieceEnds : job.at < e => end <= e
       /\ buf' = WriteAtOffset(SubSeq(job.bytes, job.at + 1, end), job.at)
       /\ job' = [job EXCEPT !.at = end]
  /\ UNCHANGED <<read_offset, filled, up, cold>>

\* rtc_store_write_complete: the record becomes visible.
WriteComplete ==
  /\ Writing
  /\ job.at = Len(job.bytes)
  /\ filled' = (filled + Len(job.bytes)) % OffsetMod
  /\ job' = NoJob
  /\ UNCHANGED <<buf, read_offset, up, cold>>

\* Faulty variants: the read position is never wrapped, in 16 bits or in more.
UnwrappedRead(n) ==
  /\ filled' = (filled - n) % OffsetMod
  /\ read_offset' = (read_offset + n) % OffsetMod

UnboundedRead(n) == filled' = filled - n /\ read_offset' = read_offset + n

\* rtc_store_read_complete: drop the n oldest bytes; both fields are
\* committed in one 32-bit store.
ReadComplete(n) ==
  /\ filled' = (filled - n) % OffsetMod
  /\ LET r == (read_offset + n) % OffsetMod
     IN  read_offset' = IF r > Size THEN r - Size ELSE r

Release(n) ==
  /\ up
  /\ ~Writing
  /\ filled >= n
  /\ ReadComplete(n)
  /\ UNCHANGED <<buf, job, up, cold>>

Discard ==
  /\ up
  /\ ~Writing
  /\ read_offset' = 0
  /\ filled' = 0
  /\ UNCHANGED <<buf, job, up, cold>>

IntegrityCheck == filled <= Size /\ read_offset <= Size

\* Faulty variant: the reset reason is not looked at.
InitKeepingAll ==
  /\ ~up
  /\ up' = TRUE
  /\ IF ~IntegrityCheck
     THEN read_offset' = 0 /\ filled' = 0
     ELSE UNCHANGED <<read_offset, filled>>
  /\ UNCHANGED <<buf, job, cold>>

RbufInit ==
  /\ ~up
  /\ up' = TRUE
  /\ IF cold \/ ~IntegrityCheck
     THEN read_offset' = 0 /\ filled' = 0
     ELSE UNCHANGED <<read_offset, filled>>
  /\ UNCHANGED <<buf, job, cold>>

\* The caller sees to it that no writer is inside (the code takes no lock).
Deinit ==
  /\ up
  /\ ~Writing
  /\ up' = FALSE
  /\ UNCHANGED <<buf, read_offset, filled, job, cold>>

\* A panic, watchdog or software reset: RTC_NOINIT memory keeps its contents.
SoftReset ==
  /\ job' = NoJob
  /\ up' = FALSE
  /\ cold' = FALSE
  /\ UNCHANGED <<buf, read_offset, filled>>

\* Power-on or brownout: RTC memory holds anything.
PowerLoss ==
  /\ \E g \in Garbage : /\ buf' = g.buf
                        /\ read_offset' = g.read_offset
                        /\ filled' = g.filled
  /\ job' = NoJob
  /\ up' = FALSE
  /\ cold' = TRUE

Next == \/ \E rec \in Records : WriteBegin(rec)
        \/ WritePiece
        \/ WriteComplete
        \/ \E n \in 1..filled : Release(n)
        \/ Discard
        \/ RbufInit
        \/ Deinit
        \/ SoftReset
        \/ PowerLoss

Spec == Init /\ [][Next]_vars

-----------------------------------------------------------------------------
\* Address of the i-th unread byte, counted from 0.
Pos(i) == IF read_offset + i >= Size THEN read_offset + i - Size
                                     ELSE read_offset + i

Contents == [k \in 1..filled |-> buf[Pos(k - 1)]]

\* While the store is up both fields stay within the buffer, and a write in
\* progress fits in the free space (rtc_store_critical_data_write's check).
InBounds ==
  up => /\ read_offset <= Size
        /\ filled + Len(job.bytes) <= Size
        /\ job.at <= Len(job.bytes)

\* What a write in progress has copied lies where a reader will look for it
\* once rtc_store_write_complete has run, across the wrap of the buffer.
CopiedInPlace ==
  Writing => \A k \in 1..job.at : buf[Pos(filled + k - 1)] = job.bytes[k]

\* No memcpy of the piece written next runs over the end of the buffer.
CopyInBounds ==
  Writing => \A end \in job.at+1..Len(job.bytes) :
               LET n == CopyLen(job.at, end - job.at)
               IN  /\ CopyStart(job.at) + n <= Size
                   /\ end - job.at - n \in 0..Size

\* A read returns the oldest bytes in order, whatever its size and wherever
\* the data wraps.
ReadsOldest ==
  up => \A size \in 1..Size+1 :
          LET n == IF filled < size THEN filled ELSE size
          IN  ReadUnsafe(size) = [k \in 1..n |-> Contents[k]]

\* The buffer read as a queue: memory that fails the integrity check counts
\* as empty, which is what rtc_store_rbuf_init makes of it.
Stored == IF IntegrityCheck THEN Contents ELSE <<>>

Fifo == INSTANCE ByteFifo WITH Capacity <- Size, fifo <- Stored

\* Whatever is written, released, discarded or cut short by a reset, users of
\* the buffer see a FIFO: records appear whole and in order or not at all,
\* a release drops exactly the oldest bytes, a soft reset loses nothing that
\* was complete and a cold start finds nothing.
ImplementsFifo == Fifo!Spec
=============================================================================
