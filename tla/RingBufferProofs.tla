-------------------------- MODULE RingBufferProofs --------------------------
(***************************************************************************)
(* Proofs about RingBuffer for every buffer size, record set and content. *)
(*                                                                         *)
(* NoOverflow is the assumption the code really needs.  The one its        *)
(* comment states (Size < OffsetMod, in RingAssumption) is not enough: TLC *)
(* finds CopiedInPlace violated with a Size of 7 and an OffsetMod of 8.    *)
(***************************************************************************)
EXTENDS RingBuffer, TLAPS, SequenceTheorems

\* read_offset + filled, at most twice the size, fits in a uint16_t.
NoOverflow == 2 * Size < OffsetMod

-----------------------------------------------------------------------------
(* Arithmetic and sequences.                                               *)

\* The remainder of a number below the modulus is the number.
LEMMA ModSmall ==
  ASSUME NEW m \in Nat \ {0}, NEW x \in 0..m-1
  PROVE  x % m = x
  OBVIOUS

\* A remainder lies below the modulus.
LEMMA ModRange ==
  ASSUME NEW m \in Nat \ {0}, NEW x \in Int
  PROVE  x % m \in 0..m-1
  OBVIOUS

\* Whatever is cut to 16 bits is a value of a uint16_t.
LEMMA ModOffset ==
  ASSUME NEW x \in Int
  PROVE  x % OffsetMod \in Offset
  <1>1. OffsetMod \in Nat \ {0}
    BY RingAssumption
  <1>2. QED
    BY <1>1, ModRange DEF Offset

\* A piece of a record is the bytes from i + 1 to j of it.
LEMMA PieceProperties ==
  ASSUME NEW S, NEW s \in Seq(S), NEW i \in Nat, NEW j \in 1..Len(s), i < j
  PROVE  /\ SubSeq(s, i + 1, j) \in Seq(S)
         /\ Len(SubSeq(s, i + 1, j)) = j - i
         /\ \A k \in 1..j-i : SubSeq(s, i + 1, j)[k] = s[i + k]
  BY SubSeqProperties

\* Where WriteAtOffset puts the two copies of a piece: with room for the
\* whole record, CopyLen is part of the piece, the first copy ends within
\* the buffer and the second is not longer than the buffer.
LEMMA CopyBounds ==
  ASSUME NoOverflow,
         read_offset \in 0..Size, filled \in 0..Size,
         NEW offset \in Nat, NEW len \in Nat \ {0},
         filled + offset + len <= Size
  PROVE  /\ CopyLen(offset, len) \in 0..len
         /\ CopyStart(offset) \in Nat
         /\ CopyStart(offset) + CopyLen(offset, len) <= Size
         /\ WriteOffset = Pos(filled)
  <1>1. Size \in Nat \ {0} /\ OffsetMod \in Nat \ {0} /\ 2 * Size < OffsetMod
    BY RingAssumption DEF NoOverflow
  <1>2. (filled + read_offset) % OffsetMod = filled + read_offset
    BY <1>1, ModSmall
  <1>3. QED
    BY <1>1, <1>2 DEF CopyLen, CopyStart, WriteOffset, FreeAtEnd, Pos

\* WriteAtOffset(piece, offset) writes byte k of the piece where the reader
\* expects byte filled + offset + k of the queue and touches nothing else.
LEMMA WriteAtOffsetEffect ==
  ASSUME NoOverflow, buf \in [0..Size-1 -> Byte],
         read_offset \in 0..Size, filled \in 0..Size,
         NEW offset \in Nat, NEW piece \in Seq(Byte), Len(piece) > 0,
         filled + offset + Len(piece) <= Size
  PROVE  /\ WriteAtOffset(piece, offset) \in [0..Size-1 -> Byte]
         /\ \A k \in 1..Len(piece) :
              WriteAtOffset(piece, offset)[Pos(filled + offset + k - 1)] = piece[k]
         /\ \A i \in 0..filled+offset-1 :
              WriteAtOffset(piece, offset)[Pos(i)] = buf[Pos(i)]
  <1> DEFINE len == Len(piece)
             n == CopyLen(offset, len)
             start == CopyStart(offset)
             new == WriteAtOffset(piece, offset)
  <1>1. Size \in Nat \ {0} /\ len \in Nat \ {0}
    BY RingAssumption
  <1>2. /\ n \in 0..len
        /\ start \in Nat
        /\ start + n <= Size
        /\ WriteOffset = Pos(filled)
    BY <1>1, CopyBounds
  <1>3. new = [a \in 0..Size-1 |->
                 IF a < len - n THEN piece[n + a + 1]
                 ELSE IF start <= a /\ a < start + n THEN piece[a - start + 1]
                 ELSE buf[a]]
    BY DEF WriteAtOffset
  <1>4. \A k \in 1..len : piece[k] \in Byte
    BY <1>1
  <1>5. new \in [0..Size-1 -> Byte]
    BY <1>1, <1>2, <1>3, <1>4
  <1>6. ASSUME NEW k \in 1..len
        PROVE  new[Pos(filled + offset + k - 1)] = piece[k]
    <2> DEFINE a == Pos(filled + offset + k - 1)
    <2>1. a \in 0..Size-1
      BY <1>1 DEF Pos
    <2>2. CASE k <= n
      <3>1. a = start + k - 1 /\ ~(a < len - n)
        BY <1>1, <1>2, <2>2 DEF Pos, CopyLen, CopyStart, FreeAtEnd
      <3>2. QED
        BY <1>1, <1>2, <1>3, <2>1, <2>2, <3>1
    <2>3. CASE k > n
      <3>1. FreeAtEnd > 0 /\ n = FreeAtEnd - offset
        BY <1>1, <1>2, <2>3 DEF CopyLen
      <3>2. read_offset + filled + FreeAtEnd = Size
        BY <1>1, <3>1 DEF FreeAtEnd
      <3>3. filled + read_offset + offset + k - 1 >= Size
        BY <1>1, <1>2, <2>3, <3>1, <3>2
      <3>4. a = k - n - 1
        BY <1>1, <1>2, <3>1, <3>2, <3>3 DEF Pos
      <3>5. a < len - n /\ piece[n + a + 1] = piece[k]
        BY <1>1, <1>2, <3>4
      <3>6. QED
        BY <1>3, <2>1, <3>5
    <2>4. QED
      BY <1>1, <1>2, <2>2, <2>3
  <1>7. ASSUME NEW i \in 0..filled+offset-1
        PROVE  new[Pos(i)] = buf[Pos(i)]
    <2>1. Pos(i) \in 0..Size-1
      BY <1>1 DEF Pos
    <2>2. /\ ~(Pos(i) < len - n)
          /\ ~(start <= Pos(i) /\ Pos(i) < start + n)
      BY <1>1, <1>2 DEF Pos, CopyLen, CopyStart, FreeAtEnd
    <2>3. QED
      BY <1>1, <1>3, <2>1, <2>2
  <1>8. QED
    BY <1>5, <1>6, <1>7

-----------------------------------------------------------------------------
(* Type correctness.                                                       *)

\* The write's piece is a non-empty segment of the record.
LEMMA NextPiece ==
  ASSUME TypeOK, job.at < Len(job.bytes),
         NEW end \in (PieceEnds \cap 0..Len(job.bytes)) \cup {Len(job.bytes)},
         job.at < end
  PROVE  /\ job.bytes \in Seq(Byte)
         /\ job.at \in Nat
         /\ end \in 1..Len(job.bytes)
         /\ SubSeq(job.bytes, job.at + 1, end) \in Seq(Byte)
         /\ Len(SubSeq(job.bytes, job.at + 1, end)) = end - job.at
         /\ \A k \in 1..end-job.at :
              SubSeq(job.bytes, job.at + 1, end)[k] = job.bytes[job.at + k]
  <1>1. job.bytes \in Seq(Byte) /\ job.at \in Nat
    BY RingAssumption DEF TypeOK
  <1>2. end \in 1..Len(job.bytes)
    BY <1>1
  <1>3. QED
    BY <1>1, <1>2, PieceProperties

\* Every variable keeps its type: in particular both offsets stay within the
\* width of a uint16_t, and a piece never reads past the record it is cut
\* from, whatever the size of the buffer.
THEOREM TypeCorrect == Spec => []TypeOK
  <1>1. Init => TypeOK
    <2> SUFFICES ASSUME Init PROVE TypeOK
      OBVIOUS
    <2>1. PICK g \in Garbage : /\ buf = g.buf
                               /\ read_offset = g.read_offset
                               /\ filled = g.filled
      BY DEF Init
    <2>2. g \in [buf : [0..Size-1 -> Byte], read_offset : Offset, filled : Offset]
      BY RingAssumption
    <2>3. job \in [bytes : Records \cup {<<>>}, at : Nat]
      BY DEF Init, NoJob
    <2>4. QED
      BY <2>1, <2>2, <2>3 DEF Init, TypeOK
  <1>2. TypeOK /\ [Next]_vars => TypeOK'
    <2> SUFFICES ASSUME TypeOK, [Next]_vars PROVE TypeOK'
      OBVIOUS
    <2> USE RingAssumption DEF TypeOK
    <2>1. ASSUME NEW rec \in Records, WriteBegin(rec) PROVE TypeOK'
      BY <2>1 DEF WriteBegin
    <2>2. CASE WritePiece
      <3>1. PICK end \in (PieceEnds \cap 0..Len(job.bytes)) \cup {Len(job.bytes)} :
              /\ job.at < end
              /\ buf' = WriteAtOffset(SubSeq(job.bytes, job.at + 1, end), job.at)
              /\ job' = [job EXCEPT !.at = end]
        BY <2>2 DEF WritePiece
      <3> DEFINE piece == SubSeq(job.bytes, job.at + 1, end)
                 n == CopyLen(job.at, Len(piece))
                 start == CopyStart(job.at)
      <3>2. end \in 1..Len(job.bytes) /\ piece \in Seq(Byte) /\ job.at \in Nat
        BY <2>2, <3>1, NextPiece DEF WritePiece
      <3>3. n \in 0..Len(piece) /\ start \in Int
        <4>1. FreeAtEnd \in Int /\ WriteOffset \in Int
          BY ModRange DEF FreeAtEnd, WriteOffset, Offset
        <4>2. QED
          BY <3>2, <4>1 DEF CopyLen, CopyStart
      <3>4. buf' \in [0..Size-1 -> Byte]
        <4> HIDE DEF piece, n, start
        <4>1. buf' = [a \in 0..Size-1 |->
                        IF a < Len(piece) - n THEN piece[n + a + 1]
                        ELSE IF start <= a /\ a < start + n THEN piece[a - start + 1]
                        ELSE buf[a]]
          BY <3>1 DEF WriteAtOffset, piece, n, start
        <4>2. \A k \in 1..Len(piece) : piece[k] \in Byte
          BY <3>2
        <4>3. Len(piece) \in Nat
          BY <3>2
        <4>4. QED
          BY <3>3, <4>1, <4>2, <4>3
      <3>5. job' \in [bytes : Records \cup {<<>>}, at : Nat]
        BY <3>1, <3>2
      <3>6. UNCHANGED <<read_offset, filled, up, cold>>
        BY <2>2 DEF WritePiece
      <3>7. QED
        BY <3>4, <3>5, <3>6
    <2>3. CASE WriteComplete
      <3>1. job.bytes \in Seq(Byte)
        OBVIOUS
      <3>2. filled' \in Offset
        <4>1. filled + Len(job.bytes) \in Int
          BY <3>1 DEF Offset
        <4>2. QED
          BY <2>3, <4>1, ModOffset DEF WriteComplete
      <3>3. UNCHANGED <<buf, read_offset, up, cold>> /\ job' = NoJob
        BY <2>3 DEF WriteComplete
      <3>4. job' \in [bytes : Records \cup {<<>>}, at : Nat]
        BY <3>3 DEF NoJob
      <3>5. QED
        BY <3>2, <3>3, <3>4
    <2>4. ASSUME NEW n \in 1..filled, Release(n) PROVE TypeOK'
      <3>1. n \in Int /\ filled \in Int /\ read_offset \in Int
        BY DEF Offset
      <3>2. /\ (filled - n) % OffsetMod \in Offset
            /\ (read_offset + n) % OffsetMod \in Offset
        <4>1. filled - n \in Int /\ read_offset + n \in Int
          BY <3>1
        <4>2. QED
          BY <4>1, ModOffset, Zenon
      <3>3. filled' \in Offset /\ read_offset' \in Offset
        BY <2>4, <3>2 DEF Release, ReadComplete, Offset
      <3>4. QED
        BY <2>4, <3>3 DEF Release
    <2>5. CASE Discard
      BY <2>5 DEF Discard, Offset
    <2>6. CASE RbufInit
      BY <2>6 DEF RbufInit, Offset
    <2>7. CASE Deinit
      BY <2>7 DEF Deinit
    <2>8. CASE SoftReset
      BY <2>8 DEF SoftReset, NoJob
    <2>9. CASE PowerLoss
      <3>1. PICK g \in Garbage : /\ buf' = g.buf
                                 /\ read_offset' = g.read_offset
                                 /\ filled' = g.filled
        BY <2>9 DEF PowerLoss
      <3>2. g \in [buf : [0..Size-1 -> Byte], read_offset : Offset, filled : Offset]
        OBVIOUS
      <3>3. QED
        BY <2>9, <3>1, <3>2 DEF PowerLoss, NoJob
    <2>10. CASE UNCHANGED vars
      BY <2>10 DEF vars
    <2>11. QED
      BY <2>1, <2>2, <2>3, <2>4, <2>5, <2>6, <2>7, <2>8, <2>9, <2>10 DEF Next
  <1>3. QED
    BY <1>1, <1>2, PTL DEF Spec

-----------------------------------------------------------------------------
(* The ring's invariant.                                                   *)

\* A write in progress implies that the store is up (its lock exists), and
\* a store without one remembers nothing of the last write.
WriterUp == IF Writing THEN up ELSE job.at = 0

RingInv == TypeOK /\ WriterUp /\ InBounds /\ CopiedInPlace

\* The facts the proofs about single steps start from.
LEMMA RingInvFacts ==
  ASSUME RingInv
  PROVE  /\ read_offset \in Nat /\ filled \in Nat /\ job.at \in Nat
         /\ job.bytes \in Seq(Byte)
         /\ Len(job.bytes) \in Nat
         /\ Writing => Len(job.bytes) > 0
         /\ ~Writing => job.bytes = <<>> /\ Len(job.bytes) = 0
  BY RingAssumption DEF RingInv, TypeOK, Writing, Offset

\* Copying the next piece of a record keeps the ring invariant.
LEMMA WritePieceStep ==
  ASSUME NoOverflow, RingInv, TypeOK', WritePiece
  PROVE  /\ RingInv'
         /\ Writing /\ Writing'
         /\ \A i \in 0..filled-1 : buf'[Pos(i)] = buf[Pos(i)]
  <1>1. PICK end \in (PieceEnds \cap 0..Len(job.bytes)) \cup {Len(job.bytes)} :
          /\ job.at < end
          /\ buf' = WriteAtOffset(SubSeq(job.bytes, job.at + 1, end), job.at)
          /\ job' = [job EXCEPT !.at = end]
    BY DEF WritePiece
  <1> DEFINE piece == SubSeq(job.bytes, job.at + 1, end)
  <1>2. /\ job.bytes \in Seq(Byte) /\ job.at \in Nat
        /\ end \in 1..Len(job.bytes)
        /\ piece \in Seq(Byte)
        /\ Len(piece) = end - job.at
        /\ \A k \in 1..end-job.at : piece[k] = job.bytes[job.at + k]
    BY <1>1, NextPiece DEF WritePiece, RingInv
  <1>3. UNCHANGED <<read_offset, filled, up, cold>> /\ job'.bytes = job.bytes
        /\ job'.at = end
    BY <1>1 DEF WritePiece, RingInv, TypeOK
  <1>4. Writing
    BY <1>2 DEF Writing
  <1>5. /\ up
        /\ read_offset \in 0..Size /\ filled \in 0..Size
        /\ filled + Len(job.bytes) <= Size
        /\ buf \in [0..Size-1 -> Byte]
    BY <1>4, RingInvFacts, RingAssumption DEF RingInv, WriterUp, InBounds, TypeOK
  <1> HIDE DEF piece
  <1>6. /\ Len(piece) > 0
        /\ filled + job.at + Len(piece) <= Size
    <2>1. /\ Len(job.bytes) \in Nat /\ end <= Len(job.bytes) /\ end \in Nat
          /\ Len(piece) = end - job.at /\ job.at \in Nat
      BY <1>2
    <2>2. job.at < end
      BY <1>1
    <2>3. filled \in Nat /\ Size \in Nat /\ filled + Len(job.bytes) <= Size
      BY <1>5, RingAssumption
    <2>4. QED
      BY <2>1, <2>2, <2>3
  <1>7. /\ \A k \in 1..Len(piece) : buf'[Pos(filled + job.at + k - 1)] = piece[k]
        /\ \A i \in 0..filled+job.at-1 : buf'[Pos(i)] = buf[Pos(i)]
    BY <1>1, <1>2, <1>5, <1>6, WriteAtOffsetEffect DEF piece
  <1>8. ASSUME NEW k \in 1..end
        PROVE  buf'[Pos(filled + k - 1)] = job.bytes[k]
    <2>1. CASE k <= job.at
      <3>1. buf[Pos(filled + k - 1)] = job.bytes[k]
        BY <1>2, <1>4, <2>1 DEF RingInv, CopiedInPlace
      <3>2. filled + k - 1 \in 0..filled+job.at-1
        BY <1>2, <1>5, <2>1
      <3>3. QED
        BY <1>7, <3>1, <3>2
    <2>2. CASE k > job.at
      <3>1. k - job.at \in 1..Len(piece) /\ k - job.at \in 1..end-job.at
            /\ filled + job.at + (k - job.at) - 1 = filled + k - 1
            /\ job.at + (k - job.at) = k
        BY <1>2, <1>5, <2>2
      <3>2. QED
        BY <1>2, <1>7, <3>1
    <2>3. QED
      BY <1>2, <2>1, <2>2
  <1>9. CopiedInPlace'
    BY <1>3, <1>8 DEF CopiedInPlace, Pos
  <1>10. (WriterUp /\ InBounds)'
    BY <1>2, <1>3, <1>4, <1>5 DEF WriterUp, InBounds, Writing
  <1>11. \A i \in 0..filled-1 : buf'[Pos(i)] = buf[Pos(i)]
    BY <1>2, <1>5, <1>7
  <1>12. QED
    BY <1>3, <1>4, <1>9, <1>10, <1>11 DEF RingInv, Writing

\* Making the written record visible keeps the ring invariant.
LEMMA WriteCompleteStep ==
  ASSUME NoOverflow, RingInv, TypeOK', WriteComplete
  PROVE  /\ RingInv'
         /\ Writing /\ ~Writing'
         /\ filled' = filled + Len(job.bytes)
         /\ filled' <= Size
  <1>1. /\ up
        /\ read_offset \in 0..Size /\ filled \in 0..Size
        /\ Len(job.bytes) \in Nat
        /\ filled + Len(job.bytes) <= Size
    BY RingInvFacts, RingAssumption DEF RingInv, WriterUp, InBounds, TypeOK, WriteComplete
  <1>2. filled' = filled + Len(job.bytes)
    <2>1. filled + Len(job.bytes) \in 0..OffsetMod-1 /\ OffsetMod \in Nat \ {0}
      BY <1>1, RingAssumption
    <2>2. QED
      BY <2>1, ModSmall DEF WriteComplete
  <1>3. job' = NoJob /\ UNCHANGED <<buf, read_offset, up, cold>>
    BY DEF WriteComplete
  <1>4. ~Writing' /\ Len(job'.bytes) = 0 /\ job'.at = 0
    BY <1>3 DEF Writing, NoJob
  <1>5. (WriterUp /\ InBounds /\ CopiedInPlace)'
    BY <1>1, <1>2, <1>3, <1>4 DEF WriterUp, InBounds, CopiedInPlace
  <1>6. QED
    BY <1>1, <1>2, <1>4, <1>5 DEF RingInv, WriteComplete

\* Dropping n bytes moves byte n + i of the queue to place i.
LEMMA ReleaseStep ==
  ASSUME NoOverflow, RingInv, TypeOK', NEW n \in 1..filled, Release(n)
  PROVE  /\ RingInv'
         /\ ~Writing
         /\ read_offset' \in 0..Size
         /\ filled' = filled - n
         /\ \A i \in 0..filled-n-1 : Pos(i)' = Pos(n + i)
  <1>1. /\ up
        /\ read_offset \in 0..Size /\ filled \in 0..Size
        /\ Size \in Nat \ {0} /\ OffsetMod \in Nat \ {0} /\ 2 * Size < OffsetMod
        /\ job.bytes = <<>> /\ ~Writing
    BY RingInvFacts, RingAssumption DEF RingInv, InBounds, Release, NoOverflow
  <1>2. filled' = filled - n
    <2>1. filled - n \in 0..OffsetMod-1
      BY <1>1
    <2>2. QED
      BY <1>1, <2>1, ModSmall DEF Release, ReadComplete
  <1>3. read_offset' = IF read_offset + n > Size THEN read_offset + n - Size
                                                 ELSE read_offset + n
    <2>1. read_offset + n \in 0..OffsetMod-1
      BY <1>1
    <2>2. QED
      BY <1>1, <2>1, ModSmall DEF Release, ReadComplete
  <1>4. read_offset' \in 0..Size
    BY <1>1, <1>3
  <1>5. \A i \in 0..filled-n-1 : Pos(i)' = Pos(n + i)
    BY <1>1, <1>3 DEF Pos
  <1>6. UNCHANGED <<buf, job, up, cold>>
    BY DEF Release
  <1>7. (WriterUp /\ InBounds /\ CopiedInPlace)'
    BY <1>1, <1>2, <1>4, <1>6 DEF WriterUp, InBounds, CopiedInPlace, Writing, RingInv
  <1>8. QED
    BY <1>1, <1>2, <1>4, <1>5, <1>7 DEF RingInv

\* The ring invariant holds initially, whatever the memory holds.
LEMMA RingInvInit == Init => RingInv
  <1> SUFFICES ASSUME Init PROVE RingInv
    OBVIOUS
  <1>1. TypeOK
    <2>1. PICK g \in Garbage : /\ buf = g.buf
                               /\ read_offset = g.read_offset
                               /\ filled = g.filled
      BY DEF Init
    <2>2. g \in [buf : [0..Size-1 -> Byte], read_offset : Offset, filled : Offset]
      BY RingAssumption
    <2>3. job \in [bytes : Records \cup {<<>>}, at : Nat]
      BY DEF Init, NoJob
    <2>4. QED
      BY <2>1, <2>2, <2>3 DEF Init, TypeOK
  <1>2. ~up /\ ~Writing /\ job.at = 0
    BY DEF Init, NoJob, Writing
  <1>3. QED
    BY <1>1, <1>2 DEF RingInv, WriterUp, InBounds, CopiedInPlace

\* Every step, resets included, keeps the ring invariant.
LEMMA RingInvStep ==
  ASSUME NoOverflow, RingInv, TypeOK', [Next]_vars
  PROVE  RingInv'
  <1>1. ASSUME NEW rec \in Records, WriteBegin(rec) PROVE RingInv'
    <2>1. /\ job'.bytes = rec /\ job'.at = 0 /\ up'
          /\ UNCHANGED <<buf, read_offset, filled, up>>
      BY <1>1 DEF WriteBegin
    <2>2. /\ Len(rec) \in Nat /\ filled \in Nat /\ Size \in Nat
          /\ read_offset <= Size /\ Len(rec) <= Size - filled
      BY <1>1, RingInvFacts, RingAssumption DEF WriteBegin, DataFree, RingInv, InBounds
    <2>3. (WriterUp /\ InBounds)'
      BY <2>1, <2>2 DEF WriterUp, InBounds
    <2>4. CopiedInPlace'
      BY <2>1 DEF CopiedInPlace
    <2>5. QED
      BY <2>3, <2>4 DEF RingInv
  <1>2. CASE WritePiece
    BY <1>2, WritePieceStep
  <1>3. CASE WriteComplete
    BY <1>3, WriteCompleteStep
  <1>4. ASSUME NEW n \in 1..filled, Release(n) PROVE RingInv'
    BY <1>4, ReleaseStep
  <1>5. CASE Discard
    BY <1>5, RingInvFacts, RingAssumption
       DEF Discard, RingInv, WriterUp, InBounds, CopiedInPlace, Writing
  <1>6. CASE RbufInit
    <2>1. ~Writing /\ job.bytes = <<>> /\ Len(job.bytes) = 0 /\ job.at \in Nat
      BY <1>6, RingInvFacts DEF RbufInit, RingInv, WriterUp
    <2>2. UNCHANGED job /\ ~Writing'
      BY <1>6, <2>1 DEF RbufInit, Writing
    <2>3. read_offset' <= Size /\ filled' <= Size /\ filled' \in Nat
      BY <1>6, RingInvFacts, RingAssumption DEF RbufInit, IntegrityCheck
    <2>4. InBounds'
      BY <2>1, <2>2, <2>3 DEF InBounds, RingInv, WriterUp
    <2>5. QED
      BY <2>1, <2>2, <2>4 DEF RingInv, WriterUp, CopiedInPlace
  <1>7. CASE Deinit
    BY <1>7 DEF Deinit, RingInv, WriterUp, InBounds, CopiedInPlace, Writing
  <1>8. CASE SoftReset
    BY <1>8 DEF SoftReset, NoJob, RingInv, WriterUp, InBounds, CopiedInPlace, Writing
  <1>9. CASE PowerLoss
    BY <1>9 DEF PowerLoss, NoJob, RingInv, WriterUp, InBounds, CopiedInPlace, Writing
  <1>10. CASE UNCHANGED vars
    BY <1>10 DEF vars, RingInv, WriterUp, InBounds, CopiedInPlace, Writing, Pos
  <1>11. QED
    BY <1>1, <1>2, <1>3, <1>4, <1>5, <1>6, <1>7, <1>8, <1>9, <1>10 DEF Next

\* The ring invariant holds throughout.
LEMMA RingInvAlways ==
  ASSUME NoOverflow
  PROVE  Spec => []RingInv
  <1>1. RingInv /\ TypeOK' /\ [Next]_vars => RingInv'
    BY RingInvStep
  <1>2. QED
    BY <1>1, RingInvInit, TypeCorrect, PTL DEF Spec

\* While the store is up, both offsets of a buffer stay within it and a write in
\* progress has room for the whole record: the free space that
\* rtc_store_critical_data_write checked for is not taken before it completes.
THEOREM OffsetsInBounds ==
  ASSUME NoOverflow
  PROVE  Spec => []InBounds
  <1>1. RingInv => InBounds
    BY DEF RingInv
  <1>2. QED
    BY <1>1, RingInvAlways, PTL

\* The bytes that a write in progress has copied are where a reader will look
\* for them once rtc_store_write_complete has run, whatever is released meanwhile.
THEOREM CopiesArePlaced ==
  ASSUME NoOverflow
  PROVE  Spec => []CopiedInPlace
  <1>1. RingInv => CopiedInPlace
    BY DEF RingInv
  <1>2. QED
    BY <1>1, RingInvAlways, PTL

\* No memcpy of rtc_store_write_at_offset leaves the buffer, whichever piece
\* of whichever record it copies and wherever the buffer wraps.
THEOREM CopiesStayInBounds ==
  ASSUME NoOverflow
  PROVE  Spec => []CopyInBounds
  <1>1. RingInv => CopyInBounds
    <2> SUFFICES ASSUME RingInv, Writing, NEW end \in job.at+1..Len(job.bytes)
                 PROVE  LET n == CopyLen(job.at, end - job.at)
                        IN  /\ CopyStart(job.at) + n <= Size
                            /\ end - job.at - n \in 0..Size
      BY DEF CopyInBounds
    <2>1. /\ Len(job.bytes) \in Nat /\ job.at \in Nat /\ Size \in Nat
          /\ read_offset \in 0..Size /\ filled \in 0..Size
          /\ filled + Len(job.bytes) <= Size
      BY RingInvFacts, RingAssumption DEF RingInv, WriterUp, InBounds
    <2>2. end - job.at \in Nat \ {0} /\ filled + job.at + (end - job.at) <= Size
      BY <2>1
    <2> DEFINE n == CopyLen(job.at, end - job.at)
    <2>3. n \in 0..end-job.at /\ CopyStart(job.at) + n <= Size
      BY <2>1, <2>2, CopyBounds
    <2> HIDE DEF n
    <2>4. end - job.at - n \in 0..Size
      <3>1. \A e \in Nat, size \in Nat : \A m \in 0..e : e <= size => e - m \in 0..size
        OBVIOUS
      <3>2. end - job.at \in Nat /\ end - job.at <= Size
        BY <2>1, <2>2
      <3>3. QED
        BY <2>1, <2>3, <3>1, <3>2, Zenon
    <2>5. QED
      BY <2>3, <2>4 DEF n
  <1>2. QED
    BY <1>1, RingInvAlways, PTL

\* rtc_store_data_read returns the oldest bytes in the order they were
\* written, for every size asked for and every position of the wrap.
THEOREM ReadsAreOldest ==
  ASSUME NoOverflow
  PROVE  Spec => []ReadsOldest
  <1>1. RingInv => ReadsOldest
    <2> SUFFICES ASSUME RingInv, up, NEW size \in 1..Size+1
                 PROVE  LET n == IF filled < size THEN filled ELSE size
                        IN  ReadUnsafe(size) = [k \in 1..n |-> Contents[k]]
      BY DEF ReadsOldest
    <2> DEFINE n == IF filled < size THEN filled ELSE size
    <2>1. read_offset \in 0..Size /\ filled \in 0..Size /\ Size \in Nat /\ size \in Nat
      BY RingInvFacts, RingAssumption DEF RingInv, InBounds
    <2>2. ASSUME NEW k \in 1..n
          PROVE  Contents[k] = IF Size - read_offset < n /\ k > Size - read_offset
                               THEN buf[k - (Size - read_offset) - 1]
                               ELSE buf[read_offset + k - 1]
      <3>1. k \in 1..filled /\ k <= size
        BY <2>1
      <3>2. Contents[k] = buf[Pos(k - 1)]
        BY <3>1 DEF Contents
      <3>3. CASE read_offset + (k - 1) >= Size
        <4>1. Pos(k - 1) = k - (Size - read_offset) - 1
          BY <2>1, <3>1, <3>3 DEF Pos
        <4>2. Size - read_offset < n /\ k > Size - read_offset
          BY <2>1, <3>1, <3>3
        <4>3. QED
          BY <3>2, <4>1, <4>2
      <3>4. CASE read_offset + (k - 1) < Size
        <4>1. Pos(k - 1) = read_offset + k - 1
          BY <2>1, <3>1, <3>4 DEF Pos
        <4>2. ~(k > Size - read_offset)
          BY <2>1, <3>1, <3>4
        <4>3. QED
          BY <3>2, <4>1, <4>2
      <3>5. QED
        BY <2>1, <3>1, <3>3, <3>4
    <2>3. QED
      BY <2>2 DEF ReadUnsafe
  <1>2. QED
    BY <1>1, RingInvAlways, PTL

-----------------------------------------------------------------------------
(* The ring implements the FIFO.                                           *)

StoredFacts ==
  /\ Stored \in Seq(Byte)
  /\ Len(Stored) = IF IntegrityCheck THEN filled ELSE 0
  /\ IntegrityCheck => \A k \in 1..filled : Stored[k] = buf[Pos(k - 1)]
  /\ Stored \in Fifo!AnyContents

\* The queue read off the buffer is a sequence of bytes that fits.
LEMMA StoredType == TypeOK => StoredFacts
  <1> SUFFICES ASSUME TypeOK PROVE StoredFacts
    OBVIOUS
  <1>1. /\ filled \in Nat /\ read_offset \in Nat /\ Size \in Nat \ {0}
        /\ buf \in [0..Size-1 -> Byte]
    BY RingAssumption DEF TypeOK, Offset
  <1>2. CASE IntegrityCheck
    <2>1. Stored = [k \in 1..filled |-> buf[Pos(k - 1)]]
      BY <1>2 DEF Stored, Contents
    <2>2. ASSUME NEW k \in 1..filled PROVE buf[Pos(k - 1)] \in Byte
      <3>1. Pos(k - 1) \in 0..Size-1
        BY <1>1, <1>2 DEF Pos, IntegrityCheck
      <3>2. QED
        BY <1>1, <3>1
    <2>3. Stored \in [1..filled -> Byte]
      BY <2>1, <2>2
    <2>4. filled \in 0..Size
      BY <1>1, <1>2 DEF IntegrityCheck
    <2>5. Stored \in Fifo!AnyContents
      BY <2>3, <2>4 DEF Fifo!AnyContents
    <2>6. QED
      BY <1>1, <1>2, <2>1, <2>3, <2>5 DEF StoredFacts
  <1>3. CASE ~IntegrityCheck
    <2>1. Stored = <<>>
      BY <1>3 DEF Stored
    <2>2. Stored \in [1..0 -> Byte]
      BY <2>1
    <2>3. Stored \in Fifo!AnyContents
      BY <1>1, <2>2 DEF Fifo!AnyContents
    <2>4. QED
      BY <1>3, <2>1, <2>3 DEF StoredFacts
  <1>4. QED
    BY <1>2, <1>3

\* The same in the next state.
LEMMA StoredTypeNext == TypeOK' => StoredFacts'
  BY StoredType, PTL

\* While the store is up the integrity check holds and stays true.
LEMMA UpMeansSound ==
  ASSUME RingInv, up
  PROVE  IntegrityCheck
  BY RingInvFacts, RingAssumption DEF RingInv, InBounds, IntegrityCheck

\* The queue depends on buf, read_offset and filled only.
LEMMA StoredSame ==
  ASSUME UNCHANGED <<buf, read_offset, filled>>
  PROVE  Stored' = Stored
  BY DEF Stored, Contents, Pos, IntegrityCheck

\* Every step of the ring is a step of the FIFO or leaves it alone.
LEMMA FifoStep ==
  ASSUME NoOverflow, RingInv, RingInv', [Next]_vars
  PROVE  [Fifo!Next]_(Fifo!fifoVars)
  <1> USE DEF RingInv
  <1>1. ASSUME NEW rec \in Records, WriteBegin(rec)
        PROVE  UNCHANGED Fifo!fifoVars
    BY <1>1, StoredSame DEF WriteBegin, Fifo!fifoVars
  <1>2. CASE WritePiece
    <2>1. /\ \A i \in 0..filled-1 : buf'[Pos(i)] = buf[Pos(i)]
          /\ Writing
      BY <1>2, WritePieceStep
    <2>2. UNCHANGED <<read_offset, filled, up, cold>>
      BY <1>2 DEF WritePiece
    <2>3. filled \in Nat
      BY RingInvFacts
    <2>4. Contents' = Contents
      <3>1. \A k \in 1..filled : buf'[Pos(k - 1)'] = buf[Pos(k - 1)]
        BY <2>1, <2>2, <2>3 DEF Pos
      <3>2. QED
        BY <2>2, <3>1 DEF Contents
    <2>5. Stored' = Stored
      BY <2>2, <2>4 DEF Stored, IntegrityCheck
    <2>6. QED
      BY <2>2, <2>5 DEF Fifo!fifoVars
  <1>3. CASE WriteComplete
    <2>1. /\ Writing /\ up
          /\ filled' = filled + Len(job.bytes)
          /\ filled' <= Size
      BY <1>3, WriteCompleteStep DEF WriterUp
    <2>2. /\ job.bytes \in Records /\ job.bytes \in Seq(Byte)
          /\ job.at = Len(job.bytes)
          /\ UNCHANGED <<buf, read_offset, up, cold>>
      BY <1>3, <2>1, RingInvFacts DEF WriteComplete, TypeOK, Writing
    <2>3. IntegrityCheck /\ IntegrityCheck'
      BY <2>1, <2>2, UpMeansSound DEF IntegrityCheck
    <2>4. /\ Stored \in Seq(Byte) /\ Stored' \in Seq(Byte)
          /\ Len(Stored) = filled /\ Len(Stored') = filled'
          /\ \A k \in 1..filled : Stored[k] = buf[Pos(k - 1)]
          /\ \A k \in 1..filled' : Stored'[k] = buf[Pos(k - 1)]
      <3>1. /\ Stored' \in Seq(Byte)
            /\ Len(Stored') = IF IntegrityCheck' THEN filled' ELSE 0
            /\ IntegrityCheck' => \A k \in 1..filled' : Stored'[k] = buf'[Pos(k - 1)']
        BY StoredTypeNext DEF StoredFacts
      <3>2. QED
        BY <2>2, <2>3, <3>1, StoredType DEF Pos, StoredFacts
    <2>5. filled \in Nat /\ Len(job.bytes) \in Nat
      BY RingInvFacts
    <2>6. /\ Stored \o job.bytes \in Seq(Byte)
          /\ Len(Stored \o job.bytes) = filled'
          /\ \A k \in 1..filled' :
               (Stored \o job.bytes)[k] = IF k <= filled THEN Stored[k]
                                          ELSE job.bytes[k - filled]
      <3>1. Len(Stored) + Len(job.bytes) = filled'
        BY <2>1, <2>4
      <3>2. /\ Stored \o job.bytes \in Seq(Byte)
            /\ Len(Stored \o job.bytes) = Len(Stored) + Len(job.bytes)
            /\ \A k \in 1..Len(Stored)+Len(job.bytes) :
                 (Stored \o job.bytes)[k] = IF k <= Len(Stored) THEN Stored[k]
                                            ELSE job.bytes[k - Len(Stored)]
        BY <2>2, <2>4, ConcatProperties
      <3>3. QED
        BY <2>4, <3>1, <3>2
    <2>7. ASSUME NEW k \in 1..filled'
          PROVE  Stored'[k] = (Stored \o job.bytes)[k]
      <3>0. /\ Stored'[k] = buf[Pos(k - 1)]
            /\ (Stored \o job.bytes)[k] = IF k <= filled THEN Stored[k]
                                          ELSE job.bytes[k - filled]
            /\ k \in 1..filled+Len(job.bytes)
        BY <2>1, <2>4, <2>6
      <3>1. CASE k <= filled
        <4>1. Stored[k] = buf[Pos(k - 1)]
          BY <2>4, <2>5, <3>0, <3>1
        <4>2. QED
          BY <3>0, <3>1, <4>1
      <3>2. CASE k > filled
        <4>1. k - filled \in 1..job.at /\ filled + (k - filled) - 1 = k - 1
          BY <2>2, <2>5, <3>0, <3>2
        <4>2. buf[Pos(k - 1)] = job.bytes[k - filled]
          BY <2>1, <4>1 DEF CopiedInPlace
        <4>3. QED
          BY <2>5, <3>0, <3>2, <4>2
      <3>3. QED
        BY <2>5, <3>0, <3>1, <3>2
    <2>8. Stored' = Stored \o job.bytes
      BY <2>4, <2>6, <2>7, SeqEqual
    <2>9. Fifo!Put(job.bytes)
      BY <2>1, <2>2, <2>4, <2>8 DEF Fifo!Put
    <2>10. QED
      BY <2>2, <2>9 DEF Fifo!Next
  <1>4. ASSUME NEW n \in 1..filled, Release(n)
        PROVE  Fifo!Next
    <2>1. /\ ~Writing /\ filled' = filled - n
          /\ \A i \in 0..filled-n-1 : Pos(i)' = Pos(n + i)
      BY <1>4, ReleaseStep
    <2>2. up /\ UNCHANGED <<buf, up, cold>>
      BY <1>4 DEF Release
    <2>3. IntegrityCheck /\ IntegrityCheck'
      <3>1. IntegrityCheck
        BY <2>2, UpMeansSound
      <3>2. filled' \in 0..Size /\ read_offset' \in 0..Size
        BY <1>4, <3>1, ReleaseStep, RingInvFacts, RingAssumption DEF IntegrityCheck
      <3>3. QED
        BY <3>1, <3>2 DEF IntegrityCheck
    <2>4. /\ Stored \in Seq(Byte) /\ Stored' \in Seq(Byte)
          /\ Len(Stored) = filled /\ Len(Stored') = filled - n
          /\ \A k \in 1..filled : Stored[k] = buf[Pos(k - 1)]
          /\ \A k \in 1..filled-n : Stored'[k] = buf[Pos(k - 1)']
      <3>1. /\ Stored' \in Seq(Byte)
            /\ Len(Stored') = IF IntegrityCheck' THEN filled' ELSE 0
            /\ IntegrityCheck' => \A k \in 1..filled' : Stored'[k] = buf'[Pos(k - 1)']
        BY StoredTypeNext DEF StoredFacts
      <3>2. QED
        BY <2>1, <2>2, <2>3, <3>1, StoredType DEF StoredFacts
    <2>5. filled \in Nat /\ n \in 1..filled
      BY RingInvFacts
    <2>6. /\ SubSeq(Stored, n + 1, Len(Stored)) \in Seq(Byte)
          /\ Len(SubSeq(Stored, n + 1, Len(Stored))) = filled - n
          /\ \A k \in 1..filled-n :
               SubSeq(Stored, n + 1, Len(Stored))[k] = Stored[n + k]
      <3>1. \A k \in n+1..filled : Stored[k] \in Byte
        BY <2>4, <2>5
      <3>2. QED
        BY <2>4, <2>5, <3>1, SubSeqProperties
    <2>7. ASSUME NEW k \in 1..filled-n
          PROVE  Stored'[k] = SubSeq(Stored, n + 1, Len(Stored))[k]
      <3>1. Pos(k - 1)' = Pos(n + k - 1) /\ n + k \in 1..filled
        <4>1. k - 1 \in 0..filled-n-1 /\ n + (k - 1) = n + k - 1 /\ n + k \in 1..filled
          BY <2>5
        <4>2. QED
          BY <2>1, <4>1
      <3>2. Stored'[k] = buf[Pos(k - 1)']
        BY <2>4
      <3>3. SubSeq(Stored, n + 1, Len(Stored))[k] = Stored[n + k]
        BY <2>6
      <3>4. Stored[n + k] = buf[Pos(n + k - 1)]
        BY <2>4, <3>1
      <3>5. QED
        BY <3>1, <3>2, <3>3, <3>4
    <2>8. Stored' = SubSeq(Stored, n + 1, Len(Stored))
      BY <2>4, <2>6, <2>7, SeqEqual
    <2>9. Fifo!Drop(n)
      BY <2>2, <2>8 DEF Fifo!Drop
    <2>10. n \in 1..Len(Stored)
      BY <2>4
    <2>11. QED
      BY <2>9, <2>10 DEF Fifo!Next
  <1>5. CASE Discard
    <2>1. filled' = 0 /\ read_offset' = 0 /\ up /\ UNCHANGED <<up, cold>>
      BY <1>5 DEF Discard
    <2>2. Stored' = <<>>
      BY <2>1 DEF Stored, Contents
    <2>3. Fifo!Clear
      BY <2>1, <2>2 DEF Fifo!Clear
    <2>4. QED
      BY <2>3 DEF Fifo!Next
  <1>6. CASE RbufInit
    <2>1. ~up /\ up' = TRUE /\ UNCHANGED <<buf, cold>>
      BY <1>6 DEF RbufInit
    <2>2. Stored' = IF cold THEN <<>> ELSE Stored
      <3>1. CASE cold \/ ~IntegrityCheck
        <4>1. filled' = 0
          BY <1>6, <3>1 DEF RbufInit
        <4>2. Stored' = <<>>
          BY <4>1 DEF Stored, Contents
        <4>3. QED
          BY <3>1, <4>2 DEF Stored
      <3>2. CASE ~cold /\ IntegrityCheck
        BY <1>6, <3>2, StoredSame DEF RbufInit
      <3>3. QED
        BY <3>1, <3>2
    <2>3. Fifo!Start
      BY <2>1, <2>2 DEF Fifo!Start
    <2>4. QED
      BY <2>3 DEF Fifo!Next
  <1>7. CASE Deinit
    BY <1>7, StoredSame DEF Deinit, Fifo!Next, Fifo!Stop
  <1>8. CASE SoftReset
    BY <1>8, StoredSame DEF SoftReset, Fifo!Next, Fifo!SoftReset
  <1>9. CASE PowerLoss
    <2>1. Stored' \in Fifo!AnyContents
      <3>1. Stored' \in Fifo!AnyContents'
        BY StoredTypeNext DEF StoredFacts
      <3>2. QED
        BY <3>1 DEF Fifo!AnyContents
    <2>2. QED
      BY <1>9, <2>1 DEF PowerLoss, Fifo!Next, Fifo!PowerLoss
  <1>10. CASE UNCHANGED vars
    BY <1>10, StoredSame DEF vars, Fifo!fifoVars
  <1>11. QED
    BY <1>1, <1>2, <1>3, <1>4, <1>5, <1>6, <1>7, <1>8, <1>9, <1>10 DEF Next

\* The ring buffer is a FIFO of bytes for every size that satisfies
\* NoOverflow: what a reader sees is what was written, oldest first, through
\* every wrap, interrupted write, release, discard and reset.
THEOREM RingImplementsFifo ==
  ASSUME NoOverflow
  PROVE  Spec => ImplementsFifo
  <1>1. Init => Fifo!Init
    <2> SUFFICES ASSUME Init PROVE Fifo!Init
      OBVIOUS
    <2>1. TypeOK
      BY RingInvInit DEF RingInv
    <2>2. Stored \in Fifo!AnyContents
      BY <2>1, StoredType DEF StoredFacts
    <2>3. QED
      BY <2>2 DEF Init, Fifo!Init
  <1>2. RingInv /\ RingInv' /\ [Next]_vars => [Fifo!Next]_(Fifo!fifoVars)
    BY FifoStep
  <1>3. QED
    BY <1>1, <1>2, RingInvAlways, PTL DEF Spec, ImplementsFifo, Fifo!Spec
=============================================================================
