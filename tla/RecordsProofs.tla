---------------------------- MODULE RecordsProofs ----------------------------
(***************************************************************************)
(* Proofs about the way of a record into a document, for all sizes of      *)
(* records, every size of the read buffer and any number of calls and      *)
(* boots.                                                                  *)
(***************************************************************************)
EXTENDS Records, DocumentsProofs, FiniteSetTheorems

-----------------------------------------------------------------------------
(* The bytes of a buffer: whole records, one after the other                *)

LogRecs == [id : Nat, type : LogTypes, meta : Nat, format : DOMAIN Formats]
PointRecs == [id : Nat, type : PointTypes, data_type : DataTypes, meta : Nat]
Recs == LogRecs \cup PointRecs

RecLen(rec) == IF rec.type \in LogTypes THEN 1 + LogSize ELSE 1 + HdrSize + Size(rec)
BytesOf(R) == {b \in [rec : R, at : Nat] : b.at < RecLen(b.rec)}
IsLast(b) == b.at = RecLen(b.rec) - 1

\* q begins with a record, and records follow each other; q ends with a record.
Chain(q) ==
  /\ q # <<>> => q[1].at = 0
  /\ \A i \in 1..Len(q) - 1 : IF IsLast(q[i]) THEN q[i + 1].at = 0
                              ELSE q[i + 1].rec = q[i].rec /\ q[i + 1].at = q[i].at + 1
Whole(q) == Chain(q) /\ (q # <<>> => IsLast(q[Len(q)]))

LEMMA RecLens ==
  /\ \A rec \in Recs : RecLen(rec) \in Nat /\ RecLen(rec) >= 2
  /\ \A rec \in LogRecs : RecLen(rec) = 1 + LogSize
  /\ \A rec \in PointRecs : RecLen(rec) = 1 + HdrSize + Size(rec)
  <1>1. \A rec \in LogRecs : RecLen(rec) = 1 + LogSize
    BY DEF LogRecs, RecLen
  <1>2. \A rec \in PointRecs : rec.type \notin LogTypes
    BY DEF PointRecs, PointTypes, LogTypes
  <1>3. \A rec \in PointRecs : RecLen(rec) = 1 + HdrSize + Size(rec)
    BY <1>2 DEF RecLen
  <1>4. \A rec \in PointRecs : Size(rec) \in Nat \ {0}
    BY SizeAssumption DEF Size
  <1> QED BY <1>1, <1>3, <1>4, SizeAssumption DEF Recs

\* The bytes of the record that begins behind place i.
LEMMA RecordAt ==
  ASSUME NEW q \in Seq(BytesOf(Recs)), Chain(q), NEW i \in 0..Len(q) - 1, q[i + 1].at = 0
  PROVE  \A j \in 0..RecLen(q[i + 1].rec) - 1 : i + 1 + j <= Len(q) =>
            q[i + 1 + j].rec = q[i + 1].rec /\ q[i + 1 + j].at = j
  <1> DEFINE rec == q[i + 1].rec
             last == RecLen(rec) - 1
             S == {n \in 0..last : \A j \in 0..last - n : i + 1 + j <= Len(q) =>
                                     q[i + 1 + j].rec = rec /\ q[i + 1 + j].at = j}
  <1>1. rec \in Recs /\ last \in Nat /\ last >= 1 /\ i + 1 \in 1..Len(q)
    BY RecLens DEF BytesOf
  <1>2. last \in S
    BY <1>1
  <1>3. ASSUME NEW n \in 0..last, n # last, n + 1 \in S PROVE n \in S
    <2> SUFFICES ASSUME NEW j \in 0..last - n, i + 1 + j <= Len(q)
                 PROVE  q[i + 1 + j].rec = rec /\ q[i + 1 + j].at = j
      BY <1>1
    <2>1. CASE j <= last - (n + 1)
      BY <1>3, <2>1
    <2>2. CASE j = last - n
      <3>1. j - 1 \in 0..last - (n + 1) /\ i + 1 + (j - 1) <= Len(q) /\ i + 1 + (j - 1) \in 1..Len(q) - 1
        <4> HIDE DEF last, S
        <4>1. j \in Nat /\ j >= 1
          BY <1>1, <1>3, <2>2
        <4> QED BY <1>1, <1>3, <2>2, <4>1
      <3>2. q[i + 1 + (j - 1)].rec = rec /\ q[i + 1 + (j - 1)].at = j - 1
        BY <1>3, <3>1
      <3>3. j - 1 # RecLen(rec) - 1
        BY <1>1, <2>2
      <3>4. ~IsLast(q[i + 1 + (j - 1)])
        BY <3>2, <3>3 DEF IsLast
      <3>5. i + 1 + (j - 1) + 1 = i + 1 + j /\ j - 1 + 1 = j
        BY <1>1
      <3> QED BY <3>1, <3>2, <3>4, <3>5 DEF Chain
    <2> QED BY <1>1, <2>1, <2>2
  <1>4. \A n \in 0..last : n \in S
    <2>1. ASSUME NEW n \in 0..last, \A m \in (n+1)..last : m \in S PROVE n \in S
      <3> HIDE DEF S, last
      <3>1. CASE n = last
        BY <1>2, <3>1
      <3>2. CASE n # last
        <4>1. n + 1 \in (n+1)..last
          BY <1>1, <3>2
        <4> QED BY <1>3, <2>1, <3>2, <4>1
      <3> QED BY <3>1, <3>2
    <2> HIDE DEF S, last
    <2> QED BY <1>1, <2>1, FromTheEnd
  <1> QED BY <1>1, <1>4

\* Behind a whole record the next one begins.
LEMMA NextRecord ==
  ASSUME NEW q \in Seq(BytesOf(Recs)), Chain(q), NEW i \in 0..Len(q) - 1, q[i + 1].at = 0,
         NEW n, n = i + RecLen(q[i + 1].rec), n <= Len(q)
  PROVE  /\ n \in 0..Len(q) /\ n > i /\ IsLast(q[n]) /\ q[n].rec = q[i + 1].rec
         /\ n = Len(q) \/ q[n + 1].at = 0
  <1>1. q[i + 1].rec \in Recs /\ RecLen(q[i + 1].rec) \in Nat /\ RecLen(q[i + 1].rec) >= 2
    BY RecLens DEF BytesOf
  <1>2. PICK j : j = RecLen(q[i + 1].rec) - 1
    OBVIOUS
  <1>3. i + 1 + j = n /\ j \in 0..RecLen(q[i + 1].rec) - 1
    BY <1>1, <1>2
  <1>4. q[n].rec = q[i + 1].rec /\ q[n].at = j
    BY <1>3, RecordAt
  <1>5. IsLast(q[n])
    BY <1>2, <1>4 DEF IsLast
  <1>6. n # Len(q) => n \in 1..Len(q) - 1
    BY <1>1
  <1> QED BY <1>1, <1>4, <1>5, <1>6 DEF Chain

-----------------------------------------------------------------------------
(* What a walk over a chain consumes                                        *)

\* The place where a walk that is at the beginning of a record, i bytes into
\* the chunk, stops: the record is cut by the end or under another header.
Starts(q, i) == i = Len(q) \/ q[i + 1].at = 0
Stops(q, i) ==
  i = Len(q) \/ i + RecLen(q[i + 1].rec) > Len(q) \/ q[i + 1].rec.meta # q[1].rec.meta
Consumes(q, c) ==
  \A i \in 0..Len(q) : Starts(q, i) =>
    c[i] = IF Stops(q, i) THEN i ELSE c[i + RecLen(q[i + 1].rec)]

\* What lies between i and n is whole records under the header of the chunk.
Between(q, i, n) ==
  /\ n \in i..Len(q) /\ Starts(q, n)
  /\ n # i => IsLast(q[n])
  /\ \A k \in (i+1)..n : q[k].rec.meta = q[1].rec.meta
  /\ \A k \in (i+1)..n : q[k].at = 0 => k + RecLen(q[k].rec) - 1 <= n

LEMMA BetweenStep ==
  ASSUME NEW q \in Seq(BytesOf(Recs)), Chain(q), NEW i \in 0..Len(q), Starts(q, i), ~Stops(q, i),
         NEW m, m = i + RecLen(q[i + 1].rec), NEW n, Between(q, m, n)
  PROVE  Between(q, i, n)
  <1>1. i \in 0..Len(q) - 1 /\ q[i + 1].at = 0 /\ m <= Len(q) /\ q[i + 1].rec.meta = q[1].rec.meta
    BY DEF Starts, Stops
  <1>2. q[i + 1].rec \in Recs /\ RecLen(q[i + 1].rec) \in Nat /\ RecLen(q[i + 1].rec) >= 2
    BY <1>1, RecLens DEF BytesOf
  <1>3. m \in 0..Len(q) /\ m > i /\ IsLast(q[m])
    BY <1>1, NextRecord
  <1>4. \A k \in (i+1)..m : q[k].rec = q[i + 1].rec /\ (q[k].at = 0 => k = i + 1)
    <2> SUFFICES ASSUME NEW k \in (i+1)..m PROVE q[k].rec = q[i + 1].rec /\ (q[k].at = 0 => k = i + 1)
      OBVIOUS
    <2>1. PICK j : j = k - (i + 1)
      OBVIOUS
    <2>2. j \in 0..RecLen(q[i + 1].rec) - 1 /\ i + 1 + j = k /\ k <= Len(q)
      BY <1>1, <1>2, <1>3, <2>1
    <2>3. q[k].rec = q[i + 1].rec /\ q[k].at = j
      BY <1>1, <2>2, RecordAt
    <2> QED BY <2>2, <2>3
  <1>5. n \in m..Len(q) /\ Starts(q, n) /\ (n # m => IsLast(q[n]))
    BY DEF Between
  <1>6. n \in i..Len(q) /\ (n # i => IsLast(q[n]))
    BY <1>3, <1>5
  <1>7. \A k \in (i+1)..n : k \in (i+1)..m \/ k \in (m+1)..n
    BY <1>3, <1>5
  <1>8. \A k \in (i+1)..n : q[k].rec.meta = q[1].rec.meta
    BY <1>1, <1>4, <1>7 DEF Between
  <1>9. ASSUME NEW k \in (i+1)..n, q[k].at = 0 PROVE k + RecLen(q[k].rec) - 1 <= n
    <2>1. CASE k \in (i+1)..m
      <3>1. k = i + 1
        BY <1>4, <1>9, <2>1
      <3> QED BY <1>2, <1>3, <1>5, <3>1
    <2>2. CASE k \in (m+1)..n
      BY <1>9, <2>2 DEF Between
    <2> QED BY <1>7, <2>1, <2>2
  <1> QED BY <1>5, <1>6, <1>8, <1>9 DEF Between

LEMMA WalkConsumes ==
  ASSUME NEW q \in Seq(BytesOf(Recs)), Chain(q), NEW c, Consumes(q, c)
  PROVE  \A i \in 0..Len(q) : Starts(q, i) => Between(q, i, c[i])
  <1> DEFINE S == {i \in 0..Len(q) : Starts(q, i) => Between(q, i, c[i])}
  <1>1. ASSUME NEW i \in 0..Len(q), \A m \in (i+1)..Len(q) : m \in S PROVE i \in S
    <2> SUFFICES ASSUME Starts(q, i) PROVE Between(q, i, c[i])
      OBVIOUS
    <2>1. CASE Stops(q, i)
      <3>1. c[i] = i
        BY <2>1 DEF Consumes
      <3> QED BY <3>1 DEF Between
    <2>2. CASE ~Stops(q, i)
      <3>1. PICK m : m = i + RecLen(q[i + 1].rec)
        OBVIOUS
      <3>2. c[i] = c[m]
        BY <2>2, <3>1 DEF Consumes
      <3>3. i \in 0..Len(q) - 1 /\ q[i + 1].at = 0 /\ m <= Len(q)
        BY <2>2, <3>1 DEF Starts, Stops
      <3>4. m \in (i+1)..Len(q) /\ Starts(q, m)
        BY <3>1, <3>3, NextRecord DEF Starts
      <3>5. Between(q, m, c[m])
        BY <1>1, <3>4
      <3> QED BY <2>2, <3>1, <3>2, <3>5, BetweenStep
    <2> QED BY <2>1, <2>2
  <1>2. \A i \in 0..Len(q) : i \in S
    <2>1. Len(q) \in Nat
      OBVIOUS
    <2> HIDE DEF S
    <2> QED BY <1>1, <2>1, FromTheEnd
  <1> QED BY <1>2

\* The whole chunk, and its front.
LEMMA ChunkConsumed ==
  ASSUME NEW q \in Seq(BytesOf(Recs)), Chain(q), NEW c, Consumes(q, c)
  PROVE  /\ Between(q, 0, c[0])
         /\ q # <<>> /\ RecLen(q[1].rec) <= Len(q) => c[0] > 0
  <1>1. Starts(q, 0) /\ 0 \in 0..Len(q)
    BY DEF Starts, Chain
  <1>2. Between(q, 0, c[0])
    BY <1>1, WalkConsumes
  <1>3. ASSUME q # <<>>, RecLen(q[1].rec) <= Len(q) PROVE c[0] > 0
    <2>1. PICK m : m = 0 + RecLen(q[0 + 1].rec)
      OBVIOUS
    <2>2. q[0 + 1].at = 0 /\ 0 \in 0..Len(q) - 1 /\ m \in Nat /\ m >= 2 /\ m <= Len(q) /\ m = RecLen(q[1].rec)
      BY <1>3, <2>1, RecLens DEF Chain, BytesOf
    <2>3. m \in 0..Len(q) /\ Starts(q, m)
      BY <2>1, <2>2, NextRecord DEF Starts
    <2>4. ~Stops(q, 0)
      BY <1>3, <2>2 DEF Stops
    <2>5. c[0] = c[m]
      BY <1>1, <2>1, <2>4 DEF Consumes
    <2>6. c[m] \in m..Len(q)
      BY <2>3, WalkConsumes DEF Between
    <2> QED BY <2>2, <2>5, <2>6
  <1> QED BY <1>2, <1>3

-----------------------------------------------------------------------------
(* What is consumed of a chunk of logs, and of one of points                *)

Consumed(q, n) == Between(q, 0, n) /\ (q # <<>> /\ RecLen(q[1].rec) <= Len(q) => n > 0)

LEMMA Bytes1 ==
  ASSUME NEW R, R \subseteq Recs, NEW q \in Seq(BytesOf(R))
  PROVE  q \in Seq(BytesOf(Recs)) /\ Len(q) \in Nat /\ \A i \in 1..Len(q) : q[i].rec \in R /\ q[i] \in BytesOf(R)
  <1>1. BytesOf(R) \subseteq BytesOf(Recs)
    BY DEF BytesOf
  <1>2. q \in Seq(BytesOf(Recs))
    BY <1>1
  <1>3. \A i \in 1..Len(q) : q[i] \in BytesOf(R)
    OBVIOUS
  <1>4. \A b \in BytesOf(R) : b.rec \in R
    BY DEF BytesOf
  <1> QED BY <1>2, <1>3, <1>4

\* At the beginning of a record, a walk stops where it should, or goes on to
\* the next.
LEMMA LogStops ==
  ASSUME NEW q \in Seq(BytesOf(LogRecs)), Chain(q), NEW i \in 0..Len(q), Starts(q, i)
  PROVE  /\ LogStop(q, i) <=> Stops(q, i)
         /\ ~Stops(q, i) => i + 1 + LogSize = i + RecLen(q[i + 1].rec)
  <1>1. q \in Seq(BytesOf(Recs)) /\ Len(q) \in Nat /\ \A k \in 1..Len(q) : q[k].rec \in LogRecs
    BY Bytes1 DEF Recs
  <1>2. CASE i = Len(q)
    BY <1>1, <1>2, SizeAssumption DEF Stops, LogStop
  <1>3. CASE i # Len(q)
    <2>1. i + 1 \in 1..Len(q) /\ 1 \in 1..Len(q) /\ q # <<>> /\ i \in Nat
      BY <1>1, <1>3
    <2>2. q[i + 1].at = 0 /\ q[1].at = 0
      BY <1>3, <2>1 DEF Starts, Chain
    <2>3. MetaIdx(q[i + 1]) = q[i + 1].rec.meta /\ MetaIdx(q[1]) = q[1].rec.meta
      BY <2>2 DEF MetaIdx
    <2>4. RecLen(q[i + 1].rec) = 1 + LogSize
      BY <1>1, <2>1, RecLens
    <2>5. LogStop(q, i) <=> Stops(q, i)
      BY <1>1, <1>3, <2>1, <2>3, <2>4, SizeAssumption DEF LogStop, Stops
    <2>6. i + 1 + LogSize = i + RecLen(q[i + 1].rec)
      BY <2>1, <2>4, SizeAssumption
    <2> QED BY <2>5, <2>6
  <1> QED BY <1>2, <1>3

LEMMA PointStops ==
  ASSUME NEW q \in Seq(BytesOf(PointRecs)), Chain(q), NEW i \in 0..Len(q), Starts(q, i)
  PROVE  /\ PointStop(q, i) <=> Stops(q, i)
         /\ ~Stops(q, i) => PointNext(q, i) = i + RecLen(q[i + 1].rec)
  <1>1. q \in Seq(BytesOf(Recs)) /\ Len(q) \in Nat /\ \A k \in 1..Len(q) : q[k].rec \in PointRecs
    BY Bytes1 DEF Recs
  <1>2. CASE i = Len(q)
    BY <1>1, <1>2, SizeAssumption DEF Stops, PointStop
  <1>3. CASE i # Len(q)
    <2>1. i + 1 \in 1..Len(q) /\ 1 \in 1..Len(q) /\ q # <<>> /\ i \in 0..Len(q) - 1
      BY <1>1, <1>3
    <2>2. q[i + 1].at = 0 /\ q[1].at = 0
      BY <1>3, <2>1 DEF Starts, Chain
    <2>3. MetaIdx(q[i + 1]) = q[i + 1].rec.meta /\ MetaIdx(q[1]) = q[1].rec.meta
      BY <2>2 DEF MetaIdx
    <2>4. PICK size : size = Size(q[i + 1].rec)
      OBVIOUS
    <2>5. RecLen(q[i + 1].rec) = 1 + HdrSize + size /\ size \in Nat \ {0} /\ HdrSize \in Nat \ {0}
      BY <1>1, <2>1, <2>4, RecLens, SizeAssumption DEF Size
    <2>6. CASE Len(q) - i <= HdrSize
      <3>1. PointStop(q, i)
        BY <2>6 DEF PointStop
      <3>2. Stops(q, i)
        BY <1>1, <2>1, <2>5, <2>6 DEF Stops
      <3> QED BY <3>1, <3>2
    <2>7. CASE ~(Len(q) - i <= HdrSize)
      <3>1. i + 1 + 1 <= Len(q) /\ 1 \in 0..RecLen(q[i + 1].rec) - 1 /\ i + 1 + 1 = i + 2
        BY <1>1, <2>1, <2>5, <2>7
      <3>2. q[i + 2].rec = q[i + 1].rec /\ q[i + 2].at = 1
        BY <1>1, <2>1, <2>2, <3>1, RecordAt
      <3>3. HeaderLen(q[i + 2]) = size
        BY <2>4, <3>2 DEF HeaderLen
      <3>4. PointStop(q, i) <=> Stops(q, i)
        BY <1>1, <2>1, <2>3, <2>5, <2>7, <3>3 DEF PointStop, Stops
      <3>5. PointNext(q, i) = i + RecLen(q[i + 1].rec)
        BY <2>1, <2>5, <3>3 DEF PointNext
      <3> QED BY <3>4, <3>5
    <2> QED BY <2>6, <2>7
  <1> QED BY <1>2, <1>3

LEMMA LogWalkConsumes ==
  ASSUME NEW q \in Seq(BytesOf(LogRecs)), Chain(q), NEW type
  PROVE  \E c : Consumes(q, c) /\ LogWalk(q, type).consumed = c[0]
  <1>1. Len(q) \in Nat
    OBVIOUS
  <1>2. PICK c : /\ \A i \in Nat : c[i] = IF LogStop(q, i) THEN i ELSE c[i + 1 + LogSize]
                 /\ LogWalk(q, type).consumed = c[0]
    BY <1>1, LogConsumed
  <1>3. Consumes(q, c)
    <2> SUFFICES ASSUME NEW i \in 0..Len(q), Starts(q, i)
                 PROVE  c[i] = IF Stops(q, i) THEN i ELSE c[i + RecLen(q[i + 1].rec)]
      BY DEF Consumes
    <2>1. c[i] = IF LogStop(q, i) THEN i ELSE c[i + 1 + LogSize]
      BY <1>1, <1>2
    <2> QED BY <2>1, LogStops
  <1> QED BY <1>2, <1>3

LEMMA PointWalkConsumes ==
  ASSUME NEW q \in Seq(BytesOf(PointRecs)), Chain(q), NEW type
  PROVE  \E c : Consumes(q, c) /\ PointWalk(q, type).consumed = c[0]
  <1>1. Len(q) \in Nat
    OBVIOUS
  <1>2. PICK c : /\ \A i \in Nat : c[i] = IF PointStop(q, i) THEN i ELSE c[PointNext(q, i)]
                 /\ PointWalk(q, type).consumed = c[0]
    BY <1>1, PointConsumed
  <1>3. Consumes(q, c)
    <2> SUFFICES ASSUME NEW i \in 0..Len(q), Starts(q, i)
                 PROVE  c[i] = IF Stops(q, i) THEN i ELSE c[i + RecLen(q[i + 1].rec)]
      BY DEF Consumes
    <2>1. c[i] = IF PointStop(q, i) THEN i ELSE c[PointNext(q, i)]
      BY <1>1, <1>2
    <2> QED BY <2>1, PointStops
  <1> QED BY <1>2, <1>3

LEMMA LogWalkConsumed ==
  ASSUME NEW q \in Seq(BytesOf(LogRecs)), Chain(q), NEW type
  PROVE  Consumed(q, LogWalk(q, type).consumed)
  <1>1. q \in Seq(BytesOf(Recs))
    BY Bytes1 DEF Recs
  <1>2. PICK c : Consumes(q, c) /\ LogWalk(q, type).consumed = c[0]
    BY LogWalkConsumes
  <1> QED BY <1>1, <1>2, ChunkConsumed DEF Consumed

LEMMA PointWalkConsumed ==
  ASSUME NEW q \in Seq(BytesOf(PointRecs)), Chain(q), NEW type
  PROVE  Consumed(q, PointWalk(q, type).consumed)
  <1>1. q \in Seq(BytesOf(Recs))
    BY Bytes1 DEF Recs
  <1>2. PICK c : Consumes(q, c) /\ PointWalk(q, type).consumed = c[0]
    BY PointWalkConsumes
  <1> QED BY <1>1, <1>2, ChunkConsumed DEF Consumed

LEMMA CriticalConsumed ==
  ASSUME NEW q \in Seq(BytesOf(LogRecs)), Chain(q)
  PROVE  Consumed(q, CriticalData(q).consumed)
  <1>1. CASE q = <<>>
    <2>1. CriticalData(q).consumed = 0
      BY <1>1 DEF CriticalData, Nothing
    <2> QED BY <1>1, <2>1 DEF Consumed, Between, Starts
  <1>2. CASE q # <<>>
    <2>1. PICK e, w, v : /\ e = LogWalk(q, "error").consumed
                         /\ w = LogWalk(q, "warning").consumed
                         /\ v = LogWalk(q, "event").consumed
      OBVIOUS
    <2>2. CriticalData(q).consumed = MaxOf(e, MaxOf(w, v))
      BY <1>2, <2>1 DEF CriticalData, WithHdr, DiagLogs, Traces
    <2>3. MaxOf(e, MaxOf(w, v)) \in {e, w, v}
      BY DEF MaxOf
    <2>4. Consumed(q, e) /\ Consumed(q, w) /\ Consumed(q, v)
      BY <2>1, LogWalkConsumed
    <2> QED BY <2>2, <2>3, <2>4
  <1> QED BY <1>1, <1>2

LEMMA NonCriticalConsumed ==
  ASSUME NEW q \in Seq(BytesOf(PointRecs)), Chain(q)
  PROVE  Consumed(q, NonCriticalData(q).consumed)
  <1>1. Len(q) \in Nat /\ (q # <<>> => 1 \in 1..Len(q)) /\ (\A i \in 1..Len(q) : q[i].rec \in PointRecs)
    BY Bytes1 DEF Recs
  <1>2. PICK m, p : /\ m = DataPoints(q, "metrics", "metrics").consumed
                    /\ p = DataPoints(q, "params", "variable").consumed
    OBVIOUS
  <1>3. NonCriticalData(q).consumed = MaxOf(m, p)
    BY <1>2 DEF NonCriticalData, WithHdr, Points
  <1>4. Consumed(q, m) /\ Consumed(q, p)
    <2>1. CASE Len(q) <= HdrSize
      <3>1. m = 0 /\ p = 0
        BY <1>2, <2>1 DEF DataPoints, Nothing
      <3>2. Between(q, 0, 0)
        BY <1>1 DEF Between, Starts, Chain
      <3>3. q # <<>> => RecLen(q[1].rec) > Len(q)
        BY <1>1, <2>1, RecLens, SizeAssumption DEF Size
      <3> QED BY <1>1, <3>1, <3>2, <3>3, RecLens, SizeAssumption DEF Consumed, Recs
    <2>2. CASE ~(Len(q) <= HdrSize)
      <3>1. m = PointWalk(q, "metrics").consumed /\ p = PointWalk(q, "variable").consumed
        BY <1>2, <2>2 DEF DataPoints
      <3> QED BY <3>1, PointWalkConsumed
    <2> QED BY <2>1, <2>2
  <1>5. MaxOf(m, p) \in {m, p}
    BY DEF MaxOf
  <1> QED BY <1>3, <1>4, <1>5

-----------------------------------------------------------------------------
(* The steps of a buffer keep its records whole                             *)

LEMMA Joined ==
  ASSUME NEW S, NEW p \in Seq(S), NEW q \in Seq(S)
  PROVE  /\ p \o q \in Seq(S) /\ Len(p \o q) = Len(p) + Len(q)
         /\ \A i \in 1..Len(p) : (p \o q)[i] = p[i]
         /\ \A i \in 1..Len(q) : (p \o q)[Len(p) + i] = q[i]
  OBVIOUS

LEMMA Grown ==
  ASSUME NEW R, R \subseteq Recs, NEW q \in Seq(BytesOf(R)), Whole(q), NEW rec \in R
  PROVE  q \o Bytes(rec, RecLen(rec)) \in Seq(BytesOf(R)) /\ Whole(q \o Bytes(rec, RecLen(rec)))
  <1>1. PICK n, b, r : n = RecLen(rec) /\ b = Bytes(rec, n) /\ r = q \o b
    OBVIOUS
  <1>2. n \in Nat /\ n >= 2
    BY <1>1, RecLens
  <1>3. b \in Seq(BytesOf(R)) /\ Len(b) = n /\ \A k \in 1..n : b[k].rec = rec /\ b[k].at = k - 1
    <2>1. \A k \in 1..n : [rec |-> rec, at |-> k - 1] \in BytesOf(R)
      BY <1>1, <1>2 DEF BytesOf
    <2>2. b \in [1..n -> BytesOf(R)]
      BY <1>1, <2>1 DEF Bytes
    <2>3. \A k \in 1..n : b[k].rec = rec /\ b[k].at = k - 1
      BY <1>1 DEF Bytes
    <2> QED BY <1>2, <2>2, <2>3
  <1>4. /\ r \in Seq(BytesOf(R)) /\ Len(r) = Len(q) + n /\ Len(q) \in Nat
        /\ \A i \in 1..Len(q) : r[i] = q[i]
        /\ \A k \in 1..n : r[Len(q) + k].rec = rec /\ r[Len(q) + k].at = k - 1
    <2>1. /\ r \in Seq(BytesOf(R)) /\ Len(r) = Len(q) + Len(b)
          /\ \A i \in 1..Len(q) : r[i] = q[i]
          /\ \A k \in 1..Len(b) : r[Len(q) + k] = b[k]
      BY <1>1, <1>3, Joined
    <2> QED BY <1>3, <2>1
  <1>5. q # <<>> => 1 \in 1..Len(q) /\ q[1].at = 0 /\ IsLast(q[Len(q)]) /\ Len(q) \in 1..Len(q)
    BY DEF Whole, Chain
  <1>6. r[1].at = 0
    <2>1. CASE q = <<>>
      BY <1>2, <1>4, <2>1
    <2>2. CASE q # <<>>
      BY <1>4, <1>5, <2>2
    <2> QED BY <2>1, <2>2
  <1>7. IsLast(r[Len(r)])
    <2>1. n \in 1..n /\ Len(r) = Len(q) + n
      BY <1>2, <1>4
    <2>2. r[Len(r)].rec = rec /\ r[Len(r)].at = n - 1
      BY <1>4, <2>1
    <2> QED BY <1>1, <2>2 DEF IsLast
  <1>8. ASSUME NEW i \in 1..Len(r) - 1
        PROVE  IF IsLast(r[i]) THEN r[i + 1].at = 0
               ELSE r[i + 1].rec = r[i].rec /\ r[i + 1].at = r[i].at + 1
    <2>1. CASE i < Len(q)
      <3>1. i \in 1..Len(q) - 1 /\ r[i] = q[i] /\ r[i + 1] = q[i + 1]
        BY <1>4, <2>1
      <3> QED BY <3>1 DEF Whole, Chain
    <2>2. CASE i = Len(q)
      <3>1. q # <<>> /\ r[i] = q[i] /\ IsLast(r[i]) /\ r[i + 1].at = 0
        BY <1>2, <1>4, <1>5, <2>2
      <3> QED BY <3>1
    <2>3. CASE i > Len(q)
      <3>1. PICK k : k = i - Len(q)
        OBVIOUS
      <3>2. k \in 1..n - 1 /\ i = Len(q) + k /\ i + 1 = Len(q) + (k + 1) /\ k + 1 \in 1..n /\ k \in 1..n
        BY <1>2, <1>4, <2>3, <3>1
      <3>3. r[i].rec = rec /\ r[i].at = k - 1 /\ r[i + 1].rec = rec /\ r[i + 1].at = k
        BY <1>4, <3>2
      <3>4. ~IsLast(r[i])
        BY <1>1, <1>2, <3>2, <3>3 DEF IsLast
      <3> QED BY <3>2, <3>3, <3>4
    <2> QED BY <1>4, <2>1, <2>2, <2>3
  <1> QED BY <1>1, <1>4, <1>6, <1>7, <1>8 DEF Whole, Chain

LEMMA ReadOf ==
  ASSUME NEW R, R \subseteq Recs, NEW q \in Seq(BytesOf(R)), Whole(q)
  PROVE  /\ Read(q) \in Seq(BytesOf(R)) /\ Len(Read(q)) <= Len(q) /\ Chain(Read(q))
         /\ \A i \in 1..Len(Read(q)) : Read(q)[i] = q[i]
  <1>1. PICK p : p = Read(q)
    OBVIOUS
  <1>2. p \in Seq(BytesOf(R)) /\ Len(p) <= Len(q) /\ \A i \in 1..Len(p) : p[i] = q[i]
    BY <1>1, RecordsAssumption DEF Read
  <1>3. Chain(p)
    <2>1. p # <<>> => p[1].at = 0
      BY <1>2 DEF Whole, Chain
    <2>2. ASSUME NEW i \in 1..Len(p) - 1
          PROVE  IF IsLast(p[i]) THEN p[i + 1].at = 0
                 ELSE p[i + 1].rec = p[i].rec /\ p[i + 1].at = p[i].at + 1
      <3>1. i \in 1..Len(q) - 1 /\ p[i] = q[i] /\ p[i + 1] = q[i + 1]
        BY <1>2
      <3> QED BY <3>1 DEF Whole, Chain
    <2> QED BY <2>1, <2>2 DEF Chain
  <1> QED BY <1>1, <1>2, <1>3

LEMMA Dropped ==
  ASSUME NEW R, R \subseteq Recs, NEW q \in Seq(BytesOf(R)), Whole(q),
         NEW n, Consumed(Read(q), n)
  PROVE  Drop(q, n) \in Seq(BytesOf(R)) /\ Whole(Drop(q, n))
  <1>1. PICK p, r : p = Read(q) /\ r = Drop(q, n)
    OBVIOUS
  <1>2. p \in Seq(BytesOf(R)) /\ Len(p) <= Len(q) /\ \A i \in 1..Len(p) : p[i] = q[i]
    BY <1>1, ReadOf
  <1>3. n \in 0..Len(p) /\ (n # 0 => IsLast(p[n])) /\ n \in 0..Len(q) /\ Len(q) \in Nat
    BY <1>1, <1>2 DEF Consumed, Between
  <1>4. r \in Seq(BytesOf(R)) /\ Len(r) = Len(q) - n /\ \A i \in 1..Len(r) : r[i] = q[n + i]
    BY <1>1, <1>3 DEF Drop
  <1>5. r # <<>> => r[1].at = 0
    <2> SUFFICES ASSUME r # <<>> PROVE q[n + 1].at = 0
      BY <1>4
    <2>1. n < Len(q)
      BY <1>3, <1>4
    <2>2. CASE n = 0
      BY <2>1, <2>2 DEF Whole, Chain
    <2>3. CASE n # 0
      <3>1. n \in 1..Len(q) - 1 /\ IsLast(q[n])
        BY <1>2, <1>3, <2>1, <2>3
      <3> QED BY <3>1 DEF Whole, Chain
    <2> QED BY <2>2, <2>3
  <1>6. ASSUME NEW i \in 1..Len(r) - 1
        PROVE  IF IsLast(r[i]) THEN r[i + 1].at = 0
               ELSE r[i + 1].rec = r[i].rec /\ r[i + 1].at = r[i].at + 1
    <2>1. n + i \in 1..Len(q) - 1 /\ r[i] = q[n + i] /\ r[i + 1] = q[n + i + 1]
      BY <1>3, <1>4
    <2> QED BY <2>1 DEF Whole, Chain
  <1>7. r # <<>> => IsLast(r[Len(r)])
    <2> SUFFICES ASSUME r # <<>> PROVE IsLast(r[Len(r)])
      OBVIOUS
    <2>1. Len(r) \in 1..Len(r) /\ n + Len(r) = Len(q) /\ q # <<>>
      BY <1>3, <1>4
    <2> QED BY <1>4, <2>1 DEF Whole
  <1> QED BY <1>1, <1>4, <1>5, <1>6, <1>7 DEF Whole, Chain

\* A record that is taken once.
LEMMA FlattenNone ==
  ASSUME NEW S, NEW q \in Seq(S)
  PROVE  q \o FlattenSeq(<<>>) = q
  <1>1. FlattenSeq(<<>>) = <<>>
    BY DEF FlattenSeq
  <1> QED BY <1>1

LEMMA FlattenOne ==
  ASSUME NEW b
  PROVE  FlattenSeq([i \in 1..1 |-> b]) = b
  <1> DEFINE s == [i \in 1..1 |-> b]
             f == CHOOSE g : g = [i \in 1..Len(s) |-> IF i = 1 THEN s[i] ELSE g[i - 1] \o s[i]]
  <1>1. Len(s) = 1 /\ s[1] = b
    OBVIOUS
  <1>2. \E g : g = [i \in 1..Len(s) |-> IF i = 1 THEN s[i] ELSE g[i - 1] \o s[i]]
    <2>1. s = [i \in 1..Len(s) |-> IF i = 1 THEN s[i] ELSE s[i - 1] \o s[i]]
      BY <1>1
    <2> QED BY <2>1
  <1>3. f = [i \in 1..Len(s) |-> IF i = 1 THEN s[i] ELSE f[i - 1] \o s[i]]
    <2> HIDE DEF s
    <2> QED BY <1>2, Zenon
  <1>4. FlattenSeq(s) = f[Len(s)]
    BY <1>1 DEF FlattenSeq
  <1> HIDE DEF f, s
  <1>5. f[1] = b
    BY <1>1, <1>3
  <1> QED BY <1>1, <1>4, <1>5 DEF s

-----------------------------------------------------------------------------
(* The buffers, at any time, and the documents made of them                 *)

Buffers ==
  /\ crit \in Seq(BytesOf(LogRecs)) /\ Whole(crit)
  /\ nc \in Seq(BytesOf(PointRecs)) /\ Whole(nc)
  /\ meta \in Nat /\ logged \in Seq(Recs)

Taken == Consumed(doc.crit, doc.critConsumed) /\ Consumed(doc.nc, doc.ncConsumed)
DocInv ==
  /\ doc.crit \in Seq(BytesOf(LogRecs)) /\ Chain(doc.crit)
  /\ doc.nc \in Seq(BytesOf(PointRecs)) /\ Chain(doc.nc)
  /\ Taken

IInv == Buffers /\ DocInv

LEMMA EmptyChain ==
  ASSUME NEW R
  PROVE  <<>> \in Seq(BytesOf(R)) /\ Whole(<<>>) /\ Chain(<<>>) /\ Consumed(<<>>, 0)
  BY DEF Whole, Chain, Consumed, Between, Starts

LEMMA NoDocument == ASSUME NEW calls, doc' = [NoDoc EXCEPT !.calls = calls] PROVE DocInv'
  <1>1. doc'.crit = <<>> /\ doc'.nc = <<>> /\ doc'.critConsumed = 0 /\ doc'.ncConsumed = 0
    BY DEF NoDoc
  <1> QED BY <1>1, EmptyChain DEF DocInv, Taken

LEMMA NoDocumentYet == ASSUME doc' = NoDoc PROVE DocInv'
  <1>1. doc'.crit = <<>> /\ doc'.nc = <<>> /\ doc'.critConsumed = 0 /\ doc'.ncConsumed = 0
    BY DEF NoDoc
  <1> QED BY <1>1, EmptyChain DEF DocInv, Taken

LEMMA InvStart == Init => IInv
  <1> SUFFICES ASSUME Init PROVE IInv
    OBVIOUS
  <1>1. doc.crit = <<>> /\ doc.nc = <<>> /\ doc.critConsumed = 0 /\ doc.ncConsumed = 0
    BY DEF Init, NoDoc
  <1>2. DocInv
    BY <1>1, EmptyChain DEF DocInv, Taken
  <1>3. crit = <<>> /\ nc = <<>> /\ logged = <<>> /\ meta = 1
    BY DEF Init
  <1>4. Buffers
    BY <1>3, EmptyChain DEF Buffers
  <1> QED BY <1>2, <1>4 DEF IInv

\* A message adds a record, or is recorded by nobody.
LogAdds(rec, none) ==
  /\ rec.id = Len(logged) + 1 /\ logged' = Append(logged, rec)
  /\ IF none THEN crit' = crit /\ direct' = direct \cup {rec.id}
     ELSE crit' = crit \o Bytes(rec, RecLen(rec)) /\ direct' = direct

LEMMA LogStepAdds ==
  ASSUME IInv, NEW type \in LogTypes, NEW format \in DOMAIN Formats,
         NEW via \in {"write", "writev", "event"}, NEW wifi \in BOOLEAN, Log(type, format, via, wifi)
  PROVE  \E rec \in LogRecs, none \in BOOLEAN : LogAdds(rec, none)
  <1>1. PICK rec : rec = LogRecord(type, format)
    OBVIOUS
  <1>2. rec \in LogRecs /\ rec.id = Len(logged) + 1 /\ rec.id = Id
    BY <1>1 DEF IInv, Buffers, LogRecord, LogRecs, Id
  <1>3. PICK none \in BOOLEAN : none <=> (via = "writev" /\ wifi)
    OBVIOUS
  <1>4. LogBytes(rec) = Bytes(rec, RecLen(rec))
    BY <1>2, RecLens DEF LogBytes
  <1>5. PICK n : n = TimesRecorded(via, wifi)
    OBVIOUS
  <1>6. /\ crit' = crit \o FlattenSeq([i \in 1..n |-> LogBytes(rec)])
        /\ logged' = Append(logged, rec)
        /\ direct' = IF via = "writev" /\ wifi THEN direct \cup {rec.id} ELSE direct
    BY <1>1, <1>2, <1>5 DEF Log, LogAs
  <1>7. n = IF none THEN 0 ELSE 1
    BY <1>3, <1>5 DEF TimesRecorded
  <1>8. CASE none
    <2>1. [i \in 1..0 |-> LogBytes(rec)] = <<>>
      OBVIOUS
    <2>2. crit' = crit \o FlattenSeq(<<>>)
      BY <1>6, <1>7, <1>8, <2>1
    <2>3. crit' = crit
      BY <2>2, FlattenNone DEF IInv, Buffers
    <2> QED BY <1>2, <1>3, <1>6, <1>8, <2>3 DEF LogAdds
  <1>9. CASE ~none
    <2>1. crit' = crit \o FlattenSeq([i \in 1..1 |-> LogBytes(rec)])
      BY <1>6, <1>7, <1>9
    <2>2. crit' = crit \o Bytes(rec, RecLen(rec))
      BY <1>4, <2>1, FlattenOne
    <2> QED BY <1>2, <1>3, <1>6, <1>9, <2>2 DEF LogAdds
  <1> QED BY <1>8, <1>9

LEMMA LogStepInv ==
  ASSUME IInv, NEW type \in LogTypes, NEW format \in DOMAIN Formats,
         NEW via \in {"write", "writev", "event"}, NEW wifi \in BOOLEAN, Log(type, format, via, wifi)
  PROVE  IInv'
  <1>1. PICK rec \in LogRecs, none \in BOOLEAN : LogAdds(rec, none)
    BY LogStepAdds
  <1>2. rec \in Recs
    BY DEF Recs
  <1>3. crit' \in Seq(BytesOf(LogRecs)) /\ Whole(crit')
    <2>1. CASE none
      <3>1. crit' = crit
        BY <1>1, <2>1 DEF LogAdds
      <3> QED BY <3>1 DEF IInv, Buffers
    <2>2. CASE ~none
      <3>1. crit' = crit \o Bytes(rec, RecLen(rec))
        BY <1>1, <2>2 DEF LogAdds
      <3> QED BY <3>1, Grown DEF IInv, Buffers, Recs
    <2> QED BY <2>1, <2>2
  <1>4. nc' = nc /\ meta' = meta /\ doc' = NoDoc
    BY DEF Log, LogAs
  <1>5. logged' \in Seq(Recs)
    BY <1>1, <1>2 DEF IInv, Buffers, LogAdds
  <1>6. Buffers'
    BY <1>3, <1>4, <1>5 DEF IInv, Buffers, Whole, Chain, IsLast, RecLen
  <1> QED BY <1>4, <1>6, NoDocumentYet DEF IInv

LEMMA ReportAdds ==
  ASSUME IInv, NEW type \in PointTypes, NEW data_type \in DataTypes, Report(type, data_type)
  PROVE  \E rec \in PointRecs : /\ rec.id = Len(logged) + 1 /\ logged' = Append(logged, rec)
                                /\ nc' = nc \o Bytes(rec, RecLen(rec))
  <1>1. PICK rec : rec = [id |-> Id, type |-> type, data_type |-> data_type, meta |-> meta]
    OBVIOUS
  <1>2. rec \in PointRecs /\ rec.id = Len(logged) + 1
    BY <1>1 DEF IInv, Buffers, PointRecs, Id
  <1>3. PtBytes(rec) = Bytes(rec, RecLen(rec))
    BY <1>2, RecLens DEF PtBytes
  <1>4. nc' = nc \o Bytes(rec, RecLen(rec)) /\ logged' = Append(logged, rec)
    BY <1>1, <1>3 DEF Report
  <1> QED BY <1>2, <1>4

LEMMA ReportInv ==
  ASSUME IInv, NEW type \in PointTypes, NEW data_type \in DataTypes, Report(type, data_type)
  PROVE  IInv'
  <1>1. PICK rec \in PointRecs : logged' = Append(logged, rec) /\ nc' = nc \o Bytes(rec, RecLen(rec))
    BY ReportAdds
  <1>2. rec \in Recs
    BY DEF Recs
  <1>3. nc' \in Seq(BytesOf(PointRecs)) /\ Whole(nc')
    BY <1>1, Grown DEF IInv, Buffers, Recs
  <1>4. crit' = crit /\ meta' = meta /\ doc' = NoDoc
    BY DEF Report
  <1>5. logged' \in Seq(Recs)
    BY <1>1, <1>2 DEF IInv, Buffers
  <1>6. Buffers'
    BY <1>3, <1>4, <1>5 DEF IInv, Buffers
  <1> QED BY <1>4, <1>6, NoDocumentYet DEF IInv

LEMMA SendDataInv ==
  ASSUME IInv, SendData
  PROVE  IInv'
  <1>1. PICK c, n : c = CriticalData(Read(crit)).consumed /\ n = NonCriticalData(Read(nc)).consumed
    OBVIOUS
  <1>2. /\ Read(crit) \in Seq(BytesOf(LogRecs)) /\ Chain(Read(crit))
        /\ Read(nc) \in Seq(BytesOf(PointRecs)) /\ Chain(Read(nc))
    BY ReadOf DEF IInv, Buffers, Recs
  <1>3. Consumed(Read(crit), c) /\ Consumed(Read(nc), n)
    BY <1>1, <1>2, CriticalConsumed, NonCriticalConsumed
  <1>4. /\ Drop(crit, c) \in Seq(BytesOf(LogRecs)) /\ Whole(Drop(crit, c))
        /\ Drop(nc, n) \in Seq(BytesOf(PointRecs)) /\ Whole(Drop(nc, n))
    BY <1>3, Dropped DEF IInv, Buffers, Recs
  <1>5. /\ doc'.crit = Read(crit) /\ doc'.nc = Read(nc)
        /\ doc'.critConsumed = c /\ doc'.ncConsumed = n
    BY <1>1 DEF SendData, SendEncoded
  <1>6. nc' = Drop(nc, n) /\ crit' \in {Drop(crit, c), crit} /\ meta' = meta /\ logged' = logged
    BY <1>1 DEF SendData, SendEncoded
  <1>7. DocInv'
    BY <1>2, <1>3, <1>5 DEF DocInv, Taken
  <1>8. Buffers'
    BY <1>4, <1>6 DEF IInv, Buffers
  <1> QED BY <1>7, <1>8 DEF IInv

LEMMA InvNext == IInv /\ [Next]_vars => IInv'
  <1> SUFFICES ASSUME IInv, [Next]_vars PROVE IInv'
    OBVIOUS
  <1>1. CASE LogCall
    BY <1>1, LogStepInv DEF LogCall
  <1>2. CASE \E type \in PointTypes, data_type \in DataTypes : Report(type, data_type)
    BY <1>2, ReportInv
  <1>3. CASE Reboot
    <2>1. crit' = crit /\ nc' = nc /\ logged' = logged /\ meta' = meta + 1 /\ doc' = NoDoc
      BY <1>3 DEF Reboot
    <2>2. Buffers'
      BY <2>1 DEF IInv, Buffers
    <2> QED BY <2>1, <2>2, NoDocumentYet DEF IInv
  <1>4. CASE SendData
    BY <1>4, SendDataInv
  <1>5. CASE \E crash \in {<<>>, <<2>>} : SendBoot(crash)
    <2>1. PICK crash \in {<<>>, <<2>>} : SendBoot(crash)
      BY <1>5
    <2>2. /\ crit' = crit /\ nc' = nc /\ logged' = logged /\ meta' = meta
          /\ doc' = [NoDoc EXCEPT !.calls = BootDocument(meta, crash)]
      BY <2>1 DEF SendBoot
    <2>3. Buffers'
      BY <2>2 DEF IInv, Buffers
    <2> QED BY <2>2, <2>3, NoDocument DEF IInv
  <1>6. CASE UNCHANGED vars
    <2>1. crit' = crit /\ nc' = nc /\ logged' = logged /\ meta' = meta /\ doc' = doc
      BY <1>6 DEF vars
    <2> QED BY <2>1 DEF IInv, Buffers, DocInv, Taken
  <1> QED BY <1>1, <1>2, <1>3, <1>4, <1>5, <1>6 DEF Next

\* Both buffers hold whole records at any time, and so does what is read.
THEOREM RecordsWhole == Spec => []IInv
  <1> QED BY InvStart, InvNext, PTL DEF Spec

\* What a round takes from a buffer is whole records under one header, whatever
\* was logged and reported in which order, over whatever boots, and wherever
\* the read buffer cut the last of them: encode_log_list and
\* encode_data_points end on a record boundary.
THEOREM WholeRecordsConsumed == Spec => []ConsumesWholeRecords
  <1>1. ASSUME NEW q \in Seq(BytesOf(Recs)), Chain(q), NEW n, Consumed(q, n)
        PROVE  WholeUnder(q, n)
    <2> SUFFICES ASSUME n > 0
                 PROVE  /\ n <= Len(q) /\ q[1].at = 0
                        /\ n = Len(q) \/ q[n + 1].at = 0
                        /\ \A i \in 1..n : q[i].rec.meta = q[1].rec.meta
                        /\ \A i \in 1..n : q[i].at = 0 =>
                             i + (IF q[i].rec.type \in LogTypes THEN LogSize
                                  ELSE HdrSize + Size(q[i].rec)) <= n
      BY DEF WholeUnder
    <2>1. /\ n \in 0..Len(q) /\ Starts(q, n)
          /\ \A i \in 1..n : q[i].rec.meta = q[1].rec.meta
          /\ \A i \in 1..n : q[i].at = 0 => i + RecLen(q[i].rec) - 1 <= n
      BY <1>1 DEF Consumed, Between
    <2>2. q # <<>> /\ q[1].at = 0
      BY <1>1, <2>1 DEF Chain
    <2>3. ASSUME NEW i \in 1..n, q[i].at = 0
          PROVE  i + (IF q[i].rec.type \in LogTypes THEN LogSize ELSE HdrSize + Size(q[i].rec)) <= n
      <3>1. Size(q[i].rec) \in Nat
        BY SizeAssumption DEF Size
      <3>2. i + RecLen(q[i].rec) - 1 <= n
        BY <2>1, <2>3
      <3> QED BY <3>1, <3>2, SizeAssumption DEF RecLen
    <2> QED BY <2>1, <2>2, <2>3 DEF Starts
  <1>2. IInv => ConsumesWholeRecords
    BY <1>1, Bytes1 DEF IInv, DocInv, Taken, ConsumesWholeRecords, Recs
  <1> QED BY <1>2, RecordsWhole, PTL

\* A record at the front of a buffer that was read whole is consumed, so that
\* none stands in the way of those behind it.
THEOREM TheFrontIsConsumed == Spec => []FrontIsConsumed
  <1>1. ASSUME IInv PROVE FrontIsConsumed
    <2>1. /\ doc.crit \in Seq(BytesOf(LogRecs)) /\ doc.nc \in Seq(BytesOf(PointRecs))
          /\ Consumed(doc.crit, doc.critConsumed) /\ Consumed(doc.nc, doc.ncConsumed)
      BY <1>1 DEF IInv, DocInv, Taken
    <2>2. ASSUME Len(doc.crit) > LogSize PROVE doc.critConsumed > 0
      <3>1. doc.crit # <<>> /\ doc.crit[1].rec \in LogRecs /\ Len(doc.crit) \in Nat
        BY <2>1, <2>2, Bytes1, SizeAssumption DEF Recs
      <3>2. RecLen(doc.crit[1].rec) = 1 + LogSize
        BY <3>1, RecLens
      <3> QED BY <2>1, <2>2, <3>1, <3>2, SizeAssumption DEF Consumed
    <2>3. ASSUME doc.nc # <<>>, Len(doc.nc) > HdrSize + Size(doc.nc[1].rec) PROVE doc.ncConsumed > 0
      <3>1. doc.nc[1].rec \in PointRecs /\ Len(doc.nc) \in Nat
        BY <2>1, <2>3, Bytes1 DEF Recs
      <3>2. RecLen(doc.nc[1].rec) = 1 + HdrSize + Size(doc.nc[1].rec)
        BY <3>1, RecLens
      <3>3. Size(doc.nc[1].rec) \in Nat
        BY SizeAssumption DEF Size
      <3> QED BY <2>1, <2>3, <3>1, <3>2, <3>3, SizeAssumption DEF Consumed
    <2> QED BY <2>2, <2>3 DEF FrontIsConsumed
  <1> QED BY <1>1, RecordsWhole, PTL

\* A document of what was read of the two buffers.
LEMMA SendDataWellFormed ==
  ASSUME "NULL" \notin DataTypes, IInv, SendData
  PROVE  DocumentsWellFormed'
  <1>1. PICK c : c = Read(crit)
    OBVIOUS
  <1>2. PICK n : n = Read(nc)
    OBVIOUS
  <1>3. c \in Seq(BytesOf(LogRecs)) /\ n \in Seq(BytesOf(PointRecs))
    BY <1>1, <1>2, ReadOf DEF IInv, Buffers, Recs
  <1>4. Len(c) \in Nat /\ LogsKnown(c)
    <2>1. \A b \in BytesOf(LogRecs) : b.rec.format \in DOMAIN Formats
      BY DEF BytesOf, LogRecs
    <2> QED BY <1>3, <2>1 DEF LogsKnown
  <1>5. Len(n) \in Nat /\ PointsKnown(n)
    <2>1. \A b \in BytesOf(PointRecs) : b.rec.data_type \in DataTypes
      BY DEF BytesOf, PointRecs
    <2> QED BY <1>3, <2>1 DEF PointsKnown
  <1>6. WellFormed(DataBegin(meta) \o CriticalData(c).calls \o NonCriticalData(n).calls \o DataEnd, "s_encoder")
    BY <1>4, <1>5, DataWellFormed
  <1>7. doc'.calls = DataBegin(meta) \o CriticalData(c).calls \o NonCriticalData(n).calls \o DataEnd
    BY <1>1, <1>2 DEF SendData, SendEncoded
  <1> QED BY <1>6, <1>7, Zenon DEF DocumentsWellFormed

\* Every document, the boot message as much as those made of records, is one
\* complete CBOR item, whatever was logged and reported and wherever the read
\* buffer cut the last record: esp_insights_encode_data_begin, the lists of
\* encode_log_list and encode_data_points, their headers and
\* esp_insights_encode_data_end fit together.  Only a point of the type
\* ESP_DIAG_DATA_TYPE_NULL is left without a value by encode_data_pt.
THEOREM EveryDocumentWellFormed ==
  ASSUME "NULL" \notin DataTypes
  PROVE  Spec => []DocumentsWellFormed
  <1>1. Init => DocumentsWellFormed
    BY DEF Init, NoDoc, DocumentsWellFormed
  <1>2. ASSUME IInv, DocumentsWellFormed, [Next]_vars PROVE DocumentsWellFormed'
    <2>1. ASSUME doc' = NoDoc PROVE DocumentsWellFormed'
      BY <2>1 DEF NoDoc, DocumentsWellFormed
    <2>2. CASE LogCall
      BY <2>1, <2>2 DEF LogCall, Log, LogAs
    <2>3. CASE \E type \in PointTypes, data_type \in DataTypes : Report(type, data_type)
      BY <2>1, <2>3 DEF Report
    <2>4. CASE Reboot
      BY <2>1, <2>4 DEF Reboot
    <2>5. CASE SendData
      BY <1>2, <2>5, SendDataWellFormed
    <2>6. CASE \E crash \in {<<>>, <<2>>} : SendBoot(crash)
      <3>1. PICK crash \in {<<>>, <<2>>} : SendBoot(crash)
        BY <2>6
      <3>2. crash \in Seq(Nat) /\ Len(crash) <= 1
        <4>1. CASE crash = <<>>
          BY <4>1
        <4>2. CASE crash = <<2>>
          BY <4>2
        <4>3. crash = <<>> \/ crash = <<2>>
          OBVIOUS
        <4> QED BY <4>1, <4>2, <4>3
      <3>3. WellFormed(BootDocument(meta, crash), "s_encoder")
        BY <3>2, BootWellFormed
      <3>4. doc'.calls = BootDocument(meta, crash)
        BY <3>1 DEF SendBoot, NoDoc
      <3> QED BY <3>3, <3>4, Zenon DEF DocumentsWellFormed
    <2>7. CASE UNCHANGED vars
      BY <1>2, <2>7 DEF vars, DocumentsWellFormed
    <2> QED BY <1>2, <2>2, <2>3, <2>4, <2>5, <2>6, <2>7 DEF Next
  <1> QED BY <1>1, <1>2, RecordsWhole, PTL DEF Spec

-----------------------------------------------------------------------------
(* The arguments of a message                                               *)

Known(d) == d \in Directives /\ Regular(d)

\* g is d after c.
Cats(g, c, d) == g = c \o d
After(g, c, d) ==
  /\ IsSeq(g) /\ Len(c) \in Nat /\ Len(d) \in Nat
  /\ Len(g) = Len(c) + Len(d)
  /\ \A i \in 1..Len(c) : g[i] = c[i]
  /\ \A i \in 1..Len(d) : g[Len(c) + i] = d[i]

LEMMA Catenated ==
  ASSUME NEW c, IsSeq(c), NEW d, IsSeq(d), NEW g, Cats(g, c, d)
  PROVE  After(g, c, d)
  <1>1. PICK C : c \in Seq(C)
    BY DEF IsSeq
  <1>2. PICK D : d \in Seq(D)
    BY DEF IsSeq
  <1>3. c \in Seq(C \cup D) /\ d \in Seq(C \cup D)
    BY <1>1, <1>2
  <1>0. g = c \o d
    BY DEF Cats
  <1>4. g \in Seq(C \cup D)
    BY <1>3, <1>0
  <1>5. Len(c) \in Nat /\ Len(d) \in Nat /\ Len(g) = Len(c) + Len(d)
    BY <1>3, <1>0
  <1>6. \A i \in 1..Len(c) : g[i] = c[i]
    BY <1>3, <1>0
  <1>7. \A i \in 1..Len(d) : g[Len(c) + i] = d[i]
    BY <1>3, <1>0, <1>5
  <1>8. IsSeq(g)
    BY <1>4 DEF IsSeq
  <1> QED BY <1>5, <1>6, <1>7, <1>8 DEF After

\* The words a caller passes for argument k.
Words(d, k) == [w \in 1..Passed(d) |-> [arg |-> k, word |-> w]]

\* A directive that the parser knows takes words enough for its entry, and
\* only "%s" makes the entry of a string.
Enough(a, isStr) ==
  a.type # "none" => IF isStr THEN a.type = "STR" /\ a.words = 1
                     ELSE a.type # "STR" /\ a.words = (a.len + 3) \div 4

LEMMA ArgsAreEnough ==
  ASSUME NEW d \in Directives
  PROVE  Enough(ArgOf(d), d.conv = "s")
  <1>1. \A m \in Mods : Enough(SignedArg[m], FALSE)
    BY DEF Mods, SignedArg, Entry, Skip, Enough
  <1>2. \A m \in Mods : Enough(UnsignedArg[m], FALSE)
    BY DEF Mods, UnsignedArg, Entry, Skip, Enough
  <1>3. \A m : Enough(FloatArg(m), FALSE)
    BY DEF FloatArg, Entry, Skip, Enough
  <1>4. d.mod \in Mods
    BY DEF Directives
  <1>0. CASE d.stars > 0
    BY <1>0 DEF ArgOf, Skip, Enough
  <1>5. CASE ~(d.stars > 0) /\ d.conv \in Signed
    BY <1>1, <1>4, <1>5 DEF ArgOf, Signed, Unsigned, Floating
  <1>6. CASE ~(d.stars > 0) /\ d.conv \in Unsigned
    BY <1>2, <1>4, <1>6 DEF ArgOf, Signed, Unsigned, Floating
  <1>7. CASE ~(d.stars > 0) /\ d.conv \in Floating
    BY <1>3, <1>4, <1>7 DEF ArgOf, Signed, Unsigned, Floating
  <1>8. CASE ~(d.stars > 0) /\ d.conv \notin Signed \cup Unsigned \cup Floating
    BY <1>4, <1>8 DEF ArgOf, Entry, Skip, Signed, Unsigned, Floating, Enough
  <1> QED BY <1>0, <1>5, <1>6, <1>7, <1>8

\* What is left of a va_list after n words.
LeftOf(ap, n) == SubSeq(ap, n + 1, Len(ap))

\* What the parser does with the next argument: its value is what the caller
\* passed, and what is left of the va_list begins with the argument after it.
LEMMA TakesArgument ==
  ASSUME NEW d, Known(d), NEW k, NEW rest, IsSeq(rest), NEW ap, Cats(ap, Words(d, k), rest)
  PROVE  /\ Value(ArgOf(d), Take(ap, ArgOf(d).words)) = Intended(d, k)
         /\ LeftOf(ap, ArgOf(d).words) = rest
  <1>1. PICK a : a = ArgOf(d)
    OBVIOUS
  <1>2. PICK n \in {0, 1, 2} : n = Passed(d)
    <2>1. d.stars = 0
      BY DEF Known, Regular, Directives, ArgOf, Skip
    <2> QED BY <2>1 DEF Passed
  <1>3. PICK W : W = Words(d, k)
    OBVIOUS
  <1>4. IsSeq(W) /\ Len(W) = n /\ \A w \in 1..n : W[w] = [arg |-> k, word |-> w]
    BY <1>2, <1>3, IsSeqOf DEF Words
  <1>5. a.words = n /\ a.type # "none" /\ a.len \in Nat /\ Enough(a, d.conv = "s")
    BY <1>1, <1>2, ArgLens, ArgsAreEnough DEF Known, Regular
  <1>0. ap = W \o rest
    BY <1>3 DEF Cats
  <1>6. ap = W \o rest /\ Len(ap) \in Nat /\ Len(ap) = n + Len(rest) /\ Len(rest) \in Nat
    BY <1>0, <1>4, Concatenated
  <1>7. \A w \in 1..n : ap[w] = [arg |-> k, word |-> w]
    <2>1. \A w \in 1..Len(W) : (W \o rest)[w] = W[w]
      BY <1>4, Concatenated
    <2> QED BY <1>4, <1>6, <2>1
  <1>8. PICK t : t = Take(ap, n)
    OBVIOUS
  <1>9. \A w \in 1..n : t[w] = [arg |-> k, word |-> w]
    BY <1>2, <1>6, <1>7, <1>8 DEF Take
  <1>10. Value(a, t) = Intended(d, k)
    <2>1. CASE d.conv = "s"
      <3>1. a.type = "STR" /\ t[1] = [arg |-> k, word |-> 1]
        BY <1>5, <1>9, <2>1 DEF Enough
      <3> QED BY <1>1, <2>1, <3>1 DEF Value, Intended
    <2>2. CASE d.conv # "s"
      <3>1. a.type # "STR" /\ n = (a.len + 3) \div 4
        BY <1>5, <2>2 DEF Enough
      <3>2. ASSUME NEW b \in 1..a.len PROVE t[(b - 1) \div 4 + 1] = [arg |-> k, word |-> (b - 1) \div 4 + 1]
        <4>1. (b - 1) \div 4 + 1 \in 1..n
          BY <1>5, <3>1
        <4> QED BY <1>9, <4>1
      <3> QED BY <1>1, <2>2, <3>1, <3>2 DEF Value, Intended
    <2> QED BY <2>1, <2>2
  <1>11. SubSeq(ap, n + 1, Len(ap)) = rest
    <2>1. PICK U : W \in Seq(U)
      BY <1>4 DEF IsSeq
    <2>2. PICK V : rest \in Seq(V)
      BY DEF IsSeq
    <2>3. W \in Seq(U \cup V) /\ rest \in Seq(U \cup V)
      BY <2>1, <2>2
    <2> QED BY <1>4, <1>6, <2>3
  <1> QED BY <1>1, <1>5, <1>8, <1>10, <1>11 DEF LeftOf

\* Argument k is in the buffer, from one place to another.
EntryAt(out, from, to, d, k) ==
  /\ ArgOf(d).len \in Nat /\ to = from + 2 + ArgOf(d).len
  /\ out[from + 1] = ArgOf(d).type /\ out[from + 2] = ArgOf(d).len
  /\ \A b \in 1..ArgOf(d).len : out[from + 2 + b] = Intended(d, k)[b]

\* The buffer begins with the first n arguments; entry k ends at at[k].
Begins(format, out, n, at) ==
  /\ IsSeq(out) /\ at[0] = 0
  /\ \A k \in 0..n : at[k] \in Nat /\ 2 * k <= at[k] /\ at[k] <= Len(out)
  /\ \A k \in 1..n : EntryAt(out, at[k - 1], at[k], format[k], k)
\* It holds nothing else.
Packed(format, out, n, at) == Begins(format, out, n, at) /\ at[n] = Len(out)

LEMMA TwoOf ==
  ASSUME NEW x, NEW y
  PROVE  IsSeq(<<x, y>>) /\ Len(<<x, y>>) = 2 /\ <<x, y>>[1] = x /\ <<x, y>>[2] = y
  <1>1. <<x, y>> \in Seq({x, y})
    OBVIOUS
  <1> QED BY <1>1 DEF IsSeq

LEMMA AppendsTwo ==
  ASSUME NEW out, IsSeq(out), NEW h, IsSeq(h), Len(h) = 2, NEW g, Cats(g, out, h)
  PROVE  /\ IsSeq(g) /\ Len(out) \in Nat /\ Len(g) = Len(out) + 2
         /\ \A i \in 1..Len(out) : g[i] = out[i]
         /\ g[Len(out) + 1] = h[1] /\ g[Len(out) + 2] = h[2]
  <1>1. After(g, out, h)
    BY Catenated, Zenon
  <1>2. PICK n : n = Len(out)
    OBVIOUS
  <1>3. n \in Nat /\ \A i \in 1..2 : g[n + i] = h[i]
    BY <1>1, <1>2 DEF After
  <1>4. g[n + 1] = h[1] /\ g[n + 2] = h[2]
    BY <1>3
  <1> QED BY <1>1, <1>2, <1>4 DEF After

\* new is an entry, of h and then v, after out.
EntryAfter(new, out, h, v, len) ==
  /\ IsSeq(new) /\ Len(new) = Len(out) + 2 + len
  /\ \A i \in 1..Len(out) : new[i] = out[i]
  /\ new[Len(out) + 1] = h[1] /\ new[Len(out) + 2] = h[2]
  /\ \A i \in 1..len : new[Len(out) + 2 + i] = v[i]

LEMMA AppendsEntry ==
  ASSUME NEW out, IsSeq(out), NEW h, IsSeq(h), Len(h) = 2, NEW v, IsSeq(v), NEW len, len = Len(v),
         NEW g, Cats(g, out, h), NEW new, Cats(new, g, v)
  PROVE  EntryAfter(new, out, h, v, len)
  <1>1. PICK n : n = Len(out)
    OBVIOUS
  <1>2. /\ IsSeq(g) /\ n \in Nat /\ Len(g) = n + 2
        /\ \A i \in 1..n : g[i] = out[i]
        /\ g[n + 1] = h[1] /\ g[n + 2] = h[2]
    BY <1>1, AppendsTwo
  <1>3. After(new, g, v)
    BY <1>2, Catenated, Zenon
  <1>4. /\ IsSeq(new) /\ len \in Nat /\ Len(new) = n + 2 + len
        /\ \A i \in 1..n + 2 : new[i] = g[i]
        /\ \A i \in 1..len : new[n + 2 + i] = v[i]
    BY <1>2, <1>3 DEF After
  <1>5. /\ \A i \in 1..n : new[i] = out[i]
        /\ new[n + 1] = h[1] /\ new[n + 2] = h[2]
    BY <1>2, <1>4
  <1> QED BY <1>1, <1>4, <1>5 DEF EntryAfter

\* There is room for an entry with a value of this length.
Fits(out, len) == Len(out) + 2 + len <= MaxArgs

\* new is an entry of a, with value v, after out.
Grows(new, out, a, v) == new = out \o <<a.type, a.len>> \o v
Succ(n, m) == m = n + 1

LEMMA PacksEntry ==
  ASSUME NEW format, NEW out, NEW n \in Nat, NEW at, Packed(format, out, n, at),
         NEW m, Succ(n, m), NEW d, d = format[m], Known(d), NEW a, a = ArgOf(d), Fits(out, a.len),
         NEW v, v = Intended(d, m), NEW new, Grows(new, out, a, v)
  PROVE  /\ Len(new) <= MaxArgs /\ new # out
         /\ \E e : Packed(format, new, m, e)
  <1>1. m = n + 1 /\ new = out \o <<a.type, a.len>> \o v
    BY DEF Succ, Grows
  <1>2. a.len \in Nat
    BY ArgLens DEF Known
  <1>6. IsSeq(v) /\ Len(v) = a.len
    BY <1>2, IsSeqOf DEF Intended
  <1>8. IsSeq(out) /\ Len(out) \in Nat
    BY DEF Packed, Begins, IsSeq
  <1>10. /\ IsSeq(new) /\ Len(new) = Len(out) + 2 + a.len
         /\ \A i \in 1..Len(out) : new[i] = out[i]
         /\ new[Len(out) + 1] = a.type /\ new[Len(out) + 2] = a.len
         /\ \A i \in 1..a.len : new[Len(out) + 2 + i] = v[i]
    <2>1. PICK h : h = <<a.type, a.len>>
      OBVIOUS
    <2>2. IsSeq(h) /\ Len(h) = 2 /\ h[1] = a.type /\ h[2] = a.len
      BY <2>1, TwoOf
    <2>3. PICK g : g = out \o h
      OBVIOUS
    <2>4. Cats(g, out, h)
      BY <2>3 DEF Cats
    <2>5. Cats(new, g, v)
      BY <1>1, <2>1, <2>3 DEF Cats
    <2>6. a.len = Len(v)
      BY <1>6
    <2>7. EntryAfter(new, out, h, v, a.len)
      BY <1>6, <1>8, <2>2, <2>4, <2>5, <2>6, AppendsEntry, Zenon
    <2> QED BY <2>2, <2>7 DEF EntryAfter
  <1> DEFINE e == [k \in 0..n + 1 |-> IF k = n + 1 THEN Len(new) ELSE at[k]]
  <1>11. e[n + 1] = Len(new) /\ \A k \in 0..n : e[k] = at[k]
    OBVIOUS
  <1> HIDE DEF e
  <1>12. /\ at[0] = 0 /\ at[n] = Len(out)
         /\ \A k \in 0..n : at[k] \in Nat /\ 2 * k <= at[k] /\ at[k] <= Len(out)
         /\ \A k \in 1..n : EntryAt(out, at[k - 1], at[k], format[k], k)
    BY DEF Packed, Begins
  <1>13. ASSUME NEW k \in 0..n + 1 PROVE e[k] \in Nat /\ 2 * k <= e[k] /\ e[k] <= Len(new)
    <2>1. CASE k = n + 1
      <3>1. 2 * n <= Len(out)
        BY <1>12
      <3> QED BY <1>2, <1>8, <1>10, <1>11, <2>1, <3>1
    <2>2. CASE k # n + 1
      <3>1. k \in 0..n
        BY <2>2
      <3>2. e[k] = at[k] /\ at[k] \in Nat /\ 2 * k <= at[k] /\ at[k] <= Len(out)
        BY <1>11, <1>12, <3>1
      <3>3. Len(out) <= Len(new)
        BY <1>2, <1>8, <1>10
      <3> QED BY <1>2, <1>8, <1>10, <3>2, <3>3
    <2> QED BY <2>1, <2>2
  <1>14. ASSUME NEW k \in 1..n + 1 PROVE EntryAt(new, e[k - 1], e[k], format[k], k)
    <2>1. CASE k = n + 1
      <3>1. e[k - 1] = Len(out) /\ e[k] = Len(out) + 2 + a.len /\ format[k] = d
        BY <1>1, <1>10, <1>11, <1>12, <2>1
      <3>2. \A i \in 1..a.len : new[Len(out) + 2 + i] = Intended(d, k)[i]
        BY <1>1, <1>10, <2>1
      <3> QED BY <1>1, <1>2, <1>10, <3>1, <3>2 DEF EntryAt
    <2>2. CASE k # n + 1
      <3>1. k \in 1..n /\ k - 1 \in 0..n /\ k \in 0..n
        BY <2>2
      <3>2. e[k - 1] = at[k - 1] /\ e[k] = at[k] /\ EntryAt(out, at[k - 1], at[k], format[k], k)
        BY <1>11, <1>12, <3>1
      <3>3. PICK len, f, t : len = ArgOf(format[k]).len /\ f = at[k - 1] /\ t = at[k]
        OBVIOUS
      <3>4. f \in Nat /\ t \in Nat /\ t <= Len(out)
        BY <1>12, <3>1, <3>3
      <3>5. /\ t = f + 2 + len /\ len \in Nat
            /\ out[f + 1] = ArgOf(format[k]).type /\ out[f + 2] = len
            /\ \A b \in 1..len : out[f + 2 + b] = Intended(format[k], k)[b]
        BY <3>2, <3>3 DEF EntryAt
      <3>6. \A i \in 1..Len(out) : new[i] = out[i]
        BY <1>10
      <3>7. f + 1 \in 1..Len(out) /\ f + 2 \in 1..Len(out) /\ \A b \in 1..len : f + 2 + b \in 1..Len(out)
        BY <1>8, <3>4, <3>5
      <3>8. new[f + 1] = out[f + 1] /\ new[f + 2] = out[f + 2]
        BY <3>6, <3>7
      <3>9. \A b \in 1..len : new[f + 2 + b] = out[f + 2 + b]
        BY <3>6, <3>7
      <3>10. EntryAt(new, f, t, format[k], k)
        BY <3>3, <3>5, <3>8, <3>9 DEF EntryAt
      <3> QED BY <3>2, <3>3, <3>10
    <2> QED BY <2>1, <2>2
  <1>15. e[0] = 0
    BY <1>11, <1>12
  <1>16. Packed(format, new, m, e)
    BY <1>1, <1>10, <1>11, <1>13, <1>14, <1>15 DEF Packed, Begins
  <1>17. Len(new) <= MaxArgs /\ new # out
    BY <1>2, <1>8, <1>10 DEF Fits
  <1> QED BY <1>16, <1>17

\* The arguments end with the n-th: the next one does not fit.
EndsAt(format, out, n) ==
  n < Len(format) /\ ~Fits(out, ArgOf(format[n + 1]).len)

\* What the parser has done after k directives: n arguments are in the buffer,
\* and n falls behind k only after one that did not fit.
Holds(format, R, st, k, n, at) ==
  /\ Packed(format, st.out, n, at) /\ Len(st.out) <= MaxArgs
  /\ st.full = FALSE => n = k /\ st.ap = R[k]
  /\ st.full # FALSE => EndsAt(format, st.out, n)
ParseInv(format, R, st, k) == \E at : \E n \in 0..k : Holds(format, R, st, k, n, at)

LEMMA ParseStops ==
  ASSUME NEW st, NEW a, st.full = TRUE
  PROVE  ParseArg(st, a) = st
  BY DEF ParseArg

\* The parsing goes on after the argument, or ends because nothing was appended.
Proceeds(new, st, a, old, out) ==
  /\ new.out = out /\ new.ap = LeftOf(st.ap, a.words)
  /\ out = old => new.full = TRUE
  /\ out # old => new.full = FALSE

LEMMA ParseGoesOn ==
  ASSUME NEW st, st.full = FALSE, NEW a, a.type # "none", NEW old, old = st.out,
         NEW out, out = AppendArg(old, a, Take(st.ap, a.words)), NEW new, new = ParseArg(st, a)
  PROVE  Proceeds(new, st, a, old, out)
  <1>1. new = Parsed(st, a, out)
    BY DEF ParseArg
  <1>2. PICK b \in BOOLEAN : b = (a.type # "none" /\ out = old)
    BY Zenon
  <1>3. Parsed(st, a, out) = [ap |-> LeftOf(st.ap, a.words), out |-> out, full |-> b]
    BY <1>2, Zenon DEF Parsed, LeftOf
  <1>4. /\ new.out = out /\ new.ap = LeftOf(st.ap, a.words)
        /\ new.full = b
    BY <1>1, <1>3
  <1>5. out = old => b = TRUE
    BY <1>2, Zenon
  <1>6. out # old => b = FALSE
    BY <1>2, Zenon
  <1> QED BY <1>4, <1>5, <1>6 DEF Proceeds

LEMMA ParseKeeps ==
  ASSUME NEW format, Len(format) \in Nat, NEW R, NEW k \in Nat, k < Len(format),
         NEW st, st.full \in BOOLEAN, ParseInv(format, R, st, k),
         NEW m, m = k + 1, NEW d, d = format[m], Known(d),
         NEW rest, rest = R[m], IsSeq(rest), Cats(R[k], Words(d, m), rest),
         NEW new, new = ParseDirective(st, d)
  PROVE  new.full \in BOOLEAN /\ ParseInv(format, R, new, m)
  <1>1. PICK a : a = ArgOf(d)
    OBVIOUS
  <1>2. new = ParseArg(st, a)
    BY <1>1 DEF ParseDirective
  <1>3. PICK at : \E n \in 0..k : Holds(format, R, st, k, n, at)
    BY DEF ParseInv
  <1>4. PICK n \in 0..k : Holds(format, R, st, k, n, at)
    BY <1>3
  <1>5. n \in 0..m /\ m \in 0..m
    OBVIOUS
  <1>6. CASE st.full = TRUE
    <2>1. new = st
      BY <1>2, <1>6, ParseStops
    <2>2. Holds(format, R, new, m, n, at)
      BY <1>4, <1>6, <2>1 DEF Holds
    <2> QED BY <1>5, <1>6, <2>1, <2>2 DEF ParseInv
  <1>7. CASE st.full = FALSE
    <2>1. n = k /\ st.ap = R[k] /\ Packed(format, st.out, n, at) /\ Len(st.out) <= MaxArgs
      BY <1>4, <1>7 DEF Holds
    <2>2. PICK out, old : out = AppendArg(old, a, Take(st.ap, a.words)) /\ old = st.out
      OBVIOUS
    <2>3. a.type # "none" /\ a.len \in Nat
      BY <1>1, ArgLens DEF Known, Regular
    <2>4. /\ new.out = out /\ new.ap = LeftOf(st.ap, a.words)
          /\ out = old => new.full = TRUE
          /\ out # old => new.full = FALSE
      <3>1. Proceeds(new, st, a, old, out)
        BY <1>2, <1>7, <2>2, <2>3, ParseGoesOn, Zenon
      <3> QED BY <3>1 DEF Proceeds
    <2>5. Cats(st.ap, Words(d, m), rest)
      BY <2>1
    <2>6. PICK v : v = Intended(d, m)
      OBVIOUS
    <2>7. Value(a, Take(st.ap, a.words)) = v /\ new.ap = rest
      BY <1>1, <2>4, <2>5, <2>6, TakesArgument
    <2>10. Len(old) \in Nat /\ MaxArgs \in Nat
      BY <2>1, <2>2, ArgsAssumption DEF Packed, Begins, IsSeq
    <2>8. CASE ~Fits(old, a.len)
      <3>1. out = old
        BY <2>2, <2>3, <2>8, <2>10 DEF AppendArg, Fits
      <3>2. new.out = old /\ new.full = TRUE
        BY <2>2, <2>4, <3>1
      <3>3. n < Len(format) /\ format[n + 1] = d
        BY <2>1
      <3>4. EndsAt(format, new.out, n)
        BY <1>1, <2>8, <3>2, <3>3 DEF EndsAt
      <3>5. Holds(format, R, new, m, n, at)
        BY <2>1, <2>2, <3>2, <3>4 DEF Holds
      <3> QED BY <1>5, <3>2, <3>5 DEF ParseInv
    <2>9. CASE Fits(old, a.len)
      <3>1. out = old \o <<a.type, a.len>> \o v
        <4>1. PICK ws : ws = Take(st.ap, a.words)
          OBVIOUS
        <4>2. ~(Len(old) + 2 + a.len > MaxArgs)
          BY <2>3, <2>9, <2>10 DEF Fits
        <4>3. AppendArg(old, a, ws) = old \o <<a.type, a.len>> \o Value(a, ws)
          BY <4>2 DEF AppendArg
        <4> QED BY <2>2, <2>7, <4>1, <4>3
      <3>2. Packed(format, old, k, at) /\ k \in Nat /\ Succ(k, m) /\ Grows(out, old, a, v)
        BY <2>1, <2>2, <3>1 DEF Succ, Grows
      <3>3. /\ Len(out) <= MaxArgs /\ out # old
            /\ \E e : Packed(format, out, m, e)
        BY <1>1, <2>6, <2>9, <3>2, PacksEntry, Zenon
      <3>4. PICK e : Packed(format, out, m, e)
        BY <3>3
      <3>5. new.full = FALSE /\ new.out = out /\ new.ap = R[m]
        BY <2>2, <2>4, <2>7, <3>3
      <3>6. Holds(format, R, new, m, m, e)
        BY <3>3, <3>4, <3>5 DEF Holds
      <3> QED BY <1>5, <3>5, <3>6 DEF ParseInv
    <2> QED BY <2>8, <2>9
  <1> QED BY <1>6, <1>7

\* One more directive, of whatever kind: what is in the buffer stays.
Extends(out, new) ==
  IsSeq(new) /\ Len(out) <= Len(new) /\ Len(new) <= MaxArgs /\ \A i \in 1..Len(out) : new[i] = out[i]

LEMMA AppendExtends ==
  ASSUME NEW out, IsSeq(out), Len(out) <= MaxArgs, NEW a, a.len \in Nat, NEW words
  PROVE  Extends(out, AppendArg(out, a, words))
  <1>1. Len(out) \in Nat /\ MaxArgs \in Nat
    BY ArgsAssumption DEF IsSeq
  <1>2. CASE ~Fits(out, a.len)
    <2>1. AppendArg(out, a, words) = out
      BY <1>1, <1>2 DEF AppendArg, Fits
    <2> QED BY <2>1 DEF Extends
  <1>3. CASE Fits(out, a.len)
    <2>1. PICK v : v = Value(a, words)
      OBVIOUS
    <2>2. IsSeq(v) /\ Len(v) = a.len
      BY <2>1, IsSeqOf DEF Value
    <2>3. PICK h : h = <<a.type, a.len>>
      OBVIOUS
    <2>4. IsSeq(h) /\ Len(h) = 2
      BY <2>3, TwoOf
    <2>5. PICK g : g = h \o v
      OBVIOUS
    <2>6. PICK new : new = out \o g
      OBVIOUS
    <2>7. After(g, h, v)
      BY <2>2, <2>4, <2>5, Catenated DEF Cats
    <2>8. After(new, out, g)
      <3>1. IsSeq(g)
        BY <2>7 DEF After
      <3>2. Cats(new, out, g)
        BY <2>6 DEF Cats
      <3> QED BY <3>1, <3>2, Catenated
    <2>9. AppendArg(out, a, words) = out \o h \o v
      BY <1>1, <1>3, <2>1, <2>3 DEF AppendArg, Fits
    <2>10. out \o h \o v = new
      <3>1. PICK U, V, W : out \in Seq(U) /\ h \in Seq(V) /\ v \in Seq(W)
        BY <2>2, <2>4 DEF IsSeq
      <3>2. out \in Seq(U \cup V \cup W) /\ h \in Seq(U \cup V \cup W) /\ v \in Seq(U \cup V \cup W)
        BY <3>1
      <3> QED BY <2>5, <2>6, <3>2
    <2>11. Len(new) = Len(out) + 2 + a.len
      BY <1>1, <2>2, <2>4, <2>7, <2>8 DEF After
    <2> QED BY <1>1, <1>3, <2>8, <2>9, <2>10, <2>11 DEF After, Extends, Fits
  <1> QED BY <1>2, <1>3

Parsing(st) == st.full \in BOOLEAN /\ IsSeq(st.out) /\ Len(st.out) <= MaxArgs
ParsedOn(st, new) ==
  /\ new.full \in BOOLEAN /\ Extends(st.out, new.out)
  /\ st.full = TRUE => new.out = st.out

LEMMA ParseExtends ==
  ASSUME NEW st, Parsing(st), NEW d \in Directives
  PROVE  ParsedOn(st, ParseDirective(st, d))
  <1> USE DEF Parsing, ParsedOn
  <1>1. PICK a, new : a = ArgOf(d) /\ new = ParseDirective(st, d)
    OBVIOUS
  <1>2. new = ParseArg(st, a) /\ a.len \in Nat
    BY <1>1, ArgLens DEF ParseDirective
  <1>3. Extends(st.out, st.out)
    BY DEF Extends, IsSeq
  <1>4. CASE st.full = TRUE
    BY <1>1, <1>2, <1>3, <1>4, ParseStops
  <1>5. CASE st.full = FALSE
    <2>1. PICK out : out = IF a.type = "none" THEN st.out ELSE AppendArg(st.out, a, Take(st.ap, a.words))
      OBVIOUS
    <2>2. Extends(st.out, out)
      BY <1>2, <1>3, <2>1, AppendExtends
    <2>3. new = Parsed(st, a, out)
      BY <1>2, <1>5, <2>1 DEF ParseArg
    <2>4. PICK b \in BOOLEAN : b = (a.type # "none" /\ out = st.out)
      BY Zenon
    <2>5. Parsed(st, a, out) = [ap |-> LeftOf(st.ap, a.words), out |-> out, full |-> b]
      BY <2>4, Zenon DEF Parsed, LeftOf
    <2>6. new.out = out /\ new.full = b
      BY <2>3, <2>5
    <2> QED BY <1>1, <1>5, <2>2, <2>4, <2>6
  <1> QED BY <1>4, <1>5

LEMMA ExtendsBegins ==
  ASSUME NEW format, NEW n \in Nat, NEW at, NEW out, Begins(format, out, n, at), NEW new, Extends(out, new)
  PROVE  Begins(format, new, n, at)
  <1>1. Len(out) \in Nat /\ Len(new) \in Nat
    BY DEF Begins, Extends, IsSeq
  <1>2. ASSUME NEW k \in 1..n PROVE EntryAt(new, at[k - 1], at[k], format[k], k)
    <2>1. EntryAt(out, at[k - 1], at[k], format[k], k)
      BY DEF Begins
    <2>2. k \in 0..n /\ k - 1 \in 0..n
      OBVIOUS
    <2>3. PICK f, t, len : f = at[k - 1] /\ t = at[k] /\ len = ArgOf(format[k]).len
      OBVIOUS
    <2>4. f \in Nat /\ t \in Nat /\ t <= Len(out) /\ len \in Nat /\ t = f + 2 + len
      BY <2>1, <2>2, <2>3 DEF Begins, EntryAt
    <2>5. \A i \in 1..t : new[i] = out[i]
      BY <1>1, <2>4 DEF Extends
    <2>6. f + 1 \in 1..t /\ f + 2 \in 1..t /\ \A b \in 1..len : f + 2 + b \in 1..t
      BY <2>4
    <2>7. /\ new[f + 1] = out[f + 1] /\ new[f + 2] = out[f + 2]
          /\ \A b \in 1..len : new[f + 2 + b] = out[f + 2 + b]
      BY <2>5, <2>6
    <2> QED BY <2>1, <2>3, <2>7 DEF EntryAt
  <1>3. \A k \in 0..n : at[k] \in Nat /\ 2 * k <= at[k] /\ at[k] <= Len(new)
    <2>1. Len(out) <= Len(new)
      BY DEF Extends
    <2>2. \A k \in 0..n : at[k] \in Nat /\ 2 * k <= at[k] /\ at[k] <= Len(out)
      BY DEF Begins
    <2> QED BY <1>1, <2>1, <2>2
  <1> QED BY <1>2, <1>3 DEF Begins, Extends

\* What is parsed behind directive p only adds to what it left, and nothing at
\* all once an argument has not fitted.
Behind(stp, st) == /\ st.full \in BOOLEAN /\ Extends(stp.out, st.out)
                   /\ stp.full = TRUE => st.full = TRUE /\ st.out = stp.out

LEMMA BehindStep ==
  ASSUME NEW stp, IsSeq(stp.out), NEW st, Behind(stp, st), NEW d \in Directives
  PROVE  Behind(stp, ParseDirective(st, d))
  <1>1. PICK new : new = ParseDirective(st, d)
    OBVIOUS
  <1>2. IsSeq(st.out) /\ Len(st.out) <= MaxArgs /\ st.full \in BOOLEAN /\ Extends(stp.out, st.out)
    BY DEF Behind, Extends
  <1>3. new.full \in BOOLEAN /\ Extends(st.out, new.out) /\ (st.full = TRUE => new.out = st.out)
    <2>1. /\ ParseDirective(st, d).full \in BOOLEAN
          /\ Extends(st.out, ParseDirective(st, d).out)
          /\ st.full = TRUE => ParseDirective(st, d).out = st.out
      <3>1. Parsing(st)
        BY <1>2 DEF Parsing
      <3>2. ParsedOn(st, ParseDirective(st, d))
        BY <3>1, ParseExtends, Zenon
      <3> QED BY <3>2 DEF ParsedOn
    <2> QED BY <1>1, <2>1
  <1>4. st.full = TRUE => new = st
    <2>1. st.full = TRUE => ParseArg(st, ArgOf(d)) = st
      BY ParseStops
    <2> QED BY <1>1, <2>1 DEF ParseDirective
  <1>5. Extends(stp.out, new.out)
    <2>1. PICK u, v, w : u = stp.out /\ v = st.out /\ w = new.out
      OBVIOUS
    <2>2. Extends(u, v) /\ Extends(v, w) /\ Len(u) \in Nat /\ Len(v) \in Nat /\ Len(w) \in Nat
      BY <1>2, <1>3, <2>1 DEF Extends, IsSeq
    <2>3. \A i \in 1..Len(u) : i \in 1..Len(v)
      BY <2>2 DEF Extends
    <2>4. Extends(u, w)
      BY <2>2, <2>3, ArgsAssumption DEF Extends
    <2> QED BY <2>1, <2>4
  <1> QED BY <1>1, <1>3, <1>4, <1>5 DEF Behind

\* The buffer of a message begins with its first arguments, up to the first
\* that does not fit, as far as the directives are known.
LEMMA TlvPacked ==
  ASSUME NEW format \in Seq(Directives), NEW p \in 0..Len(format), \A k \in 1..p : Known(format[k])
  PROVE  \E at : \E n \in 0..p :
           /\ Begins(format, Tlv(format), n, at) /\ Len(Tlv(format)) <= MaxArgs
           /\ n # p => at[n] = Len(Tlv(format)) /\ EndsAt(format, Tlv(format), n)
  <1>1. PICK f : (\A k \in 0..Len(format) : TlvStep(format, f, k)) /\ Tlv(format) = f[Len(format)].out
    BY TlvDefined
  <1>2. PICK N \in Nat : N = Len(format)
    OBVIOUS
  <1>3. PICK seqs : seqs = [k \in 1..Len(format) |-> [w \in 1..Passed(format[k]) |-> [arg |-> k, word |-> w]]]
    OBVIOUS
  <1>4. IsSeq(seqs) /\ Len(seqs) = N
    BY <1>2, <1>3, IsSeqOf
  <1>5. \A k \in 1..N : seqs[k] = Words(format[k], k)
    BY <1>2, <1>3 DEF Words
  <1>6. ASSUME NEW k \in 1..N PROVE IsSeq(seqs[k])
    <2>1. Passed(format[k]) \in Nat
      <3>1. format[k] \in Directives
        BY <1>2
      <3> QED BY <3>1 DEF Passed, Directives
    <2>2. IsSeq(Words(format[k], k))
      BY <2>1, IsSeqOf DEF Words
    <2> QED BY <1>5, <2>2
  <1>7. PICK R : /\ R[0] = FlattenSeq(seqs)
                 /\ \A k \in 0..N : IsSeq(R[k])
                 /\ \A k \in 0..N : k # N => R[k] = seqs[k + 1] \o R[k + 1]
    BY <1>4, <1>6, FlattenRest
  <1> DEFINE S == {k \in 0..p : f[k].full \in BOOLEAN /\ ParseInv(format, R, f[k], k)}
  <1>8. 0 \in S
    <2>1. f[0] = [ap |-> VaList(format), out |-> <<>>, full |-> FALSE]
      <3>1. TlvStep(format, f, 0)
        BY <1>1, <1>2
      <3> QED BY <3>1, Zenon DEF TlvStep
    <2>2. VaList(format) = R[0]
      BY <1>3, <1>7 DEF VaList
    <2>3. f[0].out = <<>> /\ f[0].ap = R[0] /\ f[0].full = FALSE
      BY <2>1, <2>2
    <2>4. PICK out : out = f[0].out
      OBVIOUS
    <2>5. IsSeq(out) /\ Len(out) = 0
      BY <2>3, <2>4 DEF IsSeq
    <2> DEFINE at == [k \in {0} |-> 0]
    <2>6. at[0] = 0 /\ \A k \in 0..0 : k = 0
      OBVIOUS
    <2> HIDE DEF at
    <2>7. Packed(format, out, 0, at)
      BY <2>5, <2>6 DEF Packed, Begins
    <2>8. Len(out) <= MaxArgs
      BY <2>5, ArgsAssumption
    <2>9. 0 \in 0..0
      OBVIOUS
    <2>10. Holds(format, R, f[0], 0, 0, at)
      BY <2>3, <2>4, <2>7, <2>8 DEF Holds
    <2>11. ParseInv(format, R, f[0], 0)
      BY <2>9, <2>10 DEF ParseInv
    <2>12. f[0].full \in BOOLEAN
      BY <2>3, Zenon
    <2> QED BY <1>2, <2>11, <2>12
  <1>9. ASSUME NEW n \in 0..p, n # p, n \in S PROVE n + 1 \in S
    <2>1. n + 1 \in 1..N /\ n \in 0..N /\ n + 1 \in 1..p /\ n + 1 \in 0..p /\ n # N /\ n + 1 # 0 /\ n + 1 - 1 = n /\ n < N /\ n \in Nat
      BY <1>2, <1>9
    <2>2. f[n + 1] = ParseDirective(f[n], format[n + 1])
      BY <1>1, <1>2, <2>1 DEF TlvStep
    <2>3. Known(format[n + 1])
      BY <1>2, <2>1
    <2>0. PICK m : m = n + 1
      OBVIOUS
    <2>4. IsSeq(R[m]) /\ R[n] = Words(format[m], m) \o R[m]
      <3>1. m \in 1..N /\ m \in 0..N /\ n \in 0..N /\ n # N
        BY <2>0, <2>1
      <3>2. IsSeq(R[m]) /\ R[n] = seqs[n + 1] \o R[n + 1]
        BY <1>7, <3>1
      <3>3. seqs[m] = Words(format[m], m)
        BY <1>5, <3>1
      <3> QED BY <2>0, <3>2, <3>3
    <2>7. Cats(R[n], Words(format[m], m), R[m])
      BY <2>4 DEF Cats
    <2>5. f[n].full \in BOOLEAN /\ ParseInv(format, R, f[n], n)
      BY <1>9
    <2>8. PICK d, rest, st, new : d = format[m] /\ rest = R[m] /\ st = f[n] /\ new = f[m]
      OBVIOUS
    <2>9. new = ParseDirective(st, d) /\ Known(d) /\ IsSeq(rest) /\ Cats(R[n], Words(d, m), rest)
      BY <2>0, <2>2, <2>3, <2>4, <2>7, <2>8
    <2>10. st.full \in BOOLEAN /\ ParseInv(format, R, st, n)
      BY <2>5, <2>8
    <2>11. Len(format) \in Nat /\ n \in Nat /\ n < Len(format)
      BY <1>2, <2>1
    <2>6. new.full \in BOOLEAN /\ ParseInv(format, R, new, m)
      <3> HIDE DEF S
      <3> QED BY <2>0, <2>8, <2>9, <2>10, <2>11, ParseKeeps
    <2> QED BY <2>0, <2>1, <2>6, <2>8
  <1>10. \A n \in 0..p : n \in S
    <2>1. p \in Nat
      BY <1>2
    <2> HIDE DEF S
    <2> QED BY <1>8, <1>9, <2>1, ToTheEnd
  <1>11. f[p].full \in BOOLEAN /\ ParseInv(format, R, f[p], p)
    <2>1. p \in 0..p
      BY <1>2
    <2> QED BY <1>10, <2>1
  <1>12. PICK at : \E n \in 0..p : Holds(format, R, f[p], p, n, at)
    BY <1>11 DEF ParseInv
  <1>13. PICK n \in 0..p : Holds(format, R, f[p], p, n, at)
    BY <1>12
  <1>14. IsSeq(f[p].out) /\ Len(f[p].out) <= MaxArgs /\ Begins(format, f[p].out, n, at) /\ at[n] = Len(f[p].out)
    BY <1>13 DEF Holds, Packed, Begins
  <1> DEFINE T == {k \in 0..N : k >= p => Behind(f[p], f[k])}
  <1>15. Behind(f[p], f[p])
    BY <1>11, <1>14 DEF Behind, Extends, IsSeq
  <1>16. 0 \in T
    <2>1. 0 >= p => p = 0
      BY <1>2
    <2> QED BY <1>15, <2>1
  <1>17. ASSUME NEW k \in 0..N, k # N, k \in T PROVE k + 1 \in T
    <2>1. k + 1 \in 1..N /\ k + 1 \in 0..N /\ k + 1 # 0 /\ k + 1 - 1 = k
      BY <1>2, <1>17
    <2>2. PICK m : m = k + 1
      OBVIOUS
    <2>3. f[m] = ParseDirective(f[k], format[m]) /\ format[m] \in Directives
      BY <1>1, <1>2, <2>1, <2>2 DEF TlvStep
    <2>4. CASE k >= p
      <3>1. Behind(f[p], f[k])
        BY <1>17, <2>4
      <3>2. Behind(f[p], f[m])
        BY <1>14, <2>3, <3>1, BehindStep
      <3> QED BY <2>1, <2>2, <3>2
    <2>5. CASE ~(k >= p)
      <3>1. k + 1 >= p => k + 1 = p
        BY <2>5
      <3> QED BY <1>15, <2>1, <3>1
    <2> QED BY <2>4, <2>5
  <1>18. \A k \in 0..N : k \in T
    <2> HIDE DEF T
    <2> QED BY <1>16, <1>17, ToTheEnd
  <1>19. Behind(f[p], f[N])
    <2>1. N \in 0..N /\ N >= p
      BY <1>2
    <2> QED BY <1>18, <2>1
  <1>20. PICK tlv : tlv = Tlv(format) /\ tlv = f[N].out
    BY <1>1, <1>2
  <1>21. Begins(format, tlv, n, at) /\ Len(tlv) <= MaxArgs
    <2>1. Extends(f[p].out, tlv) /\ n \in Nat
      BY <1>2, <1>19, <1>20 DEF Behind
    <2> QED BY <1>14, <2>1, ExtendsBegins DEF Extends
  <1>22. n # p => at[n] = Len(tlv) /\ EndsAt(format, tlv, n)
    <2> SUFFICES ASSUME n # p PROVE at[n] = Len(tlv) /\ EndsAt(format, tlv, n)
      OBVIOUS
    <2>1. f[p].full = TRUE /\ EndsAt(format, f[p].out, n)
      BY <1>11, <1>13 DEF Holds
    <2>2. tlv = f[p].out
      BY <1>19, <1>20, <2>1 DEF Behind
    <2> QED BY <1>14, <2>1, <2>2
  <1> QED BY <1>20, <1>21, <1>22

\* The value of the entry at f, and what it should be.
ValueAt(tlv, f, len) == SubSeq(tlv, f + 3, f + 2 + len)
Spells(tlv, f, len, v) ==
  f + 2 + len <= Len(tlv) /\ \A b \in 1..len : tlv[f + 2 + b] = v[b]

\* The bytes of an entry's value, read back.
LEMMA ReadsValue ==
  ASSUME NEW tlv, IsSeq(tlv), NEW f \in Nat, NEW len \in Nat,
         NEW v, v = [b \in 1..len |-> v[b]], Spells(tlv, f, len, v)
  PROVE  ValueAt(tlv, f, len) = v
  <1>0. f + 2 + len <= Len(tlv) /\ \A b \in 1..len : tlv[f + 2 + b] = v[b]
    BY DEF Spells
  <1>1. PICK U : tlv \in Seq(U)
    BY DEF IsSeq
  <1>2. Len(tlv) \in Nat
    BY <1>1
  <1>3. ASSUME NEW b \in 1..len PROVE v[b] \in U
    <2>1. f + 2 + b \in 1..Len(tlv)
      BY <1>0, <1>2
    <2>2. tlv[f + 2 + b] \in U
      BY <1>1, <2>1
    <2> QED BY <1>0, <2>2
  <1>4. v \in Seq(U) /\ Len(v) = len
    <2>1. v \in [1..len -> U]
      BY <1>3
    <2> QED BY <2>1
  <1>5. PICK w : w = SubSeq(tlv, f + 3, f + 2 + len)
    OBVIOUS
  <1>6. w \in Seq(U) /\ Len(w) = len
    <2>1. PICK lo \in Nat, hi \in Nat : lo = f + 3 /\ hi = f + 2 + len
      OBVIOUS
    <2>2. w = SubSeq(tlv, lo, hi)
      BY <1>5, <2>1
    <2>3. 1 <= lo /\ hi <= Len(tlv) /\ hi - lo + 1 = len
      BY <1>0, <2>1
    <2>4. w \in Seq(U)
      BY <1>1, <1>2, <2>2, <2>3
    <2>5. CASE len = 0
      BY <1>1, <1>2, <2>2, <2>3, <2>5
    <2>6. CASE len # 0
      BY <1>1, <1>2, <2>2, <2>3, <2>6
    <2> QED BY <2>4, <2>5, <2>6
  <1>7. ASSUME NEW b \in 1..len PROVE w[b] = v[b]
    <2>1. w[b] = tlv[f + 3 + b - 1]
      BY <1>0, <1>1, <1>2, <1>5
    <2>2. f + 3 + b - 1 = f + 2 + b
      OBVIOUS
    <2> QED BY <1>0, <2>1, <2>2
  <1>8. w = v
    <2>1. \A b \in 1..len : w[b] = v[b]
      BY <1>7
    <2> QED BY <1>4, <1>6, <2>1
  <1> QED BY <1>5, <1>8 DEF ValueAt

\* What encode_msg_args has read once j entries are behind it.
ReadHolds(format, st, at, j) ==
  /\ st.i = at[j] /\ IsSeq(st.args) /\ Len(st.args) = j
  /\ \A k \in 1..j : st.args[k].value = Intended(format[k], k)

LEMMA ReadStops ==
  ASSUME NEW tlv, NEW st, st.i = Len(tlv), Len(tlv) \in Nat
  PROVE  ReadArg(tlv, st) = st
  BY DEF ReadArg

LEMMA ReadKeeps ==
  ASSUME NEW format, NEW tlv, NEW n \in Nat, NEW at, Begins(format, tlv, n, at),
         NEW st, NEW j \in Nat, j < n, ReadHolds(format, st, at, j), NEW m, Succ(j, m)
  PROVE  ReadHolds(format, ReadArg(tlv, st), at, m)
  <1>1. m = j + 1 /\ m \in 1..n /\ j \in 0..n /\ m \in 0..n /\ m - 1 = j
    BY DEF Succ
  <1>2. PICK f, t, d, len : f = at[j] /\ t = at[m] /\ d = format[m] /\ len = ArgOf(d).len
    OBVIOUS
  <1>3. EntryAt(tlv, at[m - 1], at[m], format[m], m)
    BY <1>1 DEF Begins
  <1>4. EntryAt(tlv, f, t, d, m)
    BY <1>1, <1>2, <1>3
  <1>5. /\ len \in Nat /\ t = f + 2 + len /\ tlv[f + 2] = len
        /\ \A b \in 1..len : tlv[f + 2 + b] = Intended(d, m)[b]
    BY <1>2, <1>4 DEF EntryAt
  <1>6. IsSeq(tlv) /\ Len(tlv) \in Nat /\ f \in Nat /\ t \in Nat /\ t <= Len(tlv)
    BY <1>1, <1>2 DEF Begins, IsSeq
  <1>7. PICK v : v = Intended(d, m)
    OBVIOUS
  <1>8. v = [b \in 1..len |-> v[b]]
    BY <1>2, <1>7 DEF Intended
  <1>9. f + 2 + len <= Len(tlv) /\ \A b \in 1..len : tlv[f + 2 + b] = v[b]
    BY <1>5, <1>6, <1>7
  <1>10. ValueAt(tlv, f, len) = v
    <2>1. IsSeq(tlv) /\ f \in Nat /\ len \in Nat
      BY <1>5, <1>6
    <2>2. Spells(tlv, f, len, v)
      BY <1>9 DEF Spells
    <2> QED BY <1>8, <2>1, <2>2, ReadsValue, Zenon
  <1>11. PICK args : args = st.args
    OBVIOUS
  <1>12. /\ st.i = f /\ IsSeq(args) /\ Len(args) = j
         /\ \A k \in 1..j : args[k].value = Intended(format[k], k)
    BY <1>2, <1>11 DEF ReadHolds
  <1>13. PICK x : x = [type |-> tlv[f + 1], value |-> v]
    OBVIOUS
  <1>14. ReadArg(tlv, st) = [i |-> t, args |-> Append(args, x)]
    <2>1. ~(f >= Len(tlv))
      BY <1>5, <1>6
    <2>2. ReadArg(tlv, st) = [i |-> f + 2 + tlv[f + 2], args |-> Append(args, [type |-> tlv[f + 1], value |-> SubSeq(tlv, f + 3, f + 2 + tlv[f + 2])])]
      BY <1>11, <1>12, <2>1 DEF ReadArg
    <2> QED BY <1>5, <1>10, <1>13, <2>2 DEF ValueAt
  <1>15. PICK new : new = Append(args, x)
    OBVIOUS
  <1>16. IsSeq(new) /\ Len(new) = m /\ new[m] = x /\ \A k \in 1..j : new[k] = args[k]
    <2>1. PICK U : args \in Seq(U)
      BY <1>12 DEF IsSeq
    <2>2. args \in Seq(U \cup {x}) /\ x \in U \cup {x}
      BY <2>1
    <2>3. new \in Seq(U \cup {x}) /\ Len(new) = j + 1 /\ new[j + 1] = x
      BY <1>12, <1>15, <2>2
    <2>4. \A k \in 1..j : new[k] = args[k]
      BY <1>12, <1>15, <2>2
    <2> QED BY <1>1, <2>3, <2>4 DEF IsSeq
  <1>17. ASSUME NEW k \in 1..m PROVE new[k].value = Intended(format[k], k)
    <2>1. CASE k = m
      BY <1>2, <1>7, <1>13, <1>16, <2>1
    <2>2. CASE k # m
      <3>1. k \in 1..j
        BY <1>1, <2>2
      <3> QED BY <1>12, <1>16, <3>1
    <2> QED BY <2>1, <2>2
  <1> QED BY <1>2, <1>14, <1>15, <1>16, <1>17 DEF ReadHolds

\* Once n entries are behind, a read only appends to them.
ReadPast(format, st, n) ==
  /\ IsSeq(st.args) /\ n <= Len(st.args)
  /\ \A k \in 1..n : st.args[k].value = Intended(format[k], k)

LEMMA ReadsOn ==
  ASSUME NEW format, NEW tlv, NEW n \in Nat, NEW st, ReadPast(format, st, n)
  PROVE  ReadPast(format, ReadArg(tlv, st), n)
  <1>1. CASE st.i >= Len(tlv)
    BY <1>1 DEF ReadArg
  <1>2. CASE ~(st.i >= Len(tlv))
    <2>1. PICK x, args : /\ x = [type |-> tlv[st.i + 1], value |-> SubSeq(tlv, st.i + 3, st.i + 2 + tlv[st.i + 2])]
                         /\ args = st.args
      OBVIOUS
    <2>2. ReadArg(tlv, st).args = Append(args, x)
      BY <1>2, <2>1 DEF ReadArg
    <2>3. PICK U : args \in Seq(U)
      BY <2>1 DEF ReadPast, IsSeq
    <2>4. args \in Seq(U \cup {x}) /\ x \in U \cup {x}
      BY <2>3
    <2>5. /\ Append(args, x) \in Seq(U \cup {x}) /\ Len(Append(args, x)) = Len(args) + 1
          /\ Len(args) \in Nat /\ \A k \in 1..Len(args) : Append(args, x)[k] = args[k]
      BY <2>4
    <2>6. n <= Len(args) /\ \A k \in 1..n : args[k].value = Intended(format[k], k)
      BY <2>1 DEF ReadPast
    <2>7. \A k \in 1..n : k \in 1..Len(args)
      BY <2>5, <2>6
    <2> QED BY <2>2, <2>5, <2>6, <2>7 DEF ReadPast, IsSeq
  <1> QED BY <1>1, <1>2

\* After k reads: k entries are behind, or all n and what follows them.
ReadInv(format, tlv, st, at, n, k) ==
  /\ k <= n => ReadHolds(format, st, at, k)
  /\ k >= n => ReadPast(format, st, n) /\ (at[n] = Len(tlv) => ReadHolds(format, st, at, n))

\* What the buffer begins with is read back, entry by entry.
LEMMA ArgsRead ==
  ASSUME NEW format, NEW tlv, NEW n \in Nat, NEW at, Begins(format, tlv, n, at)
  PROVE  /\ n <= Len(Args(tlv)) /\ \A k \in 1..n : Args(tlv)[k].value = Intended(format[k], k)
         /\ at[n] = Len(tlv) => Len(Args(tlv)) = n
  <1>1. PICK N \in Nat : N = Len(tlv)
    BY DEF Begins, IsSeq
  <1>2. PICK f : (\A k \in 0..N : ArgsStep(tlv, f, k)) /\ Args(tlv) = f[N].args
    BY <1>1, ArgsDefined
  <1>3. at[0] = 0 /\ 2 * n <= N
    <2>1. n \in 0..n
      OBVIOUS
    <2>2. at[0] = 0 /\ at[n] \in Nat /\ 2 * n <= at[n] /\ at[n] <= Len(tlv)
      BY <2>1 DEF Begins
    <2> QED BY <1>1, <2>2
  <1>0. ASSUME NEW st, ReadHolds(format, st, at, n) PROVE ReadPast(format, st, n)
    BY <1>0 DEF ReadHolds, ReadPast
  <1> DEFINE S == {k \in 0..N : ReadInv(format, tlv, f[k], at, n, k)}
  <1>4. 0 \in S
    <2>1. ArgsStep(tlv, f, 0)
      BY <1>2
    <2>2. f[0].i = 0 /\ f[0].args = <<>>
      BY <2>1 DEF ArgsStep
    <2>3. PICK args : args = f[0].args
      OBVIOUS
    <2>4. IsSeq(args) /\ Len(args) = 0 /\ \A k \in 1..0 : FALSE
      BY <2>2, <2>3 DEF IsSeq
    <2>5. ReadHolds(format, f[0], at, 0)
      BY <1>3, <2>2, <2>3, <2>4 DEF ReadHolds
    <2>6. 0 >= n => n = 0
      OBVIOUS
    <2>7. ReadInv(format, tlv, f[0], at, n, 0)
      BY <1>0, <2>5, <2>6 DEF ReadInv
    <2> QED BY <2>7
  <1>5. ASSUME NEW k \in 0..N, k # N, k \in S PROVE k + 1 \in S
    <2>1. PICK m : m = k + 1 /\ m \in 0..N /\ m # 0 /\ m - 1 = k
      BY <1>1, <1>5
    <2>2. ArgsStep(tlv, f, m)
      BY <1>2, <2>1
    <2>3. f[m] = ReadArg(tlv, f[k])
      BY <2>1, <2>2 DEF ArgsStep
    <2>4. ReadInv(format, tlv, f[k], at, n, k)
      BY <1>5
    <2>6. CASE k < n
      <3>1. k \in Nat /\ Succ(k, m) /\ (m >= n => m = n)
        BY <2>1, <2>6 DEF Succ
      <3>4. ReadHolds(format, f[k], at, k)
        BY <2>4, <2>6, <3>1 DEF ReadInv
      <3>2. ReadHolds(format, ReadArg(tlv, f[k]), at, m)
        BY <2>6, <3>1, <3>4, ReadKeeps, Zenon
      <3>3. ReadInv(format, tlv, f[m], at, n, m)
        BY <1>0, <2>3, <3>1, <3>2 DEF ReadInv
      <3> QED BY <2>1, <3>3
    <2>7. CASE ~(k < n)
      <3>1. k >= n /\ m >= n /\ ~(m <= n)
        BY <2>1, <2>7
      <3>2. ReadPast(format, f[m], n)
        BY <2>3, <2>4, <3>1, ReadsOn DEF ReadInv
      <3>3. at[n] = Len(tlv) => ReadHolds(format, f[m], at, n)
        <4> SUFFICES ASSUME at[n] = Len(tlv) PROVE ReadHolds(format, f[m], at, n)
          OBVIOUS
        <4>1. ReadHolds(format, f[k], at, n)
          BY <2>4, <3>1 DEF ReadInv
        <4>2. f[k].i = Len(tlv) /\ Len(tlv) \in Nat
          BY <1>1, <4>1 DEF ReadHolds
        <4>3. f[m] = f[k]
          BY <2>3, <4>2, ReadStops
        <4> QED BY <4>1, <4>3
      <3>4. ReadInv(format, tlv, f[m], at, n, m)
        BY <3>1, <3>2, <3>3 DEF ReadInv
      <3> QED BY <2>1, <3>4
    <2> QED BY <2>6, <2>7
  <1>6. \A k \in 0..N : k \in S
    <2> HIDE DEF S
    <2> QED BY <1>4, <1>5, ToTheEnd
  <1>7. ReadInv(format, tlv, f[N], at, n, N)
    BY <1>6
  <1>8. N >= n
    BY <1>3
  <1> QED BY <1>2, <1>7, <1>8 DEF ReadInv, ReadHolds, ReadPast

\* The arguments of a message with this format.
Survives(format, tlv, args) ==
  /\ Len(tlv) <= MaxArgs
  /\ \A k \in 1..Len(format) : (\A j \in 1..k : Regular(format[j])) =>
       IF k <= Len(args) THEN args[k].value = Intended(format[k], k)
       ELSE Len(tlv) + 2 + ArgOf(format[Len(args) + 1]).len > MaxArgs

LEMMA FormatSurvives ==
  ASSUME NEW format \in Seq(Directives)
  PROVE  Survives(format, Tlv(format), Args(Tlv(format)))
  <1>1. PICK tlv, args : tlv = Tlv(format) /\ args = Args(tlv)
    OBVIOUS
  <1>2. Len(tlv) <= MaxArgs
    <2>1. 0 \in 0..Len(format) /\ \A k \in 1..0 : Known(format[k])
      OBVIOUS
    <2> QED BY <1>1, <2>1, TlvPacked
  <1>3. ASSUME NEW k \in 1..Len(format), \A j \in 1..k : Regular(format[j])
        PROVE  IF k <= Len(args) THEN args[k].value = Intended(format[k], k)
               ELSE Len(tlv) + 2 + ArgOf(format[Len(args) + 1]).len > MaxArgs
    <2>1. k \in 0..Len(format) /\ \A j \in 1..k : Known(format[j])
      BY <1>3 DEF Known
    <2>2. PICK at : \E n \in 0..k :
             /\ Begins(format, tlv, n, at) /\ Len(tlv) <= MaxArgs
             /\ n # k => at[n] = Len(tlv) /\ EndsAt(format, tlv, n)
      BY <1>1, <2>1, TlvPacked
    <2>3. PICK n \in 0..k :
             /\ Begins(format, tlv, n, at)
             /\ n # k => at[n] = Len(tlv) /\ EndsAt(format, tlv, n)
      BY <2>2
    <2>4. /\ n <= Len(args) /\ \A j \in 1..n : args[j].value = Intended(format[j], j)
          /\ at[n] = Len(tlv) => Len(args) = n
      BY <1>1, <2>3, ArgsRead
    <2>5. CASE n = k
      BY <2>4, <2>5
    <2>6. CASE n # k
      <3>1. Len(args) = n /\ n < k /\ ~Fits(tlv, ArgOf(format[n + 1]).len)
        BY <2>3, <2>4, <2>6 DEF EndsAt
      <3>2. PICK len : len = ArgOf(format[n + 1]).len
        OBVIOUS
      <3>3. len \in Nat
        <4>1. n + 1 \in 1..Len(format)
          BY <3>1
        <4> QED BY <3>2, <4>1, ArgLens
      <3>4. Len(tlv) \in Nat
        BY <2>3 DEF Begins, IsSeq
      <3>5. Len(tlv) + 2 + len > MaxArgs
        BY <3>1, <3>2, <3>3, <3>4, ArgsAssumption DEF Fits
      <3> QED BY <3>1, <3>2, <3>5
    <2> QED BY <2>5, <2>6
  <1> QED BY <1>1, <1>2, <1>3 DEF Survives

\* The arguments of every message survive the buffer of bounded size: what
\* get_tlv_from_ap packs, encode_msg_args reads back, argument by argument and
\* byte by byte, up to the first that does not fit or whose directive the
\* parser takes otherwise than it was passed; and no format makes the buffer
\* longer than it is.
THEOREM ArgumentsSurvive == Spec => []ArgsSurvive
  <1>1. ASSUME IInv PROVE ArgsSurvive
    <2>1. logged \in Seq(Recs)
      BY <1>1 DEF IInv, Buffers
    <2>2. ASSUME NEW i \in 1..Len(logged), logged[i].type \in LogTypes,
                 NEW format, format = Formats[logged[i].format]
          PROVE  Survives(format, Tlv(format), Args(Tlv(format)))
      <3>1. logged[i] \in Recs
        BY <2>1
      <3>2. logged[i].format \in DOMAIN Formats
        BY <2>2, <3>1 DEF Recs, LogRecs, PointRecs, LogTypes, PointTypes
      <3>3. format \in Seq(Directives)
        BY <2>2, <3>2, FormatsAssumption
      <3> QED BY <3>3, FormatSurvives
    <2> QED BY <2>2 DEF ArgsSurvive, Survives
  <1> QED BY <1>1, RecordsWhole, PTL

-----------------------------------------------------------------------------
(* How often a document tells of a record                                   *)

\* Places of two sequences, and of the two put together.
Shifted(C, A, B, m) == C = A \cup {m + b : b \in B}
Sums(m, n, s) == m \in Nat /\ n \in Nat /\ s = m + n

LEMMA PlacesAdd ==
  ASSUME NEW m \in Nat, NEW n \in Nat, NEW A \in SUBSET (1..m), NEW B \in SUBSET (1..n),
         NEW C, Shifted(C, A, B, m)
  PROVE  Sums(Cardinality(A), Cardinality(B), Cardinality(C))
  <1>1. IsFiniteSet(1..m) /\ IsFiniteSet(1..n)
    BY FS_Interval
  <1>2. IsFiniteSet(A) /\ IsFiniteSet(B)
    BY <1>1, FS_Subset
  <1>3. PICK D : D = {m + b : b \in B}
    OBVIOUS
  <1> DEFINE f == [b \in B |-> m + b]
  <1>4. f \in Bijection(B, D)
    <2>1. f \in [B -> D]
      BY <1>3
    <2>2. \A a, b \in B : f[a] = f[b] => a = b
      OBVIOUS
    <2>3. \A d \in D : \E b \in B : f[b] = d
      BY <1>3
    <2> HIDE DEF f
    <2> QED BY <2>1, <2>2, <2>3 DEF Bijection, Injection, Surjection, IsInjective
  <1>5. IsFiniteSet(D) /\ Cardinality(D) = Cardinality(B)
    BY <1>2, <1>4, FS_Bijection DEF ExistsBijection
  <1>6. A \cap D = {}
    BY <1>3
  <1>7. Cardinality(C) = Cardinality(A) + Cardinality(D) - Cardinality(A \cap D)
    <2>1. C = A \cup D
      BY <1>3 DEF Shifted
    <2> QED BY <1>2, <1>5, <2>1, FS_Union
  <1>8. Cardinality(A) \in Nat /\ Cardinality(B) \in Nat /\ Cardinality({}) = 0
    BY <1>2, FS_CardinalityType, FS_EmptySet
  <1>9. PICK a, b, c : a = Cardinality(A) /\ b = Cardinality(B) /\ c = Cardinality(C)
    OBVIOUS
  <1>10. a \in Nat /\ b \in Nat /\ c = a + b - 0
    BY <1>5, <1>6, <1>7, <1>8, <1>9
  <1>11. c = a + b
    BY <1>10
  <1> QED BY <1>9, <1>10, <1>11 DEF Sums

\* n is how often these calls tell of the record.
ToldIs(calls, enc, key, id, n) == IsSeq(calls) /\ n \in Nat /\ Told(calls, enc, key, id) = n

Tells(c, enc, key, id) == c.op = "pair" /\ c.in = enc /\ c.key = key /\ c.val = id

LEMMA ToldThen ==
  ASSUME NEW enc, NEW key, NEW id, NEW m, NEW n, NEW s, Sums(m, n, s),
         NEW c, ToldIs(c, enc, key, id, m), NEW d, ToldIs(d, enc, key, id, n)
  PROVE  ToldIs(c \o d, enc, key, id, s)
  <1>1. IsSeq(c) /\ IsSeq(d) /\ m \in Nat /\ n \in Nat /\ Told(c, enc, key, id) = m /\ Told(d, enc, key, id) = n
    BY DEF ToldIs
  <1>2. PICK g : g = c \o d
    OBVIOUS
  <1>3. Cats(g, c, d)
    BY <1>2 DEF Cats
  <1>4. After(g, c, d)
    BY <1>1, <1>3, Catenated, Zenon
  <1>5. PICK x, y : x = Len(c) /\ y = Len(d)
    OBVIOUS
  <1>6. /\ IsSeq(g) /\ x \in Nat /\ y \in Nat /\ Len(g) = x + y
        /\ \A k \in 1..x : g[k] = c[k]
        /\ \A k \in 1..y : g[x + k] = d[k]
    BY <1>4, <1>5 DEF After
  <1> DEFINE A == {k \in 1..x : Tells(c[k], enc, key, id)}
             B == {k \in 1..y : Tells(d[k], enc, key, id)}
             C == {k \in 1..x + y : Tells(g[k], enc, key, id)}
  <1>7. C = A \cup {x + b : b \in B}
    <2>1. ASSUME NEW k \in C PROVE k \in A \cup {x + b : b \in B}
      <3>1. k \in 1..x + y /\ Tells(g[k], enc, key, id)
        OBVIOUS
      <3>2. CASE k <= x
        <4>1. k \in 1..x /\ g[k] = c[k]
          BY <1>6, <3>1, <3>2
        <4> QED BY <3>1, <4>1
      <3>3. CASE k > x
        <4>1. PICK b \in 1..y : k = x + b
          <5>1. k - x \in 1..y /\ k = x + (k - x)
            BY <1>6, <3>1, <3>3
          <5> QED BY <5>1
        <4>2. g[k] = d[b]
          BY <1>6, <4>1
        <4>3. b \in B
          BY <3>1, <4>2
        <4> HIDE DEF B
        <4> QED BY <4>1, <4>3
      <3> QED BY <1>6, <3>1, <3>2, <3>3
    <2>2. ASSUME NEW k \in A PROVE k \in C
      <3>1. k \in 1..x /\ Tells(c[k], enc, key, id)
        OBVIOUS
      <3>2. k \in 1..x + y /\ g[k] = c[k]
        BY <1>6, <3>1
      <3> QED BY <3>1, <3>2
    <2>3. ASSUME NEW b \in B PROVE x + b \in C
      <3>1. b \in 1..y /\ Tells(d[b], enc, key, id)
        OBVIOUS
      <3>2. x + b \in 1..x + y /\ g[x + b] = d[b]
        BY <1>6, <3>1
      <3> QED BY <3>1, <3>2
    <2> HIDE DEF A, B, C
    <2> QED BY <2>1, <2>2, <2>3
  <1>8. A \in SUBSET (1..x) /\ B \in SUBSET (1..y)
    OBVIOUS
  <1>9. Told(c, enc, key, id) = Cardinality(A) /\ Told(d, enc, key, id) = Cardinality(B) /\ Told(g, enc, key, id) = Cardinality(C)
    BY <1>5, <1>6 DEF Told, Tells
  <1> HIDE DEF A, B, C
  <1>10. Shifted(C, A, B, x)
    BY <1>7 DEF Shifted
  <1>11. Sums(Cardinality(A), Cardinality(B), Cardinality(C))
    BY <1>6, <1>8, <1>10, PlacesAdd, Zenon
  <1> QED BY <1>1, <1>2, <1>6, <1>9, <1>11 DEF ToldIs, Sums

\* Calls that write no pair into a map of a log element or of a data point.
Quiet(calls) ==
  IsSeq(calls) /\ \A k \in 1..Len(calls) : calls[k].op = "pair" => calls[k].in \notin {"element", "map"}

LEMMA QuietTold ==
  ASSUME NEW calls, Quiet(calls), NEW enc \in {"element", "map"}, NEW key, NEW id
  PROVE  ToldIs(calls, enc, key, id, 0)
  <1>1. Told(calls, enc, key, id) = Cardinality({})
    BY DEF Told, Quiet
  <1> QED BY <1>1, FS_EmptySet DEF ToldIs, Quiet

LEMMA QuietThen ==
  ASSUME NEW c, Quiet(c), NEW d, Quiet(d)
  PROVE  Quiet(c \o d)
  <1>1. IsSeq(c) /\ IsSeq(d)
    BY DEF Quiet
  <1>2. PICK g : g = c \o d
    OBVIOUS
  <1>3. Cats(g, c, d)
    BY <1>2 DEF Cats
  <1>4. After(g, c, d)
    BY <1>1, <1>3, Catenated, Zenon
  <1>5. PICK x, y : x = Len(c) /\ y = Len(d)
    OBVIOUS
  <1>6. /\ IsSeq(g) /\ x \in Nat /\ y \in Nat /\ Len(g) = x + y
        /\ \A k \in 1..x : g[k] = c[k]
        /\ \A k \in 1..y : g[x + k] = d[k]
    BY <1>4, <1>5 DEF After
  <1>7. ASSUME NEW k \in 1..Len(g) PROVE g[k].op = "pair" => g[k].in \notin {"element", "map"}
    <2>1. CASE k <= x
      <3>1. k \in 1..x /\ g[k] = c[k]
        BY <1>6, <2>1
      <3> QED BY <1>5, <3>1 DEF Quiet
    <2>2. CASE k > x
      <3>1. PICK b \in 1..y : k = x + b
        <4>1. k - x \in 1..y /\ k = x + (k - x)
          BY <1>6, <2>2
        <4> QED BY <4>1
      <3>2. g[k] = d[b]
        BY <1>6, <3>1
      <3> QED BY <1>5, <3>1, <3>2 DEF Quiet
    <2> QED BY <1>6, <2>1, <2>2
  <1> QED BY <1>2, <1>6, <1>7 DEF Quiet

LEMMA QuietNothing == Quiet(<<>>)
  BY DEF Quiet, IsSeq

LEMMA QuietOne ==
  ASSUME NEW c, c.op # "pair" \/ c.in \notin {"element", "map"}
  PROVE  Quiet(<<c>>)
  <1>1. <<c>> \in Seq({c}) /\ Len(<<c>>) = 1 /\ <<c>>[1] = c
    OBVIOUS
  <1>2. \A k \in 1..1 : k = 1
    OBVIOUS
  <1> QED BY <1>1, <1>2 DEF Quiet, IsSeq

LEMMA QuietCalls ==
  ASSUME NEW in, NEW x, NEW y
  PROVE  /\ Quiet(Open(in, x, y)) /\ Quiet(Close(in, x)) /\ Quiet(Key(in, x)) /\ Quiet(Put(in, x))
         /\ in \notin {"element", "map"} => Quiet(Pair(in, x, y))
  <1>1. Quiet(Open(in, x, y))
    BY QuietOne DEF Open
  <1>2. Quiet(Close(in, x))
    BY QuietOne DEF Close
  <1>3. Quiet(Key(in, x))
    BY QuietOne DEF Key
  <1>4. Quiet(Put(in, x))
    BY QuietOne DEF Put
  <1>5. in \notin {"element", "map"} => Quiet(Pair(in, x, y))
    BY QuietOne DEF Pair
  <1> QED BY <1>1, <1>2, <1>3, <1>4, <1>5

\* Calls that do not tell of the record.
Silent(calls, enc, key, id) == ToldIs(calls, enc, key, id, 0)

LEMMA QuietSilent ==
  ASSUME NEW calls, Quiet(calls), NEW enc \in {"element", "map"}, NEW key, NEW id
  PROVE  Silent(calls, enc, key, id)
  BY QuietTold DEF Silent

\* What is told before and after something that does not tell of the record.
LEMMA ToldSilent ==
  ASSUME NEW enc, NEW key, NEW id, NEW n,
         NEW c, ToldIs(c, enc, key, id, n), NEW d, Silent(d, enc, key, id)
  PROVE  ToldIs(c \o d, enc, key, id, n) /\ ToldIs(d \o c, enc, key, id, n)
  <1>1. ToldIs(d, enc, key, id, 0)
    BY DEF Silent
  <1>2. Sums(n, 0, n) /\ Sums(0, n, n)
    BY DEF ToldIs, Sums
  <1>3. ToldIs(c \o d, enc, key, id, n)
    BY <1>1, <1>2, ToldThen, Zenon
  <1>4. ToldIs(d \o c, enc, key, id, n)
    BY <1>1, <1>2, ToldThen, Zenon
  <1> QED BY <1>3, <1>4

LEMMA SilentThen ==
  ASSUME NEW enc, NEW key, NEW id, NEW c, Silent(c, enc, key, id), NEW d, Silent(d, enc, key, id)
  PROVE  Silent(c \o d, enc, key, id)
  BY ToldSilent, Zenon DEF Silent

LEMMA ToldQuiet ==
  ASSUME NEW enc \in {"element", "map"}, NEW key, NEW id, NEW n,
         NEW c, ToldIs(c, enc, key, id, n), NEW d, Quiet(d)
  PROVE  ToldIs(c \o d, enc, key, id, n) /\ ToldIs(d \o c, enc, key, id, n)
  BY QuietSilent, ToldSilent, Zenon


LEMMA FlattenQuiet ==
  ASSUME NEW seqs, IsSeq(seqs), \A i \in 1..Len(seqs) : Quiet(seqs[i])
  PROVE  Quiet(FlattenSeq(seqs))
  <1>1. Len(seqs) \in Nat /\ (Len(seqs) = 0 => seqs = <<>>)
    BY DEF IsSeq
  <1>2. CASE Len(seqs) = 0
    <2>1. FlattenSeq(seqs) = <<>>
      BY <1>1, <1>2 DEF FlattenSeq
    <2> QED BY <2>1, QuietNothing
  <1>3. CASE Len(seqs) # 0
    <2>1. PICK f : Flat(seqs, f) /\ FlattenSeq(seqs) = f[Len(seqs)]
      BY <1>1, <1>3, FlattenFlat
    <2>2. \A i \in 1..Len(seqs) : f[i] = IF i = 1 THEN seqs[i] ELSE f[i - 1] \o seqs[i]
      BY <2>1 DEF Flat
    <2> DEFINE S == {i \in 0..Len(seqs) : i # 0 => Quiet(f[i])}
    <2>3. 0 \in S
      BY <1>1
    <2>4. ASSUME NEW n \in 0..Len(seqs), n # Len(seqs), n \in S PROVE n + 1 \in S
      <3>1. n + 1 \in 1..Len(seqs) /\ n + 1 - 1 = n
        BY <1>1, <2>4
      <3>2. CASE n = 0
        <4>1. f[n + 1] = seqs[n + 1]
          BY <2>2, <3>1, <3>2
        <4> QED BY <3>1, <4>1
      <3>3. CASE n # 0
        <4>1. f[n + 1] = f[n] \o seqs[n + 1]
          <5>1. PICK m : m = n + 1
            OBVIOUS
          <5>2. m \in 1..Len(seqs) /\ m # 1 /\ m - 1 = n
            BY <3>1, <3>3, <5>1
          <5> QED BY <2>2, <5>1, <5>2, Zenon
        <4>2. Quiet(f[n] \o seqs[n + 1])
          <5>1. Quiet(f[n]) /\ Quiet(seqs[n + 1])
            BY <2>4, <3>1, <3>3
          <5> QED BY <5>1, QuietThen, Zenon
        <4>3. Quiet(f[n + 1])
          BY <4>1, <4>2, Zenon
        <4> QED BY <3>1, <4>3
      <3> QED BY <3>2, <3>3
    <2>5. \A n \in 0..Len(seqs) : n \in S
      <3> HIDE DEF S
      <3> QED BY <1>1, <2>3, <2>4, ToTheEnd
    <2> QED BY <1>1, <1>3, <2>1, <2>5
  <1> QED BY <1>2, <1>3

LEMMA PutsQuiet ==
  ASSUME NEW enc, NEW vs, Len(vs) \in Nat
  PROVE  Quiet(Puts(enc, vs))
  <1> DEFINE seqs == [i \in 1..Len(vs) |-> Put(enc, vs[i])]
  <1>1. IsSeq(seqs) /\ Len(seqs) = Len(vs)
    BY IsSeqOf
  <1>2. \A i \in 1..Len(vs) : seqs[i] = Put(enc, vs[i])
    OBVIOUS
  <1>3. Puts(enc, vs) = FlattenSeq(seqs)
    BY DEF Puts, Each
  <1> HIDE DEF seqs
  <1>4. Quiet(FlattenSeq(seqs))
    BY <1>1, <1>2, QuietCalls, FlattenQuiet
  <1> QED BY <1>3, <1>4, Zenon

LEMMA ContainerQuiet ==
  ASSUME NEW in, NEW key, NEW enc, NEW kind, NEW body, Quiet(body)
  PROVE  Quiet(Container(in, key, enc, kind, body))
  <1>1. Quiet(Key(in, key)) /\ Quiet(Open(in, enc, kind)) /\ Quiet(Close(in, enc))
    BY QuietCalls
  <1>2. Quiet(Key(in, key) \o Open(in, enc, kind))
    BY <1>1, QuietThen, Zenon
  <1>3. Quiet(Key(in, key) \o Open(in, enc, kind) \o body)
    BY <1>2, QuietThen, Zenon
  <1>4. Quiet(Key(in, key) \o Open(in, enc, kind) \o body \o Close(in, enc))
    BY <1>1, <1>3, QuietThen, Zenon
  <1> QED BY <1>4, Zenon DEF Container

\* What a container tells is what is in it.
LEMMA ContainerTold ==
  ASSUME NEW enc \in {"element", "map"}, NEW key, NEW id, NEW n,
         NEW in, NEW k, NEW e, NEW kind, NEW body, ToldIs(body, enc, key, id, n)
  PROVE  /\ ToldIs(Container(in, k, e, kind, body), enc, key, id, n)
         /\ ToldIs(Element(in, e, body), enc, key, id, n)
  <1>1. Quiet(Key(in, k)) /\ Quiet(Open(in, e, kind)) /\ Quiet(Close(in, e)) /\ Quiet(Open(in, e, "map"))
    BY QuietCalls
  <1>2. Quiet(Key(in, k) \o Open(in, e, kind))
    BY <1>1, QuietThen, Zenon
  <1>3. ToldIs(Key(in, k) \o Open(in, e, kind) \o body, enc, key, id, n)
    BY <1>2, ToldQuiet, Zenon
  <1>4. ToldIs(Key(in, k) \o Open(in, e, kind) \o body \o Close(in, e), enc, key, id, n)
    BY <1>1, <1>3, ToldQuiet, Zenon
  <1>5. ToldIs(Open(in, e, "map") \o body, enc, key, id, n)
    BY <1>1, ToldQuiet, Zenon
  <1>6. ToldIs(Open(in, e, "map") \o body \o Close(in, e), enc, key, id, n)
    BY <1>1, <1>5, ToldQuiet, Zenon
  <1> QED BY <1>4, <1>6, Zenon DEF Container, Element

One(x, id) == IF x = id THEN 1 ELSE 0

\* A single pair tells of the record if it is the one for this key.
LEMMA PairTold ==
  ASSUME NEW in, NEW k, NEW v, NEW enc, NEW key, NEW id
  PROVE  /\ ToldIs(Pair(enc, key, v), enc, key, id, One(v, id))
         /\ in # enc \/ k # key => Silent(Pair(in, k, v), enc, key, id)
  <1>1. ASSUME NEW c, NEW p, p = <<c>> PROVE ToldIs(p, enc, key, id, IF Tells(c, enc, key, id) THEN 1 ELSE 0)
    <2>1. p \in Seq({c}) /\ Len(p) = 1 /\ p[1] = c
      BY <1>1
    <2>2. \A i \in 1..1 : i = 1
      OBVIOUS
    <2>3. CASE Tells(c, enc, key, id)
      <3>1. {i \in 1..Len(p) : Tells(p[i], enc, key, id)} = {1}
        BY <2>1, <2>3
      <3>2. Told(p, enc, key, id) = Cardinality({1})
        BY <3>1 DEF Told, Tells
      <3> QED BY <2>1, <2>3, <3>2, FS_Singleton DEF ToldIs, IsSeq
    <2>4. CASE ~Tells(c, enc, key, id)
      <3>1. {i \in 1..Len(p) : Tells(p[i], enc, key, id)} = {}
        BY <2>1, <2>2, <2>4
      <3>2. Told(p, enc, key, id) = Cardinality({})
        BY <3>1 DEF Told, Tells
      <3> QED BY <2>1, <2>4, <3>2, FS_EmptySet DEF ToldIs, IsSeq
    <2> QED BY <2>3, <2>4
  <1>2. ToldIs(Pair(enc, key, v), enc, key, id, One(v, id))
    <2>1. PICK c : c = [op |-> "pair", in |-> enc, key |-> key, val |-> v]
      OBVIOUS
    <2>2. ToldIs(<<c>>, enc, key, id, IF Tells(c, enc, key, id) THEN 1 ELSE 0)
      BY <1>1
    <2>3. Tells(c, enc, key, id) <=> v = id
      BY <2>1 DEF Tells
    <2>4. Pair(enc, key, v) = <<c>>
      BY <2>1 DEF Pair
    <2> QED BY <2>2, <2>3, <2>4 DEF One
  <1>3. ASSUME in # enc \/ k # key PROVE Silent(Pair(in, k, v), enc, key, id)
    <2>1. PICK c : c = [op |-> "pair", in |-> in, key |-> k, val |-> v]
      OBVIOUS
    <2>2. ToldIs(<<c>>, enc, key, id, IF Tells(c, enc, key, id) THEN 1 ELSE 0)
      BY <1>1
    <2>3. ~Tells(c, enc, key, id)
      BY <1>3, <2>1 DEF Tells
    <2>4. Pair(in, k, v) = <<c>>
      BY <2>1 DEF Pair
    <2> QED BY <2>2, <2>3, <2>4 DEF Silent
  <1> QED BY <1>2, <1>3

FourKeys(ks, a, b, c, d) == ks = <<a, b, c, d>>

FourPut(enc, v, all, a, b, c, d) ==
  all = Pair(enc, a, v) \o Pair(enc, b, v) \o Pair(enc, c, v) \o Pair(enc, d, v)

LEMMA FourPairs ==
  ASSUME NEW enc, NEW v, NEW a, NEW b, NEW c, NEW d, NEW ks, FourKeys(ks, a, b, c, d)
  PROVE  FourPut(enc, v, Pairs(enc, ks, v), a, b, c, d)
  <1> DEFINE seqs == [i \in 1..Len(ks) |-> Pair(enc, ks[i], v)]
  <1>1. Len(ks) = 4 /\ ks[1] = a /\ ks[2] = b /\ ks[3] = c /\ ks[4] = d
    BY DEF FourKeys
  <1>2. /\ Len(seqs) = 4 /\ seqs[1] = Pair(enc, a, v) /\ seqs[2] = Pair(enc, b, v)
        /\ seqs[3] = Pair(enc, c, v) /\ seqs[4] = Pair(enc, d, v)
    BY <1>1
  <1>3. Pairs(enc, ks, v) = FlattenSeq(seqs)
    BY DEF Pairs, Each
  <1> HIDE DEF seqs
  <1>4. PICK f : Flat(seqs, f) /\ FlattenSeq(seqs) = f[Len(seqs)]
    <2>1. Len(seqs) \in Nat /\ Len(seqs) # 0
      BY <1>2
    <2> QED BY <2>1, FlattenFlat, Zenon
  <1>5. \A i \in 1..4 : f[i] = IF i = 1 THEN seqs[i] ELSE f[i - 1] \o seqs[i]
    BY <1>2, <1>4 DEF Flat
  <1>6. f[1] = seqs[1] /\ f[2] = f[1] \o seqs[2] /\ f[3] = f[2] \o seqs[3] /\ f[4] = f[3] \o seqs[4]
    <2>1. /\ 1 \in 1..4 /\ 2 \in 1..4 /\ 3 \in 1..4 /\ 4 \in 1..4
          /\ 2 - 1 = 1 /\ 3 - 1 = 2 /\ 4 - 1 = 3 /\ 2 # 1 /\ 3 # 1 /\ 4 # 1
      OBVIOUS
    <2>2. f[1] = seqs[1]
      BY <1>5, <2>1, Zenon
    <2>3. f[2] = f[2 - 1] \o seqs[2]
      BY <1>5, <2>1, Zenon
    <2>4. f[3] = f[3 - 1] \o seqs[3]
      BY <1>5, <2>1, Zenon
    <2>5. f[4] = f[4 - 1] \o seqs[4]
      BY <1>5, <2>1, Zenon
    <2> QED BY <2>1, <2>2, <2>3, <2>4, <2>5, Zenon
  <1> QED BY <1>2, <1>3, <1>4, <1>6 DEF FourPut

\* An element of a list of logs tells of its record, once.
LEMMA LogElementTold ==
  ASSUME NEW list, NEW rec, rec.format \in DOMAIN Formats, NEW id
  PROVE  /\ ToldIs(LogElement(list, rec), "element", "pc", id, One(rec.id, id))
         /\ Silent(LogElement(list, rec), "map", "v", id)
  <1>1. PICK args : args = Args(Tlv(Formats[rec.format]))
    OBVIOUS
  <1>2. Len(args) \in Nat
    <2>1. Formats[rec.format] \in Seq(Directives)
      BY FormatsAssumption
    <2>2. IsSeq(Tlv(Formats[rec.format]))
      BY <2>1, TlvIsSeq
    <2>3. Len(Tlv(Formats[rec.format])) \in Nat
      BY <2>2 DEF IsSeq
    <2> QED BY <1>1, <2>3, ArgsIsSeq DEF IsSeq
  <1>3. PICK msg : msg = MsgArgs("element", Tlv(Formats[rec.format]))
    OBVIOUS
  <1>4. Quiet(msg)
    BY <1>1, <1>2, <1>3, PutsQuiet, ContainerQuiet, Zenon DEF MsgArgs
  <1>5. PICK x, ks : x = "element" /\ ks = <<"ts", "tag", "pc", "ro">>
    OBVIOUS
  <1>6. LogElement(list, rec) = Element(list, x, Pairs(x, ks, rec.id) \o msg \o Pair(x, "task", ""))
    BY <1>3, <1>5, Zenon DEF LogElement
  <1>7. PICK a, b, c, d, t : a = "ts" /\ b = "tag" /\ c = "pc" /\ d = "ro" /\ t = "task"
    OBVIOUS
  <1>8. Pairs(x, ks, rec.id) = Pair(x, a, rec.id) \o Pair(x, b, rec.id) \o Pair(x, c, rec.id) \o Pair(x, d, rec.id)
    <2>1. FourKeys(ks, a, b, c, d)
      BY <1>5, <1>7 DEF FourKeys
    <2>2. PICK i : i = rec.id
      OBVIOUS
    <2>3. FourPut(x, i, Pairs(x, ks, i), a, b, c, d)
      BY <2>1, FourPairs, Zenon
    <2> QED BY <2>2, <2>3, Zenon DEF FourPut
  <1>9. ASSUME NEW enc \in {"element", "map"}, NEW key, NEW n,
               Silent(Pair(x, a, rec.id), enc, key, id), Silent(Pair(x, b, rec.id), enc, key, id),
               ToldIs(Pair(x, c, rec.id), enc, key, id, n), Silent(Pair(x, d, rec.id), enc, key, id),
               Silent(Pair(x, t, ""), enc, key, id)
        PROVE  ToldIs(LogElement(list, rec), enc, key, id, n)
    <2>2. Silent(Pair(x, a, rec.id) \o Pair(x, b, rec.id), enc, key, id)
      BY <1>9, SilentThen, Zenon
    <2>3. ToldIs(Pair(x, a, rec.id) \o Pair(x, b, rec.id) \o Pair(x, c, rec.id), enc, key, id, n)
      BY <1>9, <2>2, ToldSilent, Zenon
    <2>4. ToldIs(Pair(x, a, rec.id) \o Pair(x, b, rec.id) \o Pair(x, c, rec.id) \o Pair(x, d, rec.id), enc, key, id, n)
      BY <1>9, <2>3, ToldSilent, Zenon
    <2>5. ToldIs(Pairs(x, ks, rec.id), enc, key, id, n)
      BY <1>8, <2>4, Zenon
    <2>6. ToldIs(Pairs(x, ks, rec.id) \o msg, enc, key, id, n)
      BY <1>4, <2>5, ToldQuiet, Zenon
    <2>7. ToldIs(Pairs(x, ks, rec.id) \o msg \o Pair(x, t, ""), enc, key, id, n)
      BY <1>9, <2>6, ToldSilent, Zenon
    <2>8. ToldIs(Element(list, x, Pairs(x, ks, rec.id) \o msg \o Pair(x, t, "")), enc, key, id, n)
      BY <2>7, ContainerTold, Zenon
    <2> QED BY <1>6, <1>7, <2>8, Zenon
  <1>10. ToldIs(LogElement(list, rec), "element", "pc", id, One(rec.id, id))
    <2>1. PICK key : key = "pc"
      OBVIOUS
    <2>2. a # key /\ b # key /\ d # key /\ t # key /\ c = key
      BY <1>7, <2>1
    <2>3. x \in {"element", "map"}
      BY <1>5
    <2>4. /\ Silent(Pair(x, a, rec.id), x, key, id) /\ Silent(Pair(x, b, rec.id), x, key, id)
          /\ Silent(Pair(x, d, rec.id), x, key, id) /\ Silent(Pair(x, t, ""), x, key, id)
      BY <2>2, PairTold, Zenon
    <2>5. ToldIs(Pair(x, c, rec.id), x, key, id, One(rec.id, id))
      BY <2>2, PairTold, Zenon
    <2>6. ToldIs(LogElement(list, rec), x, key, id, One(rec.id, id))
      BY <1>9, <2>3, <2>4, <2>5, Zenon
    <2> QED BY <1>5, <2>1, <2>6, Zenon
  <1>11. Silent(LogElement(list, rec), "map", "v", id)
    <2>1. PICK enc, key : enc = "map" /\ key = "v"
      OBVIOUS
    <2>2. x # enc /\ enc \in {"element", "map"}
      BY <1>5, <2>1
    <2>3. /\ Silent(Pair(x, a, rec.id), enc, key, id) /\ Silent(Pair(x, b, rec.id), enc, key, id)
          /\ Silent(Pair(x, c, rec.id), enc, key, id) /\ Silent(Pair(x, d, rec.id), enc, key, id)
          /\ Silent(Pair(x, t, ""), enc, key, id)
      BY <2>2, PairTold, Zenon
    <2>4. Silent(LogElement(list, rec), enc, key, id)
      BY <1>9, <2>2, <2>3, Zenon DEF Silent
    <2> QED BY <2>1, <2>4, Zenon
  <1> QED BY <1>10, <1>11

\* A data point tells of its record, once, if it has a value.
LEMMA DataPtTold ==
  ASSUME NEW rec, rec.data_type # "NULL", NEW id
  PROVE  /\ ToldIs(DataPt(rec), "map", "v", id, One(rec.id, id))
         /\ Silent(DataPt(rec), "element", "pc", id)
  <1>1. PICK names : names = Put("key_arr", rec.type) \o Put("key_arr", "tag") \o Put("key_arr", rec.id)
    OBVIOUS
  <1>2. Quiet(names)
    <2>1. Quiet(Put("key_arr", rec.type)) /\ Quiet(Put("key_arr", "tag")) /\ Quiet(Put("key_arr", rec.id))
      BY QuietCalls
    <2>2. Quiet(Put("key_arr", rec.type) \o Put("key_arr", "tag"))
      BY <2>1, QuietThen, Zenon
    <2> QED BY <1>1, <2>1, <2>2, QuietThen, Zenon
  <1>3. PICK x, v, t : x = "map" /\ v = "v" /\ t = "t"
    OBVIOUS
  <1>4. PICK name : name = Container(x, "n", "key_arr", "array", names)
    OBVIOUS
  <1>5. Quiet(name)
    BY <1>2, <1>4, ContainerQuiet, Zenon
  <1>6. DataPt(rec) = Element("array", x, name \o Pair(x, v, rec.id) \o Pair(x, t, ""))
    BY <1>1, <1>3, <1>4, Zenon DEF DataPt
  <1>7. ASSUME NEW enc \in {"element", "map"}, NEW key, NEW n,
               ToldIs(Pair(x, v, rec.id), enc, key, id, n), Silent(Pair(x, t, ""), enc, key, id)
        PROVE  ToldIs(DataPt(rec), enc, key, id, n)
    <2>2. ToldIs(name \o Pair(x, v, rec.id), enc, key, id, n)
      BY <1>5, <1>7, ToldQuiet, Zenon
    <2>3. ToldIs(name \o Pair(x, v, rec.id) \o Pair(x, t, ""), enc, key, id, n)
      BY <1>7, <2>2, ToldSilent, Zenon
    <2>4. ToldIs(Element("array", x, name \o Pair(x, v, rec.id) \o Pair(x, t, "")), enc, key, id, n)
      BY <2>3, ContainerTold, Zenon
    <2> QED BY <1>6, <2>4, Zenon
  <1>8. v # t /\ x \in {"element", "map"}
    BY <1>3
  <1>9. ToldIs(Pair(x, v, rec.id), x, v, id, One(rec.id, id)) /\ Silent(Pair(x, t, ""), x, v, id)
    BY <1>8, PairTold, Zenon
  <1>10. ToldIs(DataPt(rec), x, v, id, One(rec.id, id))
    BY <1>7, <1>8, <1>9, Zenon
  <1>11. PICK enc, key : enc = "element" /\ key = "pc"
    OBVIOUS
  <1>12. x # enc /\ enc \in {"element", "map"}
    BY <1>3, <1>11
  <1>13. Silent(Pair(x, v, rec.id), enc, key, id) /\ Silent(Pair(x, t, ""), enc, key, id)
    BY <1>12, PairTold, Zenon
  <1>14. Silent(DataPt(rec), enc, key, id)
    BY <1>7, <1>12, <1>13, Zenon DEF Silent
  <1> QED BY <1>3, <1>10, <1>11, <1>14, Zenon
\* Maps that are neither a log element nor a data point.
Frame(in) == in \notin {"element", "map"}

LEMMA PairsQuiet ==
  ASSUME NEW enc, Frame(enc), NEW ks, Len(ks) \in Nat, NEW v
  PROVE  Quiet(Pairs(enc, ks, v))
  <1> DEFINE seqs == [i \in 1..Len(ks) |-> Pair(enc, ks[i], v)]
  <1>1. IsSeq(seqs) /\ Len(seqs) = Len(ks)
    BY IsSeqOf
  <1>2. \A i \in 1..Len(ks) : seqs[i] = Pair(enc, ks[i], v)
    OBVIOUS
  <1>3. Pairs(enc, ks, v) = FlattenSeq(seqs)
    BY DEF Pairs, Each
  <1> HIDE DEF seqs
  <1>4. Quiet(FlattenSeq(seqs))
    BY <1>1, <1>2, QuietCalls, FlattenQuiet DEF Frame
  <1> QED BY <1>3, <1>4, Zenon

LEMMA MetaHdrQuiet ==
  ASSUME NEW enc, Frame(enc), NEW hdr
  PROVE  Quiet(MetaHdr(enc, hdr))
  <1>1. /\ Quiet(Pair(enc, "sha256", hdr)) /\ Quiet(Pair(enc, "gen_id", hdr))
        /\ Quiet(Pair(enc, "boot_cnt", hdr))
    BY QuietCalls, Zenon DEF Frame
  <1>2. Quiet(Pair(enc, "sha256", hdr) \o Pair(enc, "gen_id", hdr))
    BY <1>1, QuietThen, Zenon
  <1> QED BY <1>1, <1>2, QuietThen, Zenon DEF MetaHdr

LEMMA DataHdrQuiet ==
  ASSUME NEW key, NEW targets, Len(targets) \in Nat, NEW hdr
  PROVE  Quiet(DataHdr(key, targets, hdr))
  <1>1. Quiet(Puts("map_list", targets))
    BY PutsQuiet, Zenon
  <1>2. Quiet(Container("hdr_map", "maps_to", "map_list", "array", Puts("map_list", targets)))
    BY <1>1, ContainerQuiet, Zenon
  <1>3. Frame("hdr_map")
    BY DEF Frame
  <1>4. Quiet(Container("hdr_map", "maps_to", "map_list", "array", Puts("map_list", targets))
                \o MetaHdr("hdr_map", hdr))
    BY <1>2, <1>3, MetaHdrQuiet, QuietThen, Zenon
  <1> QED BY <1>4, ContainerQuiet, Zenon DEF DataHdr

LEMMA BeginQuiet ==
  ASSUME NEW in, NEW key, NEW enc
  PROVE  Quiet(Begin(in, key, enc))
  <1>1. Quiet(Key(in, key)) /\ Quiet(Open(in, enc, "map"))
    BY QuietCalls, Zenon
  <1> QED BY <1>1, QuietThen, Zenon DEF Begin

\* What is put around the lists of a document tells of no record.
LEMMA FrameQuiet ==
  ASSUME NEW hdr
  PROVE  Quiet(DataBegin(hdr)) /\ Quiet(DataEnd)
  <1>1. PICK vs, x : vs = <<"ver", "ts">> /\ x = "s_diag_map"
    OBVIOUS
  <1>2. Frame(x) /\ Len(vs) \in Nat
    BY <1>1 DEF Frame
  <1>3. PICK a, b, c, d, e :
          /\ a = Open("s_encoder", "s_result_map", "map") /\ b = Begin("s_result_map", "diag", "s_diag_map")
          /\ c = Pairs("s_diag_map", vs, "") /\ d = MetaHdr("s_diag_map", hdr)
          /\ e = Begin("s_diag_map", "data", "s_diag_data_map")
    OBVIOUS
  <1>4. Quiet(a) /\ Quiet(b) /\ Quiet(c) /\ Quiet(d) /\ Quiet(e)
    BY <1>1, <1>2, <1>3, QuietCalls, BeginQuiet, PairsQuiet, MetaHdrQuiet, Zenon
  <1>5. Quiet(a \o b)
    BY <1>4, QuietThen, Zenon
  <1>6. Quiet(a \o b \o c)
    BY <1>4, <1>5, QuietThen, Zenon
  <1>7. Quiet(a \o b \o c \o d)
    BY <1>4, <1>6, QuietThen, Zenon
  <1>8. Quiet(a \o b \o c \o d \o e)
    BY <1>4, <1>7, QuietThen, Zenon
  <1>9. DataBegin(hdr) = a \o b \o c \o d \o e
    BY <1>1, <1>3, Zenon DEF DataBegin, DiagBegin
  <1>10. Quiet(DataEnd)
    <2>1. PICK f, g, h : /\ f = Close("s_diag_map", "s_diag_data_map")
                         /\ g = Close("s_result_map", "s_diag_map") /\ h = Close("s_encoder", "s_result_map")
      OBVIOUS
    <2>2. Quiet(f) /\ Quiet(g) /\ Quiet(h)
      BY <2>1, QuietCalls, Zenon
    <2>3. Quiet(g \o h)
      BY <2>2, QuietThen, Zenon
    <2>4. Quiet(f \o (g \o h))
      BY <2>2, <2>3, QuietThen, Zenon
    <2> QED BY <2>1, <2>4, Zenon DEF DataEnd, DiagEnd
  <1> QED BY <1>8, <1>9, <1>10, Zenon

-----------------------------------------------------------------------------
(* The records a walk tells of                                              *)

\* Where the record begins behind place i and up to n; of one type.
Begun(q, id, i, n) == {k \in (i+1)..n : q[k].at = 0 /\ q[k].rec.id = id}
OfType(q, type, id, i, n) == {k \in Begun(q, id, i, n) : q[k].rec.type = type}

\* The set has n members.
Holding(S, n) == IsFiniteSet(S) /\ n \in Nat /\ Cardinality(S) = n

LEMMA HoldingBoth ==
  ASSUME NEW m, NEW n, NEW s, Sums(m, n, s), NEW A, Holding(A, m), NEW B, Holding(B, n), A \cap B = {}
  PROVE  Holding(A \cup B, s)
  <1>1. IsFiniteSet(A) /\ IsFiniteSet(B) /\ Cardinality(A) = m /\ Cardinality(B) = n
    BY DEF Holding
  <1>2. IsFiniteSet(A \cup B) /\ Cardinality(A \cup B) = m + n - Cardinality(A \cap B)
    BY <1>1, FS_Union
  <1>3. Cardinality(A \cap B) = 0
    BY FS_EmptySet
  <1>4. m \in Nat /\ n \in Nat /\ s = m + n
    BY DEF Sums
  <1> QED BY <1>2, <1>3, <1>4 DEF Holding

LEMMA HoldingIn ==
  ASSUME NEW i \in Nat, NEW n \in Nat, NEW A \in SUBSET ((i+1)..n)
  PROVE  \E m : Holding(A, m)
  <1>1. IsFiniteSet((i+1)..n)
    BY FS_Interval
  <1>2. IsFiniteSet(A)
    BY <1>1, FS_Subset
  <1> QED BY <1>2, FS_CardinalityType DEF Holding

\* The calls g[i] of a walk that is i bytes into the chunk: what the record
\* there makes, if it is of the type, and what the walk makes from the next on.
WalkTells(q, g, type, enc, key, id) ==
  \A i \in 0..Len(q) : Starts(q, i) =>
    IF Stops(q, i) THEN Silent(g[i], enc, key, id)
    ELSE \E t : /\ g[i] = t \o g[i + RecLen(q[i + 1].rec)]
                /\ q[i + 1].rec.type = type => ToldIs(t, enc, key, id, One(q[i + 1].rec.id, id))
                /\ q[i + 1].rec.type # type => Silent(t, enc, key, id)

\* The first record of a walk, and the others.
NextAt(q, i, m) == m = i + RecLen(q[i + 1].rec)
FirstApart(q, type, id, i, m, n) ==
  /\ OfType(q, type, id, i, n) = OfType(q, type, id, i, m) \cup OfType(q, type, id, m, n)
  /\ OfType(q, type, id, i, m) \cap OfType(q, type, id, m, n) = {}
  /\ OfType(q, type, id, i, m) = IF q[i + 1].rec.type = type /\ q[i + 1].rec.id = id THEN {i + 1} ELSE {}

LEMMA FirstOfWalk ==
  ASSUME NEW q \in Seq(BytesOf(Recs)), Chain(q), NEW i \in 0..Len(q), Starts(q, i), ~Stops(q, i),
         NEW m, NextAt(q, i, m), NEW n, n \in m..Len(q), NEW type, NEW id
  PROVE  FirstApart(q, type, id, i, m, n)
  <1>0. i \in 0..Len(q) - 1 /\ i + 1 \in 1..Len(q) /\ q[i + 1].at = 0
    BY DEF Starts, Stops
  <1>2. q[i + 1].rec \in Recs /\ RecLen(q[i + 1].rec) \in Nat /\ RecLen(q[i + 1].rec) >= 2
    BY <1>0, RecLens DEF BytesOf
  <1>1. i \in 0..Len(q) - 1 /\ q[i + 1].at = 0 /\ m <= Len(q) /\ m = i + RecLen(q[i + 1].rec)
    BY <1>0, <1>2 DEF Stops, NextAt
  <1>3. m \in 0..Len(q) /\ m > i
    BY <1>1, NextRecord
  <1>4. \A k \in (i+1)..m : q[k].rec = q[i + 1].rec /\ (q[k].at = 0 => k = i + 1)
    <2> SUFFICES ASSUME NEW k \in (i+1)..m PROVE q[k].rec = q[i + 1].rec /\ (q[k].at = 0 => k = i + 1)
      OBVIOUS
    <2>1. PICK j : j = k - (i + 1)
      OBVIOUS
    <2>2. j \in 0..RecLen(q[i + 1].rec) - 1 /\ i + 1 + j = k /\ k <= Len(q)
      BY <1>1, <1>2, <1>3, <2>1
    <2>3. q[k].rec = q[i + 1].rec /\ q[k].at = j
      BY <1>1, <2>2, RecordAt
    <2> QED BY <2>2, <2>3
  <1>5. (i+1)..n = ((i+1)..m) \cup ((m+1)..n) /\ ((i+1)..m) \cap ((m+1)..n) = {}
    BY <1>3
  <1>6. i + 1 \in (i+1)..m
    BY <1>3
  <1>7. /\ OfType(q, type, id, i, n) = OfType(q, type, id, i, m) \cup OfType(q, type, id, m, n)
        /\ OfType(q, type, id, i, m) \cap OfType(q, type, id, m, n) = {}
    BY <1>5 DEF OfType, Begun
  <1>8. OfType(q, type, id, i, m) = IF q[i + 1].rec.type = type /\ q[i + 1].rec.id = id THEN {i + 1} ELSE {}
    <2>1. PICK a : a = i + 1
      OBVIOUS
    <2>2. \A k \in a..m : q[k].rec = q[a].rec /\ (q[k].at = 0 => k = a)
      BY <1>4, <2>1
    <2>3. a \in a..m /\ q[a].at = 0
      BY <1>1, <1>6, <2>1
    <2>4. OfType(q, type, id, i, m) = {k \in a..m : q[k].at = 0 /\ q[k].rec.id = id /\ q[k].rec.type = type}
      BY <2>1 DEF OfType, Begun
    <2>5. CASE q[a].rec.type = type /\ q[a].rec.id = id
      BY <2>1, <2>2, <2>3, <2>4, <2>5
    <2>6. CASE ~(q[a].rec.type = type /\ q[a].rec.id = id)
      BY <2>1, <2>2, <2>3, <2>4, <2>6
    <2> QED BY <2>5, <2>6
  <1> QED BY <1>7, <1>8 DEF FirstApart

\* A walk tells of the records of its type that it consumes.
LEMMA WalkToldOf ==
  ASSUME NEW q \in Seq(BytesOf(Recs)), Chain(q), NEW c, Consumes(q, c),
         NEW type, NEW enc, NEW key, NEW id, NEW g, WalkTells(q, g, type, enc, key, id)
  PROVE  \E s : Holding(OfType(q, type, id, 0, c[0]), s) /\ ToldIs(g[0], enc, key, id, s)
  <1> DEFINE Good(i) == \E s : Holding(OfType(q, type, id, i, c[i]), s) /\ ToldIs(g[i], enc, key, id, s)
             S == {i \in 0..Len(q) : Starts(q, i) => Good(i)}
  <1>1. ASSUME NEW i \in 0..Len(q), \A m \in (i+1)..Len(q) : m \in S PROVE i \in S
    <2> SUFFICES ASSUME Starts(q, i) PROVE Good(i)
      OBVIOUS
    <2>1. CASE Stops(q, i)
      <3>1. c[i] = i
        BY <2>1 DEF Consumes
      <3>2. OfType(q, type, id, i, c[i]) = {}
        BY <3>1 DEF OfType, Begun
      <3>3. Holding({}, 0)
        BY FS_EmptySet DEF Holding
      <3>4. ToldIs(g[i], enc, key, id, 0)
        BY <2>1 DEF WalkTells, Silent
      <3> QED BY <3>2, <3>3, <3>4
    <2>2. CASE ~Stops(q, i)
      <3>1. PICK m : m = i + RecLen(q[i + 1].rec)
        OBVIOUS
      <3>2. c[i] = c[m]
        BY <2>2, <3>1 DEF Consumes
      <3>3. i \in 0..Len(q) - 1 /\ q[i + 1].at = 0 /\ m <= Len(q)
        BY <2>2, <3>1 DEF Starts, Stops
      <3>4. m \in (i+1)..Len(q) /\ Starts(q, m)
        BY <3>1, <3>3, NextRecord DEF Starts
      <3>5. Good(m)
        BY <1>1, <3>4
      <3>6. PICK s : Holding(OfType(q, type, id, m, c[m]), s) /\ ToldIs(g[m], enc, key, id, s)
        BY <3>5
      <3>7. PICK n : n = c[m]
        OBVIOUS
      <3>8. m \in 0..Len(q)
        BY <3>4
      <3>9. n \in m..Len(q)
        BY <3>4, <3>7, <3>8, WalkConsumes DEF Between
      <3>10. PICK A, B : A = OfType(q, type, id, i, m) /\ B = OfType(q, type, id, m, n)
        OBVIOUS
      <3>11. /\ OfType(q, type, id, i, n) = A \cup B /\ A \cap B = {}
             /\ A = IF q[i + 1].rec.type = type /\ q[i + 1].rec.id = id THEN {i + 1} ELSE {}
        <4>1. NextAt(q, i, m)
          BY <3>1 DEF NextAt
        <4>2. FirstApart(q, type, id, i, m, n)
          BY <2>2, <3>9, <4>1, FirstOfWalk, Zenon
        <4> QED BY <3>10, <4>2 DEF FirstApart
      <3>12. PICK x, rec : x = (IF A = {} THEN 0 ELSE 1) /\ rec = q[i + 1].rec
        OBVIOUS
      <3>13. Holding(A, x)
        <4>1. CASE A = {}
          BY <3>12, <4>1, FS_EmptySet DEF Holding
        <4>2. CASE A # {}
          <5>1. A = {i + 1}
            BY <3>11, <4>2
          <5> QED BY <3>12, <4>2, <5>1, FS_Singleton DEF Holding
        <4> QED BY <4>1, <4>2
      <3>14. PICK t : /\ g[i] = t \o g[m]
                      /\ rec.type = type => ToldIs(t, enc, key, id, One(rec.id, id))
                      /\ rec.type # type => Silent(t, enc, key, id)
        BY <2>2, <3>1, <3>12 DEF WalkTells
      <3>15. ToldIs(t, enc, key, id, x)
        <4>1. CASE rec.type = type
          <5>1. One(rec.id, id) = x
            BY <3>11, <3>12, <4>1 DEF One
          <5> QED BY <3>14, <4>1, <5>1
        <4>2. CASE rec.type # type
          <5>1. x = 0
            BY <3>11, <3>12, <4>2
          <5> QED BY <3>14, <4>2, <5>1 DEF Silent
        <4> QED BY <4>1, <4>2
      <3>16. PICK y : y = x + s
        OBVIOUS
      <3>17. Sums(x, s, y)
        BY <3>6, <3>13, <3>16 DEF Sums, Holding
      <3>18. Holding(A \cup B, y)
        BY <3>6, <3>7, <3>10, <3>11, <3>13, <3>17, HoldingBoth, Zenon
      <3>19. ToldIs(t \o g[m], enc, key, id, y)
        BY <3>6, <3>15, <3>17, ToldThen, Zenon
      <3>20. Holding(OfType(q, type, id, i, c[i]), y)
        BY <3>2, <3>7, <3>11, <3>18, Zenon
      <3>21. ToldIs(g[i], enc, key, id, y)
        BY <3>14, <3>19, Zenon
      <3> QED BY <3>20, <3>21
    <2> QED BY <2>1, <2>2
  <1>2. \A i \in 0..Len(q) : i \in S
    <2>1. Len(q) \in Nat
      OBVIOUS
    <2> HIDE DEF S
    <2> QED BY <1>1, <2>1, FromTheEnd
  <1>3. Starts(q, 0) /\ 0 \in 0..Len(q)
    BY DEF Starts, Chain
  <1> HIDE DEF Good
  <1>4. Good(0)
    BY <1>2, <1>3
  <1> QED BY <1>4 DEF Good

\* Walks that tell nothing under a key.
WalkSilent(q, g, enc, key, id) ==
  \A i \in 0..Len(q) : Starts(q, i) =>
    IF Stops(q, i) THEN Silent(g[i], enc, key, id)
    ELSE \E t : g[i] = t \o g[i + RecLen(q[i + 1].rec)] /\ Silent(t, enc, key, id)

LEMMA WalkToldNothing ==
  ASSUME NEW q \in Seq(BytesOf(Recs)), Chain(q),
         NEW enc, NEW key, NEW id, NEW g, WalkSilent(q, g, enc, key, id)
  PROVE  Silent(g[0], enc, key, id)
  <1> DEFINE S == {i \in 0..Len(q) : Starts(q, i) => Silent(g[i], enc, key, id)}
  <1>1. ASSUME NEW i \in 0..Len(q), \A m \in (i+1)..Len(q) : m \in S PROVE i \in S
    <2> SUFFICES ASSUME Starts(q, i) PROVE Silent(g[i], enc, key, id)
      OBVIOUS
    <2>1. CASE Stops(q, i)
      BY <2>1 DEF WalkSilent
    <2>2. CASE ~Stops(q, i)
      <3>1. PICK m : m = i + RecLen(q[i + 1].rec)
        OBVIOUS
      <3>2. i \in 0..Len(q) - 1 /\ q[i + 1].at = 0 /\ m <= Len(q)
        BY <2>2, <3>1 DEF Starts, Stops
      <3>3. m \in (i+1)..Len(q) /\ Starts(q, m)
        BY <3>1, <3>2, NextRecord DEF Starts
      <3>4. Silent(g[m], enc, key, id)
        BY <1>1, <3>3
      <3>5. PICK t : g[i] = t \o g[m] /\ Silent(t, enc, key, id)
        BY <2>2, <3>1 DEF WalkSilent
      <3> QED BY <3>4, <3>5, SilentThen, Zenon
    <2> QED BY <2>1, <2>2
  <1>2. \A i \in 0..Len(q) : i \in S
    <2>1. Len(q) \in Nat
      OBVIOUS
    <2> HIDE DEF S
    <2> QED BY <1>1, <2>1, FromTheEnd
  <1>3. Starts(q, 0) /\ 0 \in 0..Len(q)
    BY DEF Starts, Chain
  <1> QED BY <1>2, <1>3

\* All walks over a chunk consume the same.
LEMMA OneConsumption ==
  ASSUME NEW q \in Seq(BytesOf(Recs)), Chain(q), NEW c, Consumes(q, c), NEW d, Consumes(q, d)
  PROVE  c[0] = d[0]
  <1> DEFINE S == {i \in 0..Len(q) : Starts(q, i) => c[i] = d[i]}
  <1>1. ASSUME NEW i \in 0..Len(q), \A m \in (i+1)..Len(q) : m \in S PROVE i \in S
    <2> SUFFICES ASSUME Starts(q, i) PROVE c[i] = d[i]
      OBVIOUS
    <2>1. CASE Stops(q, i)
      BY <2>1 DEF Consumes
    <2>2. CASE ~Stops(q, i)
      <3>1. PICK m : m = i + RecLen(q[i + 1].rec)
        OBVIOUS
      <3>2. i \in 0..Len(q) - 1 /\ q[i + 1].at = 0 /\ m <= Len(q)
        BY <2>2, <3>1 DEF Starts, Stops
      <3>3. m \in (i+1)..Len(q) /\ Starts(q, m)
        BY <3>1, <3>2, NextRecord DEF Starts
      <3>4. c[m] = d[m]
        BY <1>1, <3>3
      <3>5. c[i] = c[m] /\ d[i] = d[m]
        BY <2>2, <3>1 DEF Consumes
      <3> QED BY <3>4, <3>5
    <2> QED BY <2>1, <2>2
  <1>2. \A i \in 0..Len(q) : i \in S
    <2>1. Len(q) \in Nat
      OBVIOUS
    <2> HIDE DEF S
    <2> QED BY <1>1, <2>1, FromTheEnd
  <1>3. Starts(q, 0) /\ 0 \in 0..Len(q)
    BY DEF Starts, Chain
  <1> QED BY <1>2, <1>3

\* What a walk over logs, and one over points, makes of a record.
LogCalls(q, type, g) ==
  \A i \in 0..Len(q) : Starts(q, i) =>
    IF Stops(q, i) THEN g[i] = <<>>
    ELSE \E t : /\ g[i] = t \o g[i + RecLen(q[i + 1].rec)]
                /\ q[i + 1].rec \in LogRecs
                /\ t = IF q[i + 1].rec.type = type THEN LogElement("list", q[i + 1].rec) ELSE <<>>

LEMMA LogWalkCalls ==
  ASSUME NEW q \in Seq(BytesOf(LogRecs)), Chain(q), NEW type
  PROVE  \E g : LogWalk(q, type).calls = g[0] /\ LogCalls(q, type, g)
  <1> DEFINE f == CHOOSE g : g = [i \in Nat |-> LogStep(q, type, i, g[i + 1 + LogSize])]
             g == [i \in Nat |-> f[i].calls]
  <1>1. q \in Seq(BytesOf(Recs)) /\ Len(q) \in Nat /\ \A k \in 1..Len(q) : q[k].rec \in LogRecs
    BY Bytes1 DEF Recs
  <1>2. f = [i \in Nat |-> LogStep(q, type, i, f[i + 1 + LogSize])]
    <2>1. PICK h : h = [i \in Nat |-> LogStep(q, type, i, h[i + 1 + LogSize])]
      BY <1>1, LogStepDefined
    <2> QED BY <2>1, Zenon
  <1>3. LogWalk(q, type) = f[0]
    BY DEF LogWalk, LogStep, LogStop
  <1> HIDE DEF f
  <1>4. \A i \in Nat : g[i] = f[i].calls
    OBVIOUS
  <1> HIDE DEF g
  <1>5. ASSUME NEW i \in 0..Len(q), Starts(q, i), Stops(q, i) PROVE g[i] = <<>>
    <2>1. LogStop(q, i) /\ i \in Nat
      BY <1>1, <1>5, LogStops
    <2>2. f[i] = LogStep(q, type, i, f[i + 1 + LogSize])
      BY <1>2, <2>1
    <2>3. f[i].calls = <<>>
      BY <2>1, <2>2 DEF LogStep
    <2> QED BY <1>4, <2>1, <2>3
  <1>6. ASSUME NEW i \in 0..Len(q), Starts(q, i), ~Stops(q, i)
        PROVE  \E t : /\ g[i] = t \o g[i + RecLen(q[i + 1].rec)]
                      /\ q[i + 1].rec \in LogRecs
                      /\ t = IF q[i + 1].rec.type = type THEN LogElement("list", q[i + 1].rec) ELSE <<>>
    <2>1. PICK m : m = i + RecLen(q[i + 1].rec)
      OBVIOUS
    <2>2. ~LogStop(q, i) /\ i + 1 + LogSize = m /\ i \in Nat
      BY <1>1, <1>6, <2>1, LogStops
    <2>3. i \in 0..Len(q) - 1 /\ q[i + 1].at = 0 /\ i + 1 \in 1..Len(q)
      BY <1>6 DEF Starts, Stops
    <2>4. q[i + 1].rec \in LogRecs /\ RecLen(q[i + 1].rec) = 1 + LogSize
      BY <1>1, <2>3, RecLens
    <2>5. q[i + 2].rec = q[i + 1].rec /\ q[i + 2].at = 1
      <3>1. i + 1 + 1 <= Len(q) /\ 1 \in 0..RecLen(q[i + 1].rec) - 1 /\ i + 1 + 1 = i + 2
        <4>1. PICK n, l : n = Len(q) /\ l = LogSize
          OBVIOUS
        <4>2. n \in Nat /\ l \in Nat \ {0} /\ i \in Nat /\ ~(n - i <= l)
          BY <1>1, <2>2, <4>1, SizeAssumption DEF LogStop
        <4> QED BY <2>4, <4>1, <4>2
      <3> QED BY <1>1, <2>3, <3>1, RecordAt
    <2>6. PICK b, rec : b = q[i + 2] /\ rec = q[i + 1].rec
      OBVIOUS
    <2>7. TypeByte(b) = rec.type /\ b.rec = rec
      BY <2>5, <2>6 DEF TypeByte
    <2>8. f[i] = LogStep(q, type, i, f[m])
      BY <1>2, <2>2
    <2>9. PICK t : t = IF rec.type = type THEN LogElement("list", rec) ELSE <<>>
      OBVIOUS
    <2>10. f[i] = [calls |-> t \o f[m].calls, consumed |-> f[m].consumed]
      <3>1. f[i] = [calls |-> (IF TypeByte(b) = type THEN LogElement("list", b.rec) ELSE <<>>) \o f[m].calls,
                    consumed |-> f[m].consumed]
        BY <2>2, <2>6, <2>8, Zenon DEF LogStep
      <3> QED BY <2>7, <2>9, <3>1, Zenon
    <2>11. f[i].calls = t \o f[m].calls
      BY <2>10
    <2>12. m \in Nat
      BY <2>2, SizeAssumption
    <2>13. g[i] = t \o g[m]
      BY <1>4, <2>2, <2>11, <2>12
    <2> QED BY <2>1, <2>4, <2>6, <2>9, <2>13
  <1>7. LogWalk(q, type).calls = g[0]
    BY <1>3, <1>4
  <1> QED BY <1>5, <1>6, <1>7 DEF LogCalls

PointCalls(q, type, g) ==
  \A i \in 0..Len(q) : Starts(q, i) =>
    IF Stops(q, i) THEN g[i] = <<>>
    ELSE \E t : /\ g[i] = t \o g[i + RecLen(q[i + 1].rec)]
                /\ q[i + 1].rec \in PointRecs
                /\ t = IF q[i + 1].rec.type = type THEN DataPt(q[i + 1].rec) ELSE <<>>

LEMMA PointWalkCalls ==
  ASSUME NEW q \in Seq(BytesOf(PointRecs)), Chain(q), NEW type
  PROVE  \E g : PointWalk(q, type).calls = g[0] /\ PointCalls(q, type, g)
  <1> DEFINE f == CHOOSE g : g = [i \in Nat |-> PointStep(q, type, i, g[PointNext(q, i)])]
             g == [i \in Nat |-> f[i].calls]
  <1>1. q \in Seq(BytesOf(Recs)) /\ Len(q) \in Nat /\ \A k \in 1..Len(q) : q[k].rec \in PointRecs
    BY Bytes1 DEF Recs
  <1>2. f = [i \in Nat |-> PointStep(q, type, i, f[PointNext(q, i)])]
    <2>1. PICK h : h = [i \in Nat |-> PointStep(q, type, i, h[PointNext(q, i)])]
      BY <1>1, PointStepDefined
    <2> QED BY <2>1, Zenon
  <1>3. PointWalk(q, type) = f[0]
    BY DEF PointWalk, PointStep, PointStop, PointNext
  <1> HIDE DEF f
  <1>4. \A i \in Nat : g[i] = f[i].calls
    OBVIOUS
  <1> HIDE DEF g
  <1>5. ASSUME NEW i \in 0..Len(q), Starts(q, i), Stops(q, i) PROVE g[i] = <<>>
    <2>1. PointStop(q, i) /\ i \in Nat
      BY <1>1, <1>5, PointStops
    <2>2. f[i] = PointStep(q, type, i, f[PointNext(q, i)])
      BY <1>2, <2>1
    <2>3. f[i].calls = <<>>
      BY <2>1, <2>2 DEF PointStep
    <2> QED BY <1>4, <2>1, <2>3
  <1>6. ASSUME NEW i \in 0..Len(q), Starts(q, i), ~Stops(q, i)
        PROVE  \E t : /\ g[i] = t \o g[i + RecLen(q[i + 1].rec)]
                      /\ q[i + 1].rec \in PointRecs
                      /\ t = IF q[i + 1].rec.type = type THEN DataPt(q[i + 1].rec) ELSE <<>>
    <2>1. PICK m : m = i + RecLen(q[i + 1].rec)
      OBVIOUS
    <2>2. ~PointStop(q, i) /\ PointNext(q, i) = m /\ i \in Nat
      BY <1>1, <1>6, <2>1, PointStops
    <2>3. i \in 0..Len(q) - 1 /\ q[i + 1].at = 0 /\ i + 1 \in 1..Len(q)
      BY <1>6 DEF Starts, Stops
    <2>4. q[i + 1].rec \in PointRecs /\ q[i + 1].rec \in Recs
      BY <1>1, <2>3 DEF Recs
    <2>5. q[i + 2].rec = q[i + 1].rec /\ q[i + 2].at = 1
      <3>1. i + 1 + 1 <= Len(q) /\ 1 \in 0..RecLen(q[i + 1].rec) - 1 /\ i + 1 + 1 = i + 2
        BY <1>1, <2>2, <2>3, <2>4, RecLens, SizeAssumption DEF PointStop
      <3> QED BY <1>1, <2>3, <3>1, RecordAt
    <2>6. PICK b, rec : b = q[i + 2] /\ rec = q[i + 1].rec
      OBVIOUS
    <2>7. b.rec = rec
      BY <2>5, <2>6
    <2>8. f[i] = PointStep(q, type, i, f[m])
      BY <1>2, <2>2
    <2>9. PICK t : t = IF rec.type = type THEN DataPt(rec) ELSE <<>>
      OBVIOUS
    <2>10. f[i] = [calls |-> t \o f[m].calls, consumed |-> f[m].consumed]
      <3>1. f[i] = [calls |-> (IF b.rec.type = type THEN DataPt(b.rec) ELSE <<>>) \o f[m].calls,
                    consumed |-> f[m].consumed]
        BY <2>2, <2>6, <2>8, Zenon DEF PointStep
      <3> QED BY <2>7, <2>9, <3>1, Zenon
    <2>11. f[i].calls = t \o f[m].calls
      BY <2>10
    <2>12. m \in Nat
      BY <2>1, <2>3, <2>4, RecLens
    <2>13. g[i] = t \o g[m]
      BY <1>4, <2>2, <2>11, <2>12
    <2> QED BY <2>1, <2>4, <2>6, <2>9, <2>13
  <1>7. PointWalk(q, type).calls = g[0]
    BY <1>3, <1>4
  <1> QED BY <1>5, <1>6, <1>7 DEF PointCalls

\* What a list tells of: the records of its type among those consumed.
TellsOf(q, type, calls, consumed, enc, key, id) ==
  \E s : Holding(OfType(q, type, id, 0, consumed), s) /\ ToldIs(calls, enc, key, id, s)

LEMMA NothingSilent ==
  ASSUME NEW enc \in {"element", "map"}, NEW key, NEW id
  PROVE  Silent(<<>>, enc, key, id)
  BY QuietNothing, QuietSilent

LEMMA LogWalkTold ==
  ASSUME NEW q \in Seq(BytesOf(LogRecs)), Chain(q), NEW type, NEW id,
         NEW c, Consumes(q, c)
  PROVE  /\ LogWalk(q, type).consumed = c[0]
         /\ TellsOf(q, type, LogWalk(q, type).calls, c[0], "element", "pc", id)
         /\ Silent(LogWalk(q, type).calls, "map", "v", id)
  <1>1. q \in Seq(BytesOf(Recs))
    BY Bytes1 DEF Recs
  <1>2. LogWalk(q, type).consumed = c[0]
    BY <1>1, LogWalkConsumes, OneConsumption
  <1>3. PICK g : LogWalk(q, type).calls = g[0] /\ LogCalls(q, type, g)
    BY LogWalkCalls
  <1>4. PICK e, k : e = "element" /\ k = "pc"
    OBVIOUS
  <1>5. PICK m, v : m = "map" /\ v = "v"
    OBVIOUS
  <1>6. Silent(<<>>, e, k, id) /\ Silent(<<>>, m, v, id)
    BY <1>4, <1>5, NothingSilent
  <1>7. ASSUME NEW rec \in LogRecs
        PROVE  ToldIs(LogElement("list", rec), e, k, id, One(rec.id, id)) /\ Silent(LogElement("list", rec), m, v, id)
    <2>1. rec.format \in DOMAIN Formats
      BY DEF LogRecs
    <2> QED BY <1>4, <1>5, <2>1, LogElementTold, Zenon
  <1>8. ASSUME NEW i \in 0..Len(q), Starts(q, i), ~Stops(q, i)
        PROVE  \E t : /\ g[i] = t \o g[i + RecLen(q[i + 1].rec)]
                      /\ q[i + 1].rec.type = type => ToldIs(t, e, k, id, One(q[i + 1].rec.id, id))
                      /\ q[i + 1].rec.type # type => Silent(t, e, k, id)
                      /\ Silent(t, m, v, id)
    <2>1. PICK rec : rec = q[i + 1].rec
      OBVIOUS
    <2>2. PICK t : /\ g[i] = t \o g[i + RecLen(rec)] /\ rec \in LogRecs
                   /\ t = IF rec.type = type THEN LogElement("list", rec) ELSE <<>>
      BY <1>3, <1>8, <2>1 DEF LogCalls
    <2>3. PICK x : x = LogElement("list", rec)
      OBVIOUS
    <2>4. ToldIs(x, e, k, id, One(rec.id, id)) /\ Silent(x, m, v, id)
      BY <1>7, <2>2, <2>3, Zenon
    <2>5. (rec.type = type => t = x) /\ (rec.type # type => t = <<>>)
      BY <2>2, <2>3
    <2>6. /\ rec.type = type => ToldIs(t, e, k, id, One(rec.id, id))
          /\ rec.type # type => Silent(t, e, k, id)
          /\ Silent(t, m, v, id)
      BY <1>6, <2>4, <2>5, Zenon
    <2> QED BY <2>1, <2>2, <2>6, Zenon
  <1>9. WalkTells(q, g, type, e, k, id)
    BY <1>3, <1>6, <1>8, Zenon DEF WalkTells, LogCalls
  <1>10. WalkSilent(q, g, m, v, id)
    BY <1>3, <1>6, <1>8, Zenon DEF WalkSilent, LogCalls
  <1>11. Silent(g[0], m, v, id)
    BY <1>1, <1>10, WalkToldNothing, Zenon
  <1>12. TellsOf(q, type, g[0], c[0], e, k, id)
    BY <1>1, <1>9, WalkToldOf, Zenon DEF TellsOf
  <1> QED BY <1>2, <1>3, <1>4, <1>5, <1>11, <1>12, Zenon

LEMMA PointWalkTold ==
  ASSUME "NULL" \notin DataTypes, NEW q \in Seq(BytesOf(PointRecs)), Chain(q), NEW type, NEW id,
         NEW c, Consumes(q, c)
  PROVE  /\ PointWalk(q, type).consumed = c[0]
         /\ TellsOf(q, type, PointWalk(q, type).calls, c[0], "map", "v", id)
         /\ Silent(PointWalk(q, type).calls, "element", "pc", id)
  <1>1. q \in Seq(BytesOf(Recs))
    BY Bytes1 DEF Recs
  <1>2. PointWalk(q, type).consumed = c[0]
    BY <1>1, PointWalkConsumes, OneConsumption
  <1>3. PICK g : PointWalk(q, type).calls = g[0] /\ PointCalls(q, type, g)
    BY PointWalkCalls
  <1>4. PICK e, k : e = "map" /\ k = "v"
    OBVIOUS
  <1>5. PICK m, v : m = "element" /\ v = "pc"
    OBVIOUS
  <1>6. Silent(<<>>, e, k, id) /\ Silent(<<>>, m, v, id)
    BY <1>4, <1>5, NothingSilent
  <1>7. ASSUME NEW rec \in PointRecs
        PROVE  ToldIs(DataPt(rec), e, k, id, One(rec.id, id)) /\ Silent(DataPt(rec), m, v, id)
    <2>1. rec.data_type # "NULL"
      BY DEF PointRecs
    <2> QED BY <1>4, <1>5, <2>1, DataPtTold, Zenon
  <1>8. ASSUME NEW i \in 0..Len(q), Starts(q, i), ~Stops(q, i)
        PROVE  \E t : /\ g[i] = t \o g[i + RecLen(q[i + 1].rec)]
                      /\ q[i + 1].rec.type = type => ToldIs(t, e, k, id, One(q[i + 1].rec.id, id))
                      /\ q[i + 1].rec.type # type => Silent(t, e, k, id)
                      /\ Silent(t, m, v, id)
    <2>1. PICK rec : rec = q[i + 1].rec
      OBVIOUS
    <2>2. PICK t : /\ g[i] = t \o g[i + RecLen(rec)] /\ rec \in PointRecs
                   /\ t = IF rec.type = type THEN DataPt(rec) ELSE <<>>
      BY <1>3, <1>8, <2>1 DEF PointCalls
    <2>3. PICK x : x = DataPt(rec)
      OBVIOUS
    <2>4. ToldIs(x, e, k, id, One(rec.id, id)) /\ Silent(x, m, v, id)
      BY <1>7, <2>2, <2>3, Zenon
    <2>5. (rec.type = type => t = x) /\ (rec.type # type => t = <<>>)
      BY <2>2, <2>3
    <2>6. /\ rec.type = type => ToldIs(t, e, k, id, One(rec.id, id))
          /\ rec.type # type => Silent(t, e, k, id)
          /\ Silent(t, m, v, id)
      BY <1>6, <2>4, <2>5, Zenon
    <2> QED BY <2>1, <2>2, <2>6, Zenon
  <1>9. WalkTells(q, g, type, e, k, id)
    BY <1>3, <1>6, <1>8, Zenon DEF WalkTells, PointCalls
  <1>10. WalkSilent(q, g, m, v, id)
    BY <1>3, <1>6, <1>8, Zenon DEF WalkSilent, PointCalls
  <1>11. Silent(g[0], m, v, id)
    BY <1>1, <1>10, WalkToldNothing, Zenon
  <1>12. TellsOf(q, type, g[0], c[0], e, k, id)
    BY <1>1, <1>9, WalkToldOf, Zenon DEF TellsOf
  <1> QED BY <1>2, <1>3, <1>4, <1>5, <1>11, <1>12, Zenon

\* What a part of a document tells of: all the records that it consumes.
TellsAll(q, part, enc, key, id) ==
  \E s : Holding(Begun(q, id, 0, part.consumed), s) /\ ToldIs(part.calls, enc, key, id, s)

LEMMA ContainerSilent ==
  ASSUME NEW enc \in {"element", "map"}, NEW key, NEW id,
         NEW in, NEW k, NEW e, NEW kind, NEW body, Silent(body, enc, key, id)
  PROVE  Silent(Container(in, k, e, kind, body), enc, key, id)
  BY ContainerTold, Zenon DEF Silent

\* The header behind the lists tells of nothing.
LEMMA WithHdrTold ==
  ASSUME NEW lists, NEW k, NEW targets, Len(targets) \in Nat, NEW data, NEW id
  PROVE  /\ WithHdr(lists, k, targets, data).consumed = lists.consumed
         /\ \A enc \in {"element", "map"} : \A key, n : ToldIs(lists.calls, enc, key, id, n) =>
              ToldIs(WithHdr(lists, k, targets, data).calls, enc, key, id, n)
  <1>1. PICK hdr : hdr = IF lists.consumed > 0 THEN DataHdr(k, targets, MetaIdx(data[1])) ELSE <<>>
    OBVIOUS
  <1>2. Quiet(hdr)
    BY <1>1, DataHdrQuiet, QuietNothing
  <1>3. WithHdr(lists, k, targets, data) = [calls |-> lists.calls \o hdr, consumed |-> lists.consumed]
    BY <1>1, Zenon DEF WithHdr
  <1>4. /\ WithHdr(lists, k, targets, data).consumed = lists.consumed
        /\ WithHdr(lists, k, targets, data).calls = lists.calls \o hdr
    BY <1>3
  <1>5. ASSUME NEW enc \in {"element", "map"}, NEW key, NEW n, ToldIs(lists.calls, enc, key, id, n)
        PROVE  ToldIs(WithHdr(lists, k, targets, data).calls, enc, key, id, n)
    <2>1. ToldIs(lists.calls \o hdr, enc, key, id, n)
      BY <1>2, <1>5, ToldQuiet, Zenon
    <2> QED BY <1>4, <2>1, Zenon
  <1> QED BY <1>4, <1>5

LEMMA CriticalTold ==
  ASSUME NEW q \in Seq(BytesOf(LogRecs)), Chain(q), NEW id
  PROVE  /\ TellsAll(q, CriticalData(q), "element", "pc", id)
         /\ Silent(CriticalData(q).calls, "map", "v", id)
  <1>1. q \in Seq(BytesOf(Recs)) /\ Len(q) \in Nat /\ \A k \in 1..Len(q) : q[k].rec \in LogRecs
    BY Bytes1 DEF Recs
  <1>2. PICK enc, key, map, v : enc = "element" /\ key = "pc" /\ map = "map" /\ v = "v"
    OBVIOUS
  <1>3. enc \in {"element", "map"} /\ map \in {"element", "map"}
    BY <1>2
  <1>4. CASE q = <<>>
    <2>1. CriticalData(q).consumed = 0 /\ CriticalData(q).calls = <<>>
      BY <1>4 DEF CriticalData, Nothing
    <2>2. Begun(q, id, 0, 0) = {} /\ Holding({}, 0)
      BY FS_EmptySet DEF Begun, Holding
    <2>3. Silent(<<>>, enc, key, id) /\ Silent(<<>>, map, v, id)
      BY <1>3, NothingSilent
    <2>4. Silent(CriticalData(q).calls, map, v, id) /\ ToldIs(CriticalData(q).calls, enc, key, id, 0)
      BY <2>1, <2>3, Zenon DEF Silent
    <2>5. TellsAll(q, CriticalData(q), enc, key, id)
      BY <2>1, <2>2, <2>4, Zenon DEF TellsAll
    <2> QED BY <1>2, <2>4, <2>5, Zenon
  <1>5. CASE q # <<>>
    <2>1. PICK c : Consumes(q, c)
      BY LogWalkConsumes
    <2>2. PICK t1, t2, t3 : t1 = "error" /\ t2 = "warning" /\ t3 = "event"
      OBVIOUS
    <2>3. PICK w1, w2, w3 : w1 = LogWalk(q, t1) /\ w2 = LogWalk(q, t2) /\ w3 = LogWalk(q, t3)
      OBVIOUS
    <2>4. w1.consumed = c[0] /\ w2.consumed = c[0] /\ w3.consumed = c[0]
      BY <2>1, <2>3, LogWalkTold, Zenon
    <2>5. Silent(w1.calls, map, v, id) /\ Silent(w2.calls, map, v, id) /\ Silent(w3.calls, map, v, id)
      BY <1>2, <2>1, <2>3, LogWalkTold, Zenon
    <2>6. /\ TellsOf(q, t1, w1.calls, c[0], enc, key, id)
          /\ TellsOf(q, t2, w2.calls, c[0], enc, key, id)
          /\ TellsOf(q, t3, w3.calls, c[0], enc, key, id)
      BY <1>2, <2>1, <2>3, LogWalkTold, Zenon
    <2>7. PICK n : n = c[0]
      OBVIOUS
    <2>8. PICK s1 : Holding(OfType(q, t1, id, 0, n), s1) /\ ToldIs(w1.calls, enc, key, id, s1)
      BY <2>6, <2>7 DEF TellsOf
    <2>9. PICK s2 : Holding(OfType(q, t2, id, 0, n), s2) /\ ToldIs(w2.calls, enc, key, id, s2)
      BY <2>6, <2>7 DEF TellsOf
    <2>10. PICK s3 : Holding(OfType(q, t3, id, 0, n), s3) /\ ToldIs(w3.calls, enc, key, id, s3)
      BY <2>6, <2>7 DEF TellsOf
    <2>11. PICK A, B, C : A = OfType(q, t1, id, 0, n) /\ B = OfType(q, t2, id, 0, n) /\ C = OfType(q, t3, id, 0, n)
      OBVIOUS
    <2>12. n \in 0..Len(q)
      BY <1>1, <2>1, <2>7, ChunkConsumed DEF Between
    <2>13. Begun(q, id, 0, n) = A \cup B \cup C /\ A \cap B = {} /\ (A \cup B) \cap C = {}
      <3>1. t1 # t2 /\ t1 # t3 /\ t2 # t3
        BY <2>2
      <3>2. \A k \in Begun(q, id, 0, n) : q[k].rec.type \in {t1, t2, t3}
        <4> SUFFICES ASSUME NEW k \in Begun(q, id, 0, n) PROVE q[k].rec.type \in {t1, t2, t3}
          OBVIOUS
        <4>1. k \in 1..Len(q)
          BY <1>1, <2>12 DEF Begun
        <4>2. q[k].rec \in LogRecs
          BY <1>1, <4>1
        <4> QED BY <2>2, <4>2 DEF LogRecs, LogTypes
      <3> QED BY <2>11, <3>1, <3>2 DEF OfType
    <2>14. PICK x : x = s1 + s2
      OBVIOUS
    <2>15. PICK s : s = x + s3
      OBVIOUS
    <2>16. Sums(s1, s2, x) /\ Sums(x, s3, s)
      BY <2>8, <2>9, <2>10, <2>14, <2>15 DEF Holding, Sums
    <2>17. Holding(A \cup B, x)
      BY <2>8, <2>9, <2>11, <2>13, <2>16, HoldingBoth, Zenon
    <2>18. Holding(A \cup B \cup C, s)
      <3>1. PICK D : D = A \cup B
        OBVIOUS
      <3>2. Holding(D, x) /\ Holding(C, s3) /\ D \cap C = {}
        BY <2>10, <2>11, <2>13, <2>17, <3>1, Zenon
      <3>3. Holding(D \cup C, s)
        BY <2>16, <3>2, HoldingBoth, Zenon
      <3> QED BY <3>1, <3>3, Zenon
    <2>19. PICK l1, l2, l3 : /\ l1 = Container("log_map", "errors", "list", "array", w1.calls)
                             /\ l2 = Container("log_map", "warnings", "list", "array", w2.calls)
                             /\ l3 = Container("log_map", "events", "list", "array", w3.calls)
      OBVIOUS
    <2>20. ToldIs(l1, enc, key, id, s1) /\ ToldIs(l2, enc, key, id, s2) /\ ToldIs(l3, enc, key, id, s3)
      BY <1>3, <2>8, <2>9, <2>10, <2>19, ContainerTold, Zenon
    <2>21. Silent(l1, map, v, id) /\ Silent(l2, map, v, id) /\ Silent(l3, map, v, id)
      BY <1>3, <2>5, <2>19, ContainerSilent, Zenon
    <2>22. ToldIs(l1 \o l2, enc, key, id, x)
      BY <2>16, <2>20, ToldThen, Zenon
    <2>23. ToldIs(l1 \o l2 \o l3, enc, key, id, s)
      BY <2>16, <2>20, <2>22, ToldThen, Zenon
    <2>24. Silent(l1 \o l2, map, v, id)
      BY <2>21, SilentThen, Zenon
    <2>25. Silent(l1 \o l2 \o l3, map, v, id)
      BY <2>21, <2>24, SilentThen, Zenon
    <2>26. PICK all : all = Container("s_diag_data_map", "traces", "log_map", "map", l1 \o l2 \o l3)
      OBVIOUS
    <2>27. ToldIs(all, enc, key, id, s) /\ Silent(all, map, v, id)
      BY <1>3, <2>23, <2>25, <2>26, ContainerTold, ContainerSilent, Zenon
    <2>28. DiagLogs(q).calls = all /\ DiagLogs(q).consumed = n
      <3>1. DiagLogs(q).calls = all
        BY <2>2, <2>3, <2>19, <2>26, Zenon DEF DiagLogs, Traces
      <3>2. DiagLogs(q).consumed = MaxOf(w1.consumed, MaxOf(w2.consumed, w3.consumed))
        BY <2>2, <2>3 DEF DiagLogs, Traces
      <3> QED BY <2>4, <2>7, <3>1, <3>2 DEF MaxOf
    <2>29. PICK ts, k, lists : ts = <<"traces">> /\ k = "meta_c" /\ lists = DiagLogs(q)
      OBVIOUS
    <2>30. Len(ts) \in Nat
      BY <2>29
    <2>31. CriticalData(q) = WithHdr(lists, k, ts, q)
      BY <1>5, <2>29, Zenon DEF CriticalData
    <2>32. lists.calls = all /\ lists.consumed = n
      BY <2>28, <2>29, Zenon
    <2>33. WithHdr(lists, k, ts, q).consumed = n
      BY <2>30, <2>32, WithHdrTold, Zenon
    <2>34. ToldIs(lists.calls, enc, key, id, s) /\ ToldIs(lists.calls, map, v, id, 0)
      BY <2>27, <2>32, Zenon DEF Silent
    <2>35. ToldIs(WithHdr(lists, k, ts, q).calls, enc, key, id, s) /\ ToldIs(WithHdr(lists, k, ts, q).calls, map, v, id, 0)
      BY <1>3, <2>30, <2>34, WithHdrTold, Zenon
    <2>36. TellsAll(q, CriticalData(q), enc, key, id)
      <3>1. Holding(Begun(q, id, 0, CriticalData(q).consumed), s)
        BY <2>13, <2>18, <2>31, <2>33, Zenon
      <3> QED BY <2>31, <2>35, <3>1, Zenon DEF TellsAll
    <2>37. Silent(CriticalData(q).calls, map, v, id)
      BY <2>31, <2>35, Zenon DEF Silent
    <2> QED BY <1>2, <2>36, <2>37, Zenon
  <1> QED BY <1>4, <1>5

LEMMA NonCriticalTold ==
  ASSUME "NULL" \notin DataTypes, NEW q \in Seq(BytesOf(PointRecs)), Chain(q), NEW id
  PROVE  /\ TellsAll(q, NonCriticalData(q), "map", "v", id)
         /\ Silent(NonCriticalData(q).calls, "element", "pc", id)
  <1>1. q \in Seq(BytesOf(Recs)) /\ Len(q) \in Nat /\ \A k \in 1..Len(q) : q[k].rec \in PointRecs
    BY Bytes1 DEF Recs
  <1>2. PICK enc, key, map, v : enc = "map" /\ key = "v" /\ map = "element" /\ v = "pc"
    OBVIOUS
  <1>3. enc \in {"element", "map"} /\ map \in {"element", "map"}
    BY <1>2
  <1>4. PICK ts, k, m, p, lists :
          /\ ts = <<"metrics", "params">> /\ k = "meta_nc"
          /\ m = DataPoints(q, "metrics", "metrics") /\ p = DataPoints(q, "params", "variable")
          /\ lists = Points(m, p)
    OBVIOUS
  <1>5. Len(ts) \in Nat
    BY <1>4
  <1>6. NonCriticalData(q) = WithHdr(lists, k, ts, q)
    BY <1>4, Zenon DEF NonCriticalData
  <1>7. lists.calls = m.calls \o p.calls /\ lists.consumed = MaxOf(m.consumed, p.consumed)
    BY <1>4 DEF Points
  <1>8. \E s : /\ Holding(Begun(q, id, 0, lists.consumed), s) /\ ToldIs(lists.calls, enc, key, id, s)
               /\ ToldIs(lists.calls, map, v, id, 0)
    <2>1. CASE Len(q) <= HdrSize
      <3>1. m = Nothing /\ p = Nothing
        BY <1>4, <2>1 DEF DataPoints
      <3>2. m.calls = <<>> /\ p.calls = <<>> /\ m.consumed = 0 /\ p.consumed = 0
        BY <3>1 DEF Nothing
      <3>3. lists.consumed = 0
        BY <1>7, <3>2 DEF MaxOf
      <3>4. Begun(q, id, 0, 0) = {} /\ Holding({}, 0)
        BY FS_EmptySet DEF Begun, Holding
      <3>5. Silent(<<>>, enc, key, id) /\ Silent(<<>>, map, v, id)
        BY <1>3, NothingSilent
      <3>6. Silent(lists.calls, enc, key, id) /\ Silent(lists.calls, map, v, id)
        BY <1>7, <3>2, <3>5, SilentThen, Zenon
      <3> QED BY <3>3, <3>4, <3>6, Zenon DEF Silent
    <2>2. CASE ~(Len(q) <= HdrSize)
      <3>1. PICK c : Consumes(q, c)
        BY PointWalkConsumes
      <3>2. PICK t1, t2, w1, w2 : /\ t1 = "metrics" /\ t2 = "variable"
                                  /\ w1 = PointWalk(q, t1) /\ w2 = PointWalk(q, t2)
        OBVIOUS
      <3>3. w1.consumed = c[0] /\ w2.consumed = c[0]
        BY <3>1, <3>2, PointWalkTold, Zenon
      <3>4. Silent(w1.calls, map, v, id) /\ Silent(w2.calls, map, v, id)
        BY <1>2, <3>1, <3>2, PointWalkTold, Zenon
      <3>5. TellsOf(q, t1, w1.calls, c[0], enc, key, id) /\ TellsOf(q, t2, w2.calls, c[0], enc, key, id)
        BY <1>2, <3>1, <3>2, PointWalkTold, Zenon
      <3>6. PICK n : n = c[0]
        OBVIOUS
      <3>7. PICK s1 : Holding(OfType(q, t1, id, 0, n), s1) /\ ToldIs(w1.calls, enc, key, id, s1)
        BY <3>5, <3>6 DEF TellsOf
      <3>8. PICK s2 : Holding(OfType(q, t2, id, 0, n), s2) /\ ToldIs(w2.calls, enc, key, id, s2)
        BY <3>5, <3>6 DEF TellsOf
      <3>9. PICK A, B, s : A = OfType(q, t1, id, 0, n) /\ B = OfType(q, t2, id, 0, n) /\ s = s1 + s2
        OBVIOUS
      <3>10. n \in 0..Len(q)
        BY <1>1, <3>1, <3>6, ChunkConsumed DEF Between
      <3>11. Begun(q, id, 0, n) = A \cup B /\ A \cap B = {}
        <4>1. t1 # t2
          BY <3>2
        <4>2. \A j \in Begun(q, id, 0, n) : q[j].rec.type \in {t1, t2}
          <5> SUFFICES ASSUME NEW j \in Begun(q, id, 0, n) PROVE q[j].rec.type \in {t1, t2}
            OBVIOUS
          <5>1. j \in 1..Len(q)
            BY <1>1, <3>10 DEF Begun
          <5>2. q[j].rec \in PointRecs
            BY <1>1, <5>1
          <5> QED BY <3>2, <5>2 DEF PointRecs, PointTypes
        <4> QED BY <3>9, <4>1, <4>2 DEF OfType
      <3>12. Sums(s1, s2, s)
        BY <3>7, <3>8, <3>9 DEF Holding, Sums
      <3>13. Holding(A \cup B, s)
        BY <3>7, <3>8, <3>9, <3>11, <3>12, HoldingBoth, Zenon
      <3>14. /\ m.calls = Container("s_diag_data_map", "metrics", "array", "array", w1.calls)
             /\ p.calls = Container("s_diag_data_map", "params", "array", "array", w2.calls)
             /\ m.consumed = n /\ p.consumed = n
        BY <1>4, <2>2, <3>2, <3>3, <3>6 DEF DataPoints
      <3>15. ToldIs(m.calls, enc, key, id, s1) /\ ToldIs(p.calls, enc, key, id, s2)
        BY <1>3, <3>7, <3>8, <3>14, ContainerTold, Zenon
      <3>16. Silent(m.calls, map, v, id) /\ Silent(p.calls, map, v, id)
        BY <1>3, <3>4, <3>14, ContainerSilent, Zenon
      <3>17. ToldIs(lists.calls, enc, key, id, s)
        <4>1. ToldIs(m.calls \o p.calls, enc, key, id, s)
          BY <3>12, <3>15, ToldThen, Zenon
        <4> QED BY <1>7, <4>1, Zenon
      <3>18. Silent(lists.calls, map, v, id)
        BY <1>7, <3>16, SilentThen, Zenon
      <3>19. lists.consumed = n
        BY <1>7, <3>14 DEF MaxOf
      <3> QED BY <3>11, <3>13, <3>17, <3>18, <3>19, Zenon DEF Silent
    <2> QED BY <2>1, <2>2
  <1>9. PICK s : /\ Holding(Begun(q, id, 0, lists.consumed), s) /\ ToldIs(lists.calls, enc, key, id, s)
                 /\ ToldIs(lists.calls, map, v, id, 0)
    BY <1>8
  <1>10. WithHdr(lists, k, ts, q).consumed = lists.consumed
    BY <1>5, WithHdrTold, Zenon
  <1>11. ToldIs(WithHdr(lists, k, ts, q).calls, enc, key, id, s) /\ ToldIs(WithHdr(lists, k, ts, q).calls, map, v, id, 0)
    BY <1>3, <1>5, <1>9, WithHdrTold, Zenon
  <1>12. TellsAll(q, NonCriticalData(q), enc, key, id)
    BY <1>6, <1>9, <1>10, <1>11, Zenon DEF TellsAll
  <1>13. Silent(NonCriticalData(q).calls, map, v, id)
    BY <1>6, <1>11, Zenon DEF Silent
  <1> QED BY <1>2, <1>12, <1>13, Zenon

-----------------------------------------------------------------------------
(* Every record is in a buffer or told                                      *)

\* What a document tells of is what its two parts tell of.
LEMMA DocumentTold ==
  ASSUME NEW hdr, NEW id, NEW c, NEW n, NEW x, NEW y,
         ToldIs(c, "element", "pc", id, x), Silent(c, "map", "v", id),
         ToldIs(n, "map", "v", id, y), Silent(n, "element", "pc", id)
  PROVE  /\ x \in Nat /\ Told(DataBegin(hdr) \o c \o n \o DataEnd, "element", "pc", id) = x
         /\ y \in Nat /\ Told(DataBegin(hdr) \o c \o n \o DataEnd, "map", "v", id) = y
  <1>1. PICK e, k, m, v : e = "element" /\ k = "pc" /\ m = "map" /\ v = "v"
    OBVIOUS
  <1>2. e \in {"element", "map"} /\ m \in {"element", "map"}
    BY <1>1
  <1>3. PICK a, z : a = DataBegin(hdr) /\ z = DataEnd
    OBVIOUS
  <1>4. Quiet(a) /\ Quiet(z)
    BY <1>3, FrameQuiet
  <1>5. ToldIs(c, e, k, id, x) /\ Silent(c, m, v, id) /\ ToldIs(n, m, v, id, y) /\ Silent(n, e, k, id)
    BY <1>1, Zenon
  <1>6. ToldIs(a \o c, e, k, id, x)
    BY <1>2, <1>4, <1>5, ToldQuiet, Zenon
  <1>7. ToldIs(a \o c \o n, e, k, id, x)
    BY <1>5, <1>6, ToldSilent, Zenon
  <1>8. ToldIs(a \o c \o n \o z, e, k, id, x)
    BY <1>2, <1>4, <1>7, ToldQuiet, Zenon
  <1>9. Silent(a, m, v, id)
    BY <1>2, <1>4, QuietSilent, Zenon
  <1>10. Silent(a \o c, m, v, id)
    BY <1>5, <1>9, SilentThen, Zenon
  <1>11. ToldIs(a \o c \o n, m, v, id, y)
    BY <1>5, <1>10, ToldSilent, Zenon
  <1>12. ToldIs(a \o c \o n \o z, m, v, id, y)
    BY <1>2, <1>4, <1>11, ToldQuiet, Zenon
  <1>13. x \in Nat /\ Told(a \o c \o n \o z, e, k, id) = x /\ y \in Nat /\ Told(a \o c \o n \o z, m, v, id) = y
    BY <1>8, <1>12, Zenon DEF ToldIs
  <1> QED BY <1>1, <1>3, <1>13, Zenon

Beginnings(q, id) == {k \in 1..Len(q) : q[k].at = 0 /\ q[k].rec.id = id}

LEMMA HeldIs ==
  ASSUME NEW q, Len(q) \in Nat, NEW id
  PROVE  Held(q, id) = Cardinality(Beginnings(q, id)) /\ Held(q, id) \in Nat
  <1>1. IsFiniteSet(1..Len(q))
    BY FS_Interval
  <1>2. IsFiniteSet(Beginnings(q, id))
    BY <1>1, FS_Subset DEF Beginnings
  <1>3. Held(q, id) = Cardinality(Beginnings(q, id))
    BY DEF Held, Beginnings
  <1> QED BY <1>2, <1>3, FS_CardinalityType

LEMMA HeldNothing == \A id : Held(<<>>, id) = 0
  <1>1. ASSUME NEW id PROVE Held(<<>>, id) = 0
    <2>1. Held(<<>>, id) = Cardinality({})
      BY DEF Held
    <2> QED BY <2>1, FS_EmptySet
  <1> QED BY <1>1

\* What is released, and what is still held.
LEMMA HeldDropped ==
  ASSUME NEW S, NEW q \in Seq(S), NEW n \in 0..Len(q), NEW id,
         NEW p, \A i \in 1..n : p[i] = q[i], NEW s, Holding(Begun(p, id, 0, n), s)
  PROVE  Sums(s, Held(Drop(q, n), id), Held(q, id))
  <1>1. PICK r : r = Drop(q, n)
    OBVIOUS
  <1>2. r \in Seq(S) /\ Len(r) = Len(q) - n /\ \A i \in 1..Len(r) : r[i] = q[n + i]
    BY <1>1 DEF Drop
  <1>3. PICK l : l = Len(r) /\ l \in Nat /\ Len(q) = n + l /\ n \in Nat
    BY <1>2
  <1>4. PICK A, B, C : A = Begun(p, id, 0, n) /\ B = Beginnings(r, id) /\ C = Beginnings(q, id)
    OBVIOUS
  <1>5. /\ A = {k \in 1..n : q[k].at = 0 /\ q[k].rec.id = id}
        /\ B = {k \in 1..l : r[k].at = 0 /\ r[k].rec.id = id}
        /\ C = {k \in 1..n + l : q[k].at = 0 /\ q[k].rec.id = id}
    <2>1. A = {k \in 1..n : p[k].at = 0 /\ p[k].rec.id = id}
      BY <1>4 DEF Begun
    <2> QED BY <1>3, <1>4, <2>1 DEF Beginnings
  <1>6. C = A \cup {n + b : b \in B}
    <2>1. ASSUME NEW k \in C PROVE k \in A \cup {n + b : b \in B}
      <3>1. k \in 1..n + l /\ q[k].at = 0 /\ q[k].rec.id = id
        BY <1>5
      <3>2. CASE k <= n
        BY <1>3, <1>5, <3>1, <3>2
      <3>3. CASE k > n
        <4>1. PICK b \in 1..l : k = n + b
          <5>1. k - n \in 1..l /\ k = n + (k - n)
            BY <1>3, <3>1, <3>3
          <5> QED BY <5>1
        <4>2. b \in B
          BY <1>2, <1>3, <1>5, <3>1, <4>1
        <4> QED BY <4>1, <4>2
      <3> QED BY <1>3, <3>1, <3>2, <3>3
    <2>2. ASSUME NEW k \in A PROVE k \in C
      BY <1>3, <1>5
    <2>3. ASSUME NEW b \in B PROVE n + b \in C
      <3>1. b \in 1..l /\ r[b].at = 0 /\ r[b].rec.id = id
        BY <1>5
      <3>2. n + b \in 1..n + l /\ q[n + b] = r[b]
        BY <1>2, <1>3, <3>1
      <3> QED BY <1>5, <3>1, <3>2
    <2> QED BY <2>1, <2>2, <2>3
  <1>7. A \in SUBSET (1..n) /\ B \in SUBSET (1..l) /\ Shifted(C, A, B, n)
    BY <1>5, <1>6 DEF Shifted
  <1>8. Sums(Cardinality(A), Cardinality(B), Cardinality(C))
    BY <1>3, <1>7, PlacesAdd, Zenon
  <1>9. Cardinality(A) = s
    BY <1>4 DEF Holding
  <1>10. Held(r, id) = Cardinality(B) /\ Held(q, id) = Cardinality(C)
    BY <1>2, <1>3, <1>4, HeldIs
  <1> QED BY <1>1, <1>8, <1>9, <1>10, Zenon

\* A record that is added is held once.
LEMMA HeldGrown ==
  ASSUME NEW S, NEW q \in Seq(S), NEW rec, NEW n \in Nat, n >= 2, NEW id
  PROVE  Sums(Held(q, id), One(rec.id, id), Held(q \o Bytes(rec, n), id))
  <1>1. PICK b, r, l : b = Bytes(rec, n) /\ r = q \o b /\ l = Len(q)
    OBVIOUS
  <1>2. IsSeq(b) /\ Len(b) = n /\ \A k \in 1..n : b[k].rec = rec /\ b[k].at = k - 1
    <2>1. b = [k \in 1..n |-> [rec |-> rec, at |-> k - 1]]
      BY <1>1 DEF Bytes
    <2>2. b = [k \in 1..n |-> b[k]]
      BY <2>1
    <2>3. \A k \in 1..n : b[k].rec = rec /\ b[k].at = k - 1
      BY <2>1
    <2> QED BY <2>2, <2>3, IsSeqOf
  <1>3. IsSeq(q) /\ l \in Nat
    BY <1>1 DEF IsSeq
  <1>4. /\ Len(r) = l + n
        /\ \A i \in 1..l : r[i] = q[i]
        /\ \A i \in 1..n : r[l + i] = b[i]
    <2>1. Cats(r, q, b)
      BY <1>1 DEF Cats
    <2>2. After(r, q, b)
      BY <1>2, <1>3, <2>1, Catenated, Zenon
    <2> QED BY <1>1, <1>2, <2>2 DEF After
  <1>5. PICK A, B, C : /\ A = Beginnings(q, id) /\ C = Beginnings(r, id)
                       /\ B = IF rec.id = id THEN {1} ELSE {}
    OBVIOUS
  <1>6. /\ A = {k \in 1..l : q[k].at = 0 /\ q[k].rec.id = id}
        /\ C = {k \in 1..l + n : r[k].at = 0 /\ r[k].rec.id = id}
    BY <1>1, <1>4, <1>5 DEF Beginnings
  <1>7. \A k \in 1..n : k \in B <=> b[k].at = 0 /\ b[k].rec.id = id
    <2> SUFFICES ASSUME NEW k \in 1..n PROVE k \in B <=> b[k].at = 0 /\ b[k].rec.id = id
      OBVIOUS
    <2>1. b[k].rec = rec /\ b[k].at = k - 1
      BY <1>2
    <2>2. b[k].at = 0 <=> k = 1
      BY <2>1
    <2> QED BY <1>5, <2>1, <2>2
  <1>8. C = A \cup {l + x : x \in B}
    <2>1. ASSUME NEW k \in C PROVE k \in A \cup {l + x : x \in B}
      <3>1. k \in 1..l + n /\ r[k].at = 0 /\ r[k].rec.id = id
        BY <1>6
      <3>2. CASE k <= l
        BY <1>3, <1>4, <1>6, <3>1, <3>2
      <3>3. CASE k > l
        <4>1. PICK x \in 1..n : k = l + x
          <5>1. k - l \in 1..n /\ k = l + (k - l)
            BY <1>3, <3>1, <3>3
          <5> QED BY <5>1
        <4>2. x \in B
          BY <1>4, <1>7, <3>1, <4>1
        <4> QED BY <4>1, <4>2
      <3> QED BY <1>3, <3>1, <3>2, <3>3
    <2>2. ASSUME NEW k \in A PROVE k \in C
      BY <1>3, <1>4, <1>6
    <2>3. ASSUME NEW x \in B PROVE l + x \in C
      <3>1. x \in 1..n
        BY <1>5
      <3>2. b[x].at = 0 /\ b[x].rec.id = id
        BY <1>7, <3>1
      <3>3. l + x \in 1..l + n /\ r[l + x] = b[x]
        BY <1>3, <1>4, <3>1
      <3> QED BY <1>6, <3>2, <3>3
    <2> QED BY <2>1, <2>2, <2>3
  <1>9. A \in SUBSET (1..l) /\ B \in SUBSET (1..n) /\ Shifted(C, A, B, l)
    BY <1>5, <1>6, <1>8 DEF Shifted
  <1>10. Sums(Cardinality(A), Cardinality(B), Cardinality(C))
    BY <1>3, <1>9, PlacesAdd, Zenon
  <1>11. Cardinality(B) = One(rec.id, id)
    BY <1>5, FS_EmptySet, FS_Singleton DEF One
  <1>12. Len(r) \in Nat
    BY <1>3, <1>4
  <1>13. Held(q, id) = Cardinality(A) /\ Held(r, id) = Cardinality(C)
    BY <1>1, <1>3, <1>5, <1>12, HeldIs
  <1> QED BY <1>1, <1>10, <1>11, <1>13, Zenon

\* The place of a record among those logged and reported, and how often it is
\* where it should be.
Due(i, n, D) == IF i <= n /\ i \notin D THEN 1 ELSE 0

TakenInv ==
  /\ told \in [1..MaxCalls -> Nat] /\ direct \subseteq 1..Len(logged)
  /\ \A i \in 1..MaxCalls : told[i] + Held(crit, i) + Held(nc, i) = Due(i, Len(logged), direct)

LEMMA TakenStart == Init => TakenInv
  <1> SUFFICES ASSUME Init PROVE TakenInv
    OBVIOUS
  <1>1. told = [i \in 1..MaxCalls |-> 0] /\ crit = <<>> /\ nc = <<>> /\ logged = <<>> /\ direct = {}
    BY DEF Init
  <1>2. ASSUME NEW i \in 1..MaxCalls PROVE told[i] + Held(crit, i) + Held(nc, i) = Due(i, Len(logged), direct)
    <2>1. told[i] = 0 /\ Held(crit, i) = 0 /\ Held(nc, i) = 0
      BY <1>1, HeldNothing
    <2>2. Len(logged) = 0 /\ ~(i <= 0)
      BY <1>1
    <2> QED BY <2>1, <2>2 DEF Due
  <1> QED BY <1>1, <1>2 DEF TakenInv

\* A record that is added is the next one.
Within(D, n) == D \subseteq 1..n
Owed(i, n, D, t, h, o) == t + h + o = Due(i, n, D)

LEMMA AddedOnce ==
  ASSUME NEW i \in Nat, NEW n \in Nat, NEW D, Within(D, n),
         NEW t \in Nat, NEW h \in Nat, NEW o \in Nat, Owed(i, n, D, t, h, o),
         NEW id, id = n + 1, NEW new, Sums(h, One(id, i), new)
  PROVE  Owed(i, id, D, t, new, o)
  <1>1. new = h + One(id, i)
    BY DEF Sums
  <1>2. CASE i <= n
    <2>2. i <= id /\ id # i
      BY <1>2
    <2>1. One(id, i) = 0
      BY <2>2 DEF One
    <2>3. CASE i \in D
      <3>1. Due(i, id, D) = 0 /\ Due(i, n, D) = 0
        BY <2>3 DEF Due
      <3> QED BY <1>1, <2>1, <3>1 DEF Owed
    <2>4. CASE i \notin D
      <3>1. Due(i, id, D) = 1 /\ Due(i, n, D) = 1
        BY <1>2, <2>2, <2>4 DEF Due
      <3> QED BY <1>1, <2>1, <3>1 DEF Owed
    <2> QED BY <2>3, <2>4
  <1>3. CASE i = n + 1
    <2>1. i \notin D
      BY <1>3 DEF Within
    <2>2. One(id, i) = 1 /\ Due(i, n, D) = 0 /\ Due(i, id, D) = 1
      BY <1>3, <2>1 DEF One, Due
    <2> QED BY <1>1, <2>2 DEF Owed
  <1>4. CASE i > n + 1
    <2>1. One(id, i) = 0 /\ Due(i, n, D) = 0 /\ Due(i, id, D) = 0
      BY <1>4 DEF One, Due
    <2> QED BY <1>1, <2>1 DEF Owed
  <1> QED BY <1>2, <1>3, <1>4

LEMMA HeldInBuffers ==
  ASSUME IInv, NEW i
  PROVE  Held(crit, i) \in Nat /\ Held(nc, i) \in Nat /\ Len(logged) \in Nat
  <1>1. Len(crit) \in Nat /\ Len(nc) \in Nat /\ Len(logged) \in Nat
    BY DEF IInv, Buffers
  <1> QED BY <1>1, HeldIs

LEMMA LogTaken ==
  ASSUME IInv, TakenInv, LogCall
  PROVE  TakenInv'
  <1>1. PICK type \in LogTypes, format \in DOMAIN Formats, via \in {"write", "writev", "event"}, wifi \in BOOLEAN :
          Log(type, format, via, wifi)
    BY DEF LogCall
  <1>2. PICK rec \in LogRecs, none \in BOOLEAN : LogAdds(rec, none)
    BY <1>1, LogStepAdds
  <1>3. nc' = nc /\ told' = told
    BY <1>1 DEF Log, LogAs
  <1>4. RecLen(rec) \in Nat /\ RecLen(rec) >= 2
    BY RecLens DEF Recs
  <1>5. Len(logged) \in Nat /\ Len(logged') = Len(logged) + 1 /\ rec.id = Len(logged) + 1
    BY <1>2 DEF IInv, Buffers, LogAdds
  <1>6. direct' \subseteq 1..Len(logged')
    <2>1. direct' \subseteq direct \cup {rec.id}
      BY <1>2 DEF LogAdds
    <2>2. direct \subseteq 1..Len(logged)
      BY DEF TakenInv
    <2> QED BY <1>5, <2>1, <2>2
  <1>7. ASSUME NEW i \in 1..MaxCalls
        PROVE  told'[i] + Held(crit', i) + Held(nc', i) = Due(i, Len(logged'), direct')
    <2>1. PICK t, h, o, n, id, new : /\ t = told[i] /\ h = Held(crit, i) /\ o = Held(nc, i) /\ n = Len(logged)
                                     /\ id = rec.id /\ new = Held(crit', i)
      OBVIOUS
    <2>2. t \in Nat /\ h \in Nat /\ o \in Nat /\ n \in Nat /\ i \in Nat
      BY <2>1, HeldInBuffers DEF TakenInv
    <2>3. t + h + o = Due(i, n, direct) /\ direct \subseteq 1..n
      BY <2>1 DEF TakenInv
    <2>6. Owed(i, n, direct, t, h, o) /\ Within(direct, n)
      BY <2>3 DEF Owed, Within
    <2>4. CASE ~none
      <3>1. crit' = crit \o Bytes(rec, RecLen(rec)) /\ direct' = direct
        BY <1>2, <2>4 DEF LogAdds
      <3>2. crit \in Seq(BytesOf(LogRecs))
        BY DEF IInv, Buffers
      <3>3. Sums(h, One(id, i), new)
        BY <1>4, <2>1, <3>1, <3>2, HeldGrown
      <3>4. id = n + 1
        BY <1>5, <2>1
      <3>5. Owed(i, id, direct, t, new, o)
        BY <2>2, <2>6, <3>3, <3>4, AddedOnce, Zenon
      <3>6. t + new + o = Due(i, Len(logged'), direct)
        BY <1>5, <2>1, <3>4, <3>5 DEF Owed
      <3> QED BY <1>3, <2>1, <3>1, <3>6
    <2>5. CASE none
      <3>1. crit' = crit /\ direct' = direct \cup {n + 1}
        BY <1>2, <1>5, <2>1, <2>5 DEF LogAdds
      <3>2. Due(i, n + 1, direct') = Due(i, n, direct)
        BY <2>2, <3>1 DEF Due
      <3>3. told'[i] = t /\ Held(crit', i) = h /\ Held(nc', i) = o /\ Len(logged') = n + 1
        BY <1>3, <1>5, <2>1, <3>1
      <3> QED BY <2>3, <3>2, <3>3
    <2> QED BY <2>4, <2>5
  <1> QED BY <1>3, <1>6, <1>7 DEF TakenInv

LEMMA ReportTaken ==
  ASSUME IInv, TakenInv, NEW type \in PointTypes, NEW data_type \in DataTypes, Report(type, data_type)
  PROVE  TakenInv'
  <1>2. PICK rec \in PointRecs : /\ rec.id = Len(logged) + 1 /\ logged' = Append(logged, rec)
                                 /\ nc' = nc \o Bytes(rec, RecLen(rec))
    BY ReportAdds
  <1>3. crit' = crit /\ told' = told /\ direct' = direct /\ direct \subseteq 1..Len(logged)
    BY DEF Report, TakenInv
  <1>4. RecLen(rec) \in Nat /\ RecLen(rec) >= 2
    BY RecLens DEF Recs
  <1>5. Len(logged) \in Nat /\ Len(logged') = Len(logged) + 1
    BY <1>2 DEF IInv, Buffers
  <1>6. ASSUME NEW i \in 1..MaxCalls
        PROVE  told'[i] + Held(crit', i) + Held(nc', i) = Due(i, Len(logged'), direct')
    <2>1. PICK t, h, o, n, id, new : /\ t = told[i] /\ h = Held(nc, i) /\ o = Held(crit, i) /\ n = Len(logged)
                                     /\ id = rec.id /\ new = Held(nc', i)
      OBVIOUS
    <2>2. t \in Nat /\ h \in Nat /\ o \in Nat /\ n \in Nat /\ i \in Nat
      BY <2>1, HeldInBuffers DEF TakenInv
    <2>3. t + o + h = Due(i, n, direct)
      BY <2>1 DEF TakenInv
    <2>4. t + h + o = Due(i, n, direct)
      BY <2>2, <2>3
    <2>5. nc \in Seq(BytesOf(PointRecs))
      BY DEF IInv, Buffers
    <2>6. Sums(h, One(id, i), new)
      BY <1>2, <1>4, <2>1, <2>5, HeldGrown
    <2>7. id = n + 1
      BY <1>2, <2>1
    <2>8. Owed(i, id, direct, t, new, o)
      <3>1. Owed(i, n, direct, t, h, o) /\ Within(direct, n)
        BY <1>3, <2>1, <2>4 DEF Owed, Within
      <3> QED BY <2>2, <2>6, <2>7, <3>1, AddedOnce, Zenon
    <2>9. new \in Nat
      BY <2>6 DEF Sums, One
    <2>10. t + o + new = Due(i, Len(logged'), direct')
      BY <1>3, <1>5, <2>1, <2>2, <2>7, <2>8, <2>9 DEF Owed
    <2> QED BY <1>3, <2>1, <2>10
  <1>7. direct' \subseteq 1..Len(logged')
    BY <1>3, <1>5
  <1> QED BY <1>3, <1>6, <1>7 DEF TakenInv

LEMMA SendTaken ==
  ASSUME "NULL" \notin DataTypes, IInv, TakenInv, SendData
  PROVE  TakenInv'
  <1>1. PICK p, q, cd, nd : /\ p = Read(crit) /\ q = Read(nc)
                            /\ cd = CriticalData(p) /\ nd = NonCriticalData(q)
    OBVIOUS
  <1>2. /\ p \in Seq(BytesOf(LogRecs)) /\ Chain(p) /\ Len(p) <= Len(crit) /\ (\A i \in 1..Len(p) : p[i] = crit[i])
        /\ q \in Seq(BytesOf(PointRecs)) /\ Chain(q) /\ Len(q) <= Len(nc) /\ (\A i \in 1..Len(q) : q[i] = nc[i])
    BY <1>1, ReadOf DEF IInv, Buffers, Recs
  <1>3. crit \in Seq(BytesOf(LogRecs)) /\ nc \in Seq(BytesOf(PointRecs))
    BY DEF IInv, Buffers
  <1>4. PICK c, n : c = cd.consumed /\ n = nd.consumed
    OBVIOUS
  <1>5. c \in 0..Len(p) /\ n \in 0..Len(q)
    BY <1>1, <1>2, <1>4, CriticalConsumed, NonCriticalConsumed DEF Consumed, Between
  <1>6. c \in 0..Len(crit) /\ n \in 0..Len(nc)
    BY <1>2, <1>3, <1>5
  <1>7. /\ doc'.calls = DataBegin(meta) \o cd.calls \o nd.calls \o DataEnd
        /\ nc' = Drop(nc, n) /\ logged' = logged /\ direct' = direct
        /\ \/ /\ crit' = Drop(crit, c)
              /\ told' = [i \in DOMAIN told |-> told[i] + Told(doc'.calls, "element", "pc", i) + Told(doc'.calls, "map", "v", i)]
           \/ crit' = crit /\ told' = [i \in DOMAIN told |-> told[i] + Told(doc'.calls, "map", "v", i)]
    <2>1. SendEncoded(cd, nd) /\ logged' = logged /\ direct' = direct
      BY <1>1 DEF SendData
    <2> QED BY <1>4, <2>1 DEF SendEncoded
  <1>8. DOMAIN told = 1..MaxCalls /\ \A i \in 1..MaxCalls : told[i] \in Nat
    BY DEF TakenInv
  <1>9. ASSUME NEW i \in 1..MaxCalls
        PROVE  told'[i] \in Nat /\ told'[i] + Held(crit', i) + Held(nc', i) = Due(i, Len(logged'), direct')
    <2>1. PICK x : Holding(Begun(p, i, 0, c), x) /\ ToldIs(cd.calls, "element", "pc", i, x)
      BY <1>1, <1>2, <1>4, CriticalTold DEF TellsAll
    <2>2. PICK y : Holding(Begun(q, i, 0, n), y) /\ ToldIs(nd.calls, "map", "v", i, y)
      BY <1>1, <1>2, <1>4, NonCriticalTold DEF TellsAll
    <2>3. Silent(cd.calls, "map", "v", i) /\ Silent(nd.calls, "element", "pc", i)
      BY <1>1, <1>2, CriticalTold, NonCriticalTold
    <2>4. /\ x \in Nat /\ Told(doc'.calls, "element", "pc", i) = x
          /\ y \in Nat /\ Told(doc'.calls, "map", "v", i) = y
      <3>1. PICK all : all = DataBegin(meta) \o cd.calls \o nd.calls \o DataEnd
        OBVIOUS
      <3>2. x \in Nat /\ Told(all, "element", "pc", i) = x /\ y \in Nat /\ Told(all, "map", "v", i) = y
        BY <2>1, <2>2, <2>3, <3>1, DocumentTold
      <3> QED BY <1>7, <3>1, <3>2, Zenon
    <2>5. Sums(x, Held(Drop(crit, c), i), Held(crit, i))
      BY <1>2, <1>3, <1>5, <1>6, <2>1, HeldDropped
    <2>6. Sums(y, Held(Drop(nc, n), i), Held(nc, i))
      BY <1>2, <1>3, <1>5, <1>6, <2>2, HeldDropped
    <2>7. PICK t, h, o, h1, o1 : /\ t = told[i] /\ h = Held(crit, i) /\ o = Held(nc, i)
                                 /\ h1 = Held(Drop(crit, c), i) /\ o1 = Held(Drop(nc, n), i)
      OBVIOUS
    <2>8. t \in Nat /\ h1 \in Nat /\ o1 \in Nat /\ h = x + h1 /\ o = y + o1
      BY <1>8, <2>5, <2>6, <2>7 DEF Sums
    <2>9. t + h + o = Due(i, Len(logged), direct)
      BY <2>7 DEF TakenInv
    <2>10. CASE /\ crit' = Drop(crit, c)
                /\ told' = [k \in DOMAIN told |-> told[k] + Told(doc'.calls, "element", "pc", k) + Told(doc'.calls, "map", "v", k)]
      <3>1. told'[i] = t + x + y
        BY <1>8, <2>4, <2>7, <2>10
      <3>2. Held(crit', i) = h1 /\ Held(nc', i) = o1
        BY <1>7, <2>7, <2>10
      <3>3. t + x + y \in Nat /\ t + x + y + h1 + o1 = t + h + o
        BY <2>4, <2>8
      <3> QED BY <1>7, <2>9, <3>1, <3>2, <3>3
    <2>11. CASE crit' = crit /\ told' = [k \in DOMAIN told |-> told[k] + Told(doc'.calls, "map", "v", k)]
      <3>1. told'[i] = t + y
        BY <1>8, <2>4, <2>7, <2>11
      <3>2. Held(crit', i) = h /\ Held(nc', i) = o1
        BY <1>7, <2>7, <2>11
      <3>3. t + y \in Nat /\ t + y + h + o1 = t + h + o
        BY <2>4, <2>8
      <3> QED BY <1>7, <2>9, <3>1, <3>2, <3>3
    <2> QED BY <1>7, <2>10, <2>11
  <1>10. told' \in [1..MaxCalls -> Nat]
    <2>1. \E f : told' = [i \in 1..MaxCalls |-> f[i]]
      <3>1. told' = [i \in 1..MaxCalls |-> told'[i]]
        BY <1>7, <1>8
      <3> QED BY <3>1
    <2> QED BY <1>9, <2>1
  <1> QED BY <1>7, <1>9, <1>10 DEF TakenInv

LEMMA TakenNext ==
  ASSUME "NULL" \notin DataTypes, IInv, TakenInv, [Next]_vars
  PROVE  TakenInv'
  <1>1. CASE LogCall
    BY <1>1, LogTaken
  <1>2. CASE \E type \in PointTypes, data_type \in DataTypes : Report(type, data_type)
    BY <1>2, ReportTaken
  <1>3. CASE Reboot
    <2>1. crit' = crit /\ nc' = nc /\ logged' = logged /\ direct' = direct /\ told' = told
      BY <1>3 DEF Reboot
    <2> QED BY <2>1 DEF TakenInv
  <1>4. CASE SendData
    BY <1>4, SendTaken
  <1>5. CASE \E crash \in {<<>>, <<2>>} : SendBoot(crash)
    <2>1. crit' = crit /\ nc' = nc /\ logged' = logged /\ direct' = direct /\ told' = told
      BY <1>5 DEF SendBoot
    <2> QED BY <2>1 DEF TakenInv
  <1>6. CASE UNCHANGED vars
    <2>1. crit' = crit /\ nc' = nc /\ logged' = logged /\ direct' = direct /\ told' = told
      BY <1>6 DEF vars
    <2> QED BY <2>1 DEF TakenInv
  <1> QED BY <1>1, <1>2, <1>3, <1>4, <1>5, <1>6 DEF Next

\* Every message while the hook is enabled, and every point reported, is at any
\* time either held in a buffer or told in a document, once, but for a message
\* of the tag "wifi" passed to esp_log_writev itself, which is never recorded:
\* no message is recorded by both of the wrapped log functions, each list of
\* encode_log_list and encode_data_points tells of the records of its type, and
\* what is released is just what they have told of, wherever the read buffer
\* cut the last record and whether or not the document was sent.
THEOREM EveryRecordTakenOnce ==
  ASSUME "NULL" \notin DataTypes
  PROVE  Spec => []TakenOnce
  <1>1. IInv /\ TakenInv /\ [Next]_vars => (IInv /\ TakenInv)'
    BY InvNext, TakenNext
  <1>2. Init => IInv /\ TakenInv
    BY InvStart, TakenStart
  <1>3. TakenInv => TakenOnce
    BY DEF TakenInv, TakenOnce, Due
  <1> QED BY <1>1, <1>2, <1>3, PTL DEF Spec

=============================================================================
