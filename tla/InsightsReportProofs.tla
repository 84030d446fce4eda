------------------------ MODULE InsightsReportProofs ------------------------
(***************************************************************************)
(* Proofs about InsightsReport for every queue length and every number of  *)
(* records, messages, metadata versions and restarts.                      *)
(***************************************************************************)
EXTENDS InsightsReport, TLAPS, SequenceTheorems

Event == [ok : BOOLEAN, id : 0..MaxMsg]

\* A range of records that were written, so that its end is one, too.
Fits(r) == r.from + r.n <= MaxRec

\* TypeOK by parts, strengthened so that it is inductive: the ranges of
\* messages are of records, and so is what the cloud has got.
LocalOK ==
  /\ pc \in {"idle", "meta", "sendMeta", "metaId", "boot", "sendBoot", "bootId",
             "gather", "sendData", "dataId", "end"}
  /\ msg_id \in 0..MaxMsg /\ consumed \in Range_ /\ Fits(consumed)
  /\ queue \in 0..QueueLen
  /\ boot_msg_id \in -1..MaxMsg
  /\ data_msg_id \in 0..MaxMsg /\ data_msg_len \in 0..MaxRec
  /\ meta_msg_id \in 0..MaxMsg
  /\ meta_crc \in 0..MaxMeta /\ crc \in 1..MaxMeta /\ nvs_crc \in 0..MaxMeta
  /\ wr \in 0..MaxRec /\ rel \in 0..MaxRec

FlagsOK ==
  /\ inprogress \in BOOLEAN /\ meta_msg_pending \in BOOLEAN
  /\ wifi \in BOOLEAN /\ coredump \in BOOLEAN /\ overtaken \in BOOLEAN

QueuesOK ==
  /\ timer \in [active : BOOLEAN, due : BOOLEAN]
  /\ cmds \in Seq({"reset", "stop"}) /\ Len(cmds) <= CmdsLen
  /\ events \in Seq(Event) /\ Len(events) <= EventsLen

Got == [records : SUBSET (0..MaxRec-1), meta : 0..MaxMeta, boot : BOOLEAN]

OutsideOK ==
  /\ net \subseteq Message /\ \A m \in net : Fits(m.data)
  /\ sent \in [msgs : 0..MaxMsg, boots : 0..MaxBoots]
  /\ got \in Got

TypeInv == LocalOK /\ FlagsOK /\ QueuesOK /\ OutsideOK

-----------------------------------------------------------------------------
(* Type correctness                                                         *)

LEMMA LastOfAppend ==
  ASSUME NEW S, NEW s \in Seq(S), NEW e \in S
  PROVE  Append(s, e) # <<>> /\ Last(Append(s, e)) = e
  BY DEF Last

LEMMA LastOfTail ==
  ASSUME NEW S, NEW s \in Seq(S), s # <<>>, Tail(s) # <<>>
  PROVE  Last(Tail(s)) = Last(s)
  BY DEF Last

LEMMA LastOfOne ==
  ASSUME NEW S, NEW s \in Seq(S), s # <<>>, Tail(s) = <<>>
  PROVE  Last(s) = Head(s)
  <1>1. Len(s) \in Nat /\ Len(Tail(s)) = Len(s) - 1
    OBVIOUS
  <1>2. Len(Tail(s)) = 0
    BY EmptySeq
  <1>3. Len(s) = 1
    BY <1>1, <1>2
  <1> QED BY <1>3 DEF Last

LEMMA TypeInvTypes == TypeInv => TypeOK
  BY DEF TypeInv, LocalOK, FlagsOK, QueuesOK, OutsideOK, TypeOK, Got, Event

LEMMA TypeInit == Init => TypeInv
  <1> SUFFICES ASSUME Init PROVE TypeInv
    OBVIOUS
  <1> USE ReportAssumption DEF ReportAssumption, Init
  <1>1. LocalOK
    BY DEF LocalOK, Nothing, Range_, Fits
  <1>2. QueuesOK
    <2>1. <<>> \in Seq({"reset", "stop"}) /\ <<>> \in Seq(Event) /\ Len(<<>>) = 0
      OBVIOUS
    <2>2. timer \in [active : BOOLEAN, due : BOOLEAN]
      OBVIOUS
    <2> QED BY <2>1, <2>2 DEF QueuesOK
  <1>3. OutsideOK
    BY DEF OutsideOK, Got
  <1>4. FlagsOK
    BY DEF FlagsOK
  <1> QED BY <1>1, <1>2, <1>3, <1>4 DEF TypeInv

\* What the cloud has after a message is what it may have.
LEMMA WithTyped ==
  ASSUME TypeInv, NEW m, m.kind \in Kind, m.data \in Range_, Fits(m.data), m.crc \in 0..MaxMeta
  PROVE  With(m) \in Got
  <1> USE ReportAssumption DEF ReportAssumption, TypeInv, OutsideOK, Got, Kind, Range_, Fits
  <1>1. CASE m.kind = "data"
    <2> DEFINE f == m.data.from
               n == m.data.n
    <2>1. f \in Nat /\ n \in Nat /\ f + n <= MaxRec /\ MaxRec \in Nat
      OBVIOUS
    <2> HIDE DEF f, n
    <2>2. {f + i : i \in 0..n-1} \subseteq 0..MaxRec-1
      <3> SUFFICES ASSUME NEW i \in 0..n-1 PROVE f + i \in 0..MaxRec-1
        OBVIOUS
      <3> QED BY <2>1
    <2> QED BY <1>1, <2>2 DEF With, f, n
  <1>2. CASE m.kind = "meta"  BY <1>2 DEF With
  <1>3. CASE m.kind = "boot"  BY <1>3 DEF With
  <1> QED BY <1>1, <1>2, <1>3

\* The message about to be sent; over HTTPS its number is not looked at.
LEMMA HttpsWithTyped ==
  ASSUME TypeInv, NEW kind \in Kind
  PROVE  With(NextMessage(kind)) \in Got /\ With([NextMessage(kind) EXCEPT !.delivered = TRUE]) \in Got
  <1>1. consumed \in Range_ /\ Fits(consumed) /\ crc \in 0..MaxMeta /\ 0 \in 0..MaxMeta
    BY ReportAssumption DEF ReportAssumption, TypeInv, LocalOK
  <1>2. \A b : LET m == [NextMessage(kind) EXCEPT !.delivered = b]
              IN m.kind = kind /\ m.data = consumed /\ m.crc \in 0..MaxMeta
    BY <1>1 DEF NextMessage
  <1>3. /\ NextMessage(kind).kind = kind /\ NextMessage(kind).data = consumed
        /\ NextMessage(kind).crc \in 0..MaxMeta
    BY <1>1 DEF NextMessage
  <1> QED BY <1>1, <1>2, <1>3, WithTyped

LEMMA MessageTyped ==
  ASSUME TypeInv, NEW kind \in Kind, sent.msgs < MaxMsg
  PROVE  NextMessage(kind) \in Message /\ Fits(NextMessage(kind).data)
  BY ReportAssumption DEF ReportAssumption, TypeInv, LocalOK, OutsideOK, NextMessage, Message

LEMMA AppendTyped ==
  ASSUME NEW S, NEW s \in Seq(S), NEW e \in S, NEW n \in Nat, Len(s) < n
  PROVE  Append(s, e) \in Seq(S) /\ Len(Append(s, e)) <= n
  OBVIOUS

LEMMA TailTyped ==
  ASSUME NEW S, NEW s \in Seq(S), s # <<>>, NEW n \in Nat, Len(s) <= n
  PROVE  Tail(s) \in Seq(S) /\ Len(Tail(s)) <= n /\ Head(s) \in S
  OBVIOUS

\* A command for the timer task keeps the queue within its length.
LEMMA StopTyped ==
  ASSUME TypeInv, StopTimer
  PROVE  cmds' \in Seq({"reset", "stop"}) /\ Len(cmds') <= CmdsLen
  BY AppendTyped, ReportAssumption DEF ReportAssumption, TypeInv, QueuesOK, StopTimer

\* Whatever the transport answers, its state keeps its type.
LEMMA SendTyped ==
  ASSUME TypeInv, NEW kind \in Kind, MqttSends(kind) \/ HttpsSends(kind) \/ SendFails(kind)
  PROVE  /\ msg_id' \in 0..MaxMsg
         /\ events' \in Seq(Event) /\ Len(events') <= EventsLen
         /\ OutsideOK' /\ overtaken' = overtaken
  <1> USE ReportAssumption DEF ReportAssumption
  <1>1. msg_id \in 0..MaxMsg /\ events \in Seq(Event) /\ Len(events) <= EventsLen /\ OutsideOK
    BY DEF TypeInv, LocalOK, QueuesOK
  <1>2. CASE MqttSends(kind)
    <2>1. NextMessage(kind) \in Message /\ Fits(NextMessage(kind).data)
      BY <1>2, MessageTyped DEF MqttSends, Accept
    <2>2. net' \subseteq Message /\ \A m \in net' : Fits(m.data)
      BY <1>1, <1>2, <2>1 DEF MqttSends, Accept, OutsideOK
    <2>3. sent' \in [msgs : 0..MaxMsg, boots : 0..MaxBoots] /\ msg_id' \in 0..MaxMsg
      BY <1>1, <1>2 DEF MqttSends, Accept, OutsideOK
    <2> QED BY <1>1, <1>2, <2>2, <2>3 DEF MqttSends, Accept, OutsideOK
  <1>3. ASSUME NEW ok \in BOOLEAN, Post(ok)
        PROVE  events' \in Seq(Event) /\ Len(events') <= EventsLen
    <2>1. [ok |-> ok, id |-> 0] \in Event
      BY DEF Event
    <2> QED BY <1>1, <1>3, <2>1, AppendTyped DEF Post
  <1>4. got' \in {got, With(NextMessage(kind)), With([NextMessage(kind) EXCEPT !.delivered = TRUE])} => got' \in Got
    BY <1>1, HttpsWithTyped DEF OutsideOK
  <1>5. CASE HttpsSends(kind)
    BY <1>1, <1>3, <1>4, <1>5 DEF HttpsSends, OutsideOK
  <1>6. CASE SendFails(kind)
    BY <1>1, <1>3, <1>4, <1>6 DEF SendFails, MqttRefuses, HttpsFails, OutsideOK, outside
  <1> QED BY <1>2, <1>5, <1>6

LEMMA TypeNext == TypeInv /\ [Next]_vars => TypeInv'
  <1> SUFFICES ASSUME TypeInv, [Next]_vars PROVE TypeInv'
    OBVIOUS
  <1> USE ReportAssumption DEF ReportAssumption, TypeInv,
          worker, agent, store, flash, outside
  <1>0. /\ \A e \in Event : Len(events) < EventsLen =>
             Append(events, e) \in Seq(Event) /\ Len(Append(events, e)) <= EventsLen
        /\ events # <<>> => Tail(events) \in Seq(Event) /\ Len(Tail(events)) <= EventsLen
        /\ cmds # <<>> => Tail(cmds) \in Seq({"reset", "stop"}) /\ Len(Tail(cmds)) <= CmdsLen
    BY AppendTyped, TailTyped DEF QueuesOK
  <1>1. CASE StartRound
    <2>1. LocalOK'   BY <1>1 DEF StartRound, LocalOK, Fits
    <2>2. QueuesOK'  BY <1>1 DEF StartRound, QueuesOK
    <2>3. OutsideOK' BY <1>1 DEF StartRound, OutsideOK
    <2>4. FlagsOK'   BY <1>1, Zenon DEF StartRound, FlagsOK
    <2> QED BY <2>1, <2>2, <2>3, <2>4
  <1>2. CASE CheckMeta
    <2>1. LocalOK'   BY <1>2 DEF CheckMeta, LocalOK, Fits
    <2>2. QueuesOK'  BY <1>2 DEF CheckMeta, QueuesOK
    <2>3. OutsideOK' BY <1>2 DEF CheckMeta, OutsideOK
    <2>4. FlagsOK'   BY <1>2, Zenon DEF CheckMeta, FlagsOK
    <2> QED BY <2>1, <2>2, <2>3, <2>4
  <1>3. CASE SendMeta
    <2>1. MqttSends("meta") \/ HttpsSends("meta") \/ SendFails("meta")
      BY <1>3 DEF SendMeta
    <2>2. /\ msg_id' \in 0..MaxMsg
          /\ events' \in Seq(Event) /\ Len(events') <= EventsLen
          /\ OutsideOK' /\ overtaken' = overtaken
      BY <2>1, SendTyped DEF Kind
    <2>3. LocalOK'   BY <1>3, <2>2 DEF SendMeta, LocalOK, Fits
    <2>4. QueuesOK'  BY <1>3, <2>2 DEF SendMeta, QueuesOK
    <2>5. FlagsOK'   BY <1>3, <2>2, Zenon DEF SendMeta, FlagsOK
    <2> QED BY <2>2, <2>3, <2>4, <2>5
  <1>4. CASE RecordMetaId
    <2>1. LocalOK'   BY <1>4 DEF RecordMetaId, LocalOK, Fits
    <2>2. QueuesOK'  BY <1>4 DEF RecordMetaId, QueuesOK
    <2>3. OutsideOK' BY <1>4 DEF RecordMetaId, OutsideOK
    <2>4. FlagsOK'   BY <1>4, Zenon DEF RecordMetaId, FlagsOK
    <2> QED BY <2>1, <2>2, <2>3, <2>4
  <1>5. CASE CheckBoot
    <2>1. LocalOK'   BY <1>5 DEF CheckBoot, LocalOK, Fits
    <2>2. QueuesOK'  BY <1>5 DEF CheckBoot, QueuesOK
    <2>3. OutsideOK' BY <1>5 DEF CheckBoot, OutsideOK
    <2>4. FlagsOK'   BY <1>5, Zenon DEF CheckBoot, FlagsOK
    <2> QED BY <2>1, <2>2, <2>3, <2>4
  <1>6. CASE SendBoot
    <2>1. MqttSends("boot") \/ HttpsSends("boot") \/ SendFails("boot")
      BY <1>6 DEF SendBoot
    <2>2. /\ msg_id' \in 0..MaxMsg
          /\ events' \in Seq(Event) /\ Len(events') <= EventsLen
          /\ OutsideOK' /\ overtaken' = overtaken
      BY <2>1, SendTyped DEF Kind
    <2>3. LocalOK'   BY <1>6, <2>2 DEF SendBoot, LocalOK, Fits
    <2>4. QueuesOK'  BY <1>6, <2>2 DEF SendBoot, QueuesOK
    <2>5. FlagsOK'   BY <1>6, <2>2, Zenon DEF SendBoot, FlagsOK
    <2> QED BY <2>2, <2>3, <2>4, <2>5
  <1>7. CASE RecordBootId
    <2>1. LocalOK'   BY <1>7 DEF RecordBootId, LocalOK, Fits
    <2>2. QueuesOK'  BY <1>7 DEF RecordBootId, QueuesOK
    <2>3. OutsideOK' BY <1>7 DEF RecordBootId, OutsideOK
    <2>4. FlagsOK'   BY <1>7, Zenon DEF RecordBootId, FlagsOK
    <2> QED BY <2>1, <2>2, <2>3, <2>4
  <1>8. CASE Gather
    <2>1. LocalOK'   BY <1>8 DEF Gather, Range_, LocalOK, Fits
    <2>2. QueuesOK'  BY <1>8 DEF Gather, Range_, QueuesOK
    <2>3. OutsideOK' BY <1>8 DEF Gather, Range_, OutsideOK
    <2>4. FlagsOK'   BY <1>8, Zenon DEF Gather, Range_, FlagsOK
    <2> QED BY <2>1, <2>2, <2>3, <2>4
  <1>9. CASE SendData
    <2>1. MqttSends("data") \/ HttpsSends("data") \/ SendFails("data")
      BY <1>9 DEF SendData
    <2>2. /\ msg_id' \in 0..MaxMsg
          /\ events' \in Seq(Event) /\ Len(events') <= EventsLen
          /\ OutsideOK' /\ overtaken' = overtaken
      BY <2>1, SendTyped DEF Kind
    <2>6. rel' \in 0..MaxRec
      BY <1>9 DEF SendData, LocalOK, CriticalRelease, Range_, Fits
    <2>3. LocalOK'   BY <1>9, <2>2, <2>6 DEF SendData, LocalOK, Fits
    <2>4. QueuesOK'  BY <1>9, <2>2 DEF SendData, QueuesOK
    <2>5. FlagsOK'   BY <1>9, <2>2, Zenon DEF SendData, FlagsOK
    <2> QED BY <2>2, <2>3, <2>4, <2>5, <2>6
  <1>10. CASE RecordDataId
    <2>1. LocalOK'   BY <1>10 DEF RecordDataId, Rest, Nothing, Range_, LocalOK, Fits
    <2>2. QueuesOK'  BY <1>10 DEF RecordDataId, Rest, Nothing, Range_, QueuesOK
    <2>3. OutsideOK' BY <1>10 DEF RecordDataId, Rest, Nothing, Range_, OutsideOK
    <2>4. FlagsOK'   BY <1>10, Zenon DEF RecordDataId, Rest, Nothing, Range_, FlagsOK
    <2> QED BY <2>1, <2>2, <2>3, <2>4
  <1>11. CASE EndRound
    <2>1. LocalOK'   BY <1>11 DEF EndRound, Rest, Nothing, Range_, LocalOK, Fits
    <2>2. QueuesOK'  BY <1>11 DEF EndRound, Rest, Nothing, Range_, QueuesOK
    <2>3. OutsideOK' BY <1>11 DEF EndRound, Rest, Nothing, Range_, OutsideOK
    <2>4. FlagsOK'   BY <1>11, Zenon DEF EndRound, Rest, Nothing, Range_, FlagsOK
    <2> QED BY <2>1, <2>2, <2>3, <2>4
  <1>12. CASE HandleSuccess
    <2>1. LocalOK'   BY <1>12 DEF HandleSuccess, CriticalRelease, StopTimer, LocalOK, Fits
    <2>2. QueuesOK'  BY <1>12, <1>0, StopTyped DEF HandleSuccess, QueuesOK
    <2>3. OutsideOK' BY <1>12 DEF HandleSuccess, CriticalRelease, StopTimer, OutsideOK
    <2>4. FlagsOK'   BY <1>12, Zenon DEF HandleSuccess, CriticalRelease, StopTimer, FlagsOK
    <2> QED BY <2>1, <2>2, <2>3, <2>4
  <1>13. CASE HandleFailure
    <2>1. LocalOK'   BY <1>13 DEF HandleFailure, StopTimer, LocalOK, Fits
    <2>2. QueuesOK'  BY <1>13, <1>0, StopTyped DEF HandleFailure, QueuesOK
    <2>3. OutsideOK' BY <1>13 DEF HandleFailure, StopTimer, OutsideOK
    <2>4. FlagsOK'   BY <1>13, Zenon DEF HandleFailure, StopTimer, FlagsOK
    <2> QED BY <2>1, <2>2, <2>3, <2>4
  <1>14. CASE ObeyCommand
    <2>1. LocalOK'   BY <1>14 DEF ObeyCommand, LocalOK, Fits
    <2>0. timer' \in [active : BOOLEAN, due : BOOLEAN]
      BY <1>14 DEF ObeyCommand, QueuesOK
    <2>2. QueuesOK'  BY <1>14, <1>0, <2>0 DEF ObeyCommand, QueuesOK
    <2>3. OutsideOK' BY <1>14 DEF ObeyCommand, OutsideOK
    <2>4. FlagsOK'   BY <1>14, Zenon DEF ObeyCommand, FlagsOK
    <2> QED BY <2>1, <2>2, <2>3, <2>4
  <1>15. CASE TimeoutCb
    <2>1. LocalOK'   BY <1>15 DEF TimeoutCb, LocalOK, Fits
    <2>2. QueuesOK'  BY <1>15 DEF TimeoutCb, QueuesOK
    <2>3. OutsideOK' BY <1>15 DEF TimeoutCb, OutsideOK
    <2>4. FlagsOK'   BY <1>15, Zenon DEF TimeoutCb, FlagsOK
    <2> QED BY <2>1, <2>2, <2>3, <2>4
  <1>16. CASE Expire
    <2>1. LocalOK'   BY <1>16 DEF Expire, LocalOK, Fits
    <2>2. QueuesOK'  BY <1>16 DEF Expire, QueuesOK
    <2>3. OutsideOK' BY <1>16 DEF Expire, OutsideOK
    <2>4. FlagsOK'   BY <1>16, Zenon DEF Expire, FlagsOK
    <2> QED BY <2>1, <2>2, <2>3, <2>4
  <1>17. CASE Trigger
    <2>1. LocalOK'   BY <1>17 DEF Trigger, LocalOK, Fits
    <2>2. QueuesOK'  BY <1>17 DEF Trigger, QueuesOK
    <2>3. OutsideOK' BY <1>17 DEF Trigger, OutsideOK
    <2>4. FlagsOK'   BY <1>17, Zenon DEF Trigger, FlagsOK
    <2> QED BY <2>1, <2>2, <2>3, <2>4
  <1>18. CASE Log
    <2>1. LocalOK'   BY <1>18 DEF Log, LocalOK, Fits
    <2>2. QueuesOK'  BY <1>18 DEF Log, QueuesOK
    <2>3. OutsideOK' BY <1>18 DEF Log, OutsideOK
    <2>4. FlagsOK'   BY <1>18, Zenon DEF Log, FlagsOK
    <2> QED BY <2>1, <2>2, <2>3, <2>4
  <1>19. CASE RegisterMeta
    <2>1. LocalOK'   BY <1>19 DEF RegisterMeta, LocalOK, Fits
    <2>2. QueuesOK'  BY <1>19 DEF RegisterMeta, QueuesOK
    <2>3. OutsideOK' BY <1>19 DEF RegisterMeta, OutsideOK
    <2>4. FlagsOK'   BY <1>19, Zenon DEF RegisterMeta, FlagsOK
    <2> QED BY <2>1, <2>2, <2>3, <2>4
  <1>20. CASE WifiChange
    <2>1. LocalOK'   BY <1>20 DEF WifiChange, LocalOK, Fits
    <2>2. QueuesOK'  BY <1>20 DEF WifiChange, QueuesOK
    <2>3. OutsideOK' BY <1>20 DEF WifiChange, OutsideOK
    <2>4. FlagsOK'   BY <1>20, Zenon DEF WifiChange, FlagsOK
    <2> QED BY <2>1, <2>2, <2>3, <2>4
  <1>21. CASE Restart
    <2>5. consumed' \in Range_ /\ Fits(consumed')
      BY <1>21 DEF Restart, Rest, Nothing, Range_, Fits
    <2>1. LocalOK'   BY <1>21, <2>5 DEF Restart, Rest, LocalOK
    <2>2. QueuesOK'  BY <1>21 DEF Restart, Rest, Nothing, Range_, QueuesOK
    <2>6. got' \in Got
      BY <1>21 DEF Restart, OutsideOK, Got
    <2>3. OutsideOK' BY <1>21, <2>6 DEF Restart, OutsideOK
    <2>4. FlagsOK'   BY <1>21, Zenon DEF Restart, Rest, Nothing, Range_, FlagsOK
    <2> QED BY <2>1, <2>2, <2>3, <2>4
  <1>22. ASSUME NEW m \in net, Deliver(m) PROVE TypeInv'
    <2>1. LocalOK'   BY <1>22 DEF Deliver, LocalOK, Fits
    <2>2. QueuesOK'  BY <1>22 DEF Deliver, QueuesOK
    <2>0. With(m) \in Got
      BY WithTyped DEF OutsideOK, Message
    <2>3. OutsideOK'
      <3>1. [m EXCEPT !.delivered = TRUE] \in Message /\ Fits([m EXCEPT !.delivered = TRUE].data)
        BY DEF OutsideOK, Message, Fits
      <3> QED BY <1>22, <2>0, <3>1 DEF Deliver, OutsideOK
    <2>4. FlagsOK'   BY <1>22, Zenon DEF Deliver, FlagsOK
    <2> QED BY <2>1, <2>2, <2>3, <2>4
  <1>23. ASSUME NEW m \in net, Acknowledge(m) PROVE TypeInv'
    <2>1. LocalOK'   BY <1>23 DEF Acknowledge, LocalOK, Fits
    <2>0. [ok |-> TRUE, id |-> m.id] \in Event
      BY DEF Event, OutsideOK, Message
    <2>2. QueuesOK'  BY <1>23, <1>0, <2>0 DEF Acknowledge, QueuesOK
    <2>3. OutsideOK' BY <1>23 DEF Acknowledge, OutsideOK
    <2>4. FlagsOK'   BY <1>23, Zenon DEF Acknowledge, FlagsOK
    <2> QED BY <2>1, <2>2, <2>3, <2>4
  <1>24. ASSUME NEW m \in net, GiveUp(m) PROVE TypeInv'
    <2>1. LocalOK'   BY <1>24 DEF GiveUp, LocalOK, Fits
    <2>0. [ok |-> FALSE, id |-> m.id] \in Event
      BY DEF Event, OutsideOK, Message
    <2>2. QueuesOK'  BY <1>24, <1>0, <2>0 DEF GiveUp, QueuesOK
    <2>3. OutsideOK' BY <1>24 DEF GiveUp, OutsideOK
    <2>4. FlagsOK'   BY <1>24, Zenon DEF GiveUp, FlagsOK
    <2> QED BY <2>1, <2>2, <2>3, <2>4
  <1>25. CASE UNCHANGED vars
    BY <1>25 DEF vars, LocalOK, FlagsOK, QueuesOK, OutsideOK
  <1> QED BY <1>1, <1>2, <1>3, <1>4, <1>5, <1>6, <1>7, <1>8, <1>9, <1>10, <1>11, <1>12, <1>13, <1>14, <1>15, <1>16, <1>17, <1>18, <1>19, <1>20, <1>21, <1>22, <1>23, <1>24, <1>25
          DEF Next, Worker, EventLoop, TimerTask

\* Whatever the lengths of the queues: every variable keeps its type, the
\* queues keep within theirs, and messages tell of records that exist.
THEOREM TypeCorrect == Spec => []TypeOK
  <1>1. Spec => []TypeInv
    BY TypeInit, TypeNext, PTL DEF Spec
  <1> QED BY <1>1, TypeInvTypes, PTL

-----------------------------------------------------------------------------
(* Somebody will clear data_send_inprogress                                 *)

LEMMA ClearNext ==
  TypeInv /\ SomeoneWillClear /\ [Next]_vars => SomeoneWillClear'
  <1> SUFFICES ASSUME TypeInv, SomeoneWillClear, [Next]_vars PROVE SomeoneWillClear'
    OBVIOUS
  <1> USE DEF SomeoneWillClear, worker, agent, store, flash, outside
  <1>1. CASE StartRound
    BY <1>1 DEF StartRound
  <1>2. CASE CheckMeta
    BY <1>2 DEF CheckMeta
  <1>3. CASE SendMeta
    BY <1>3 DEF SendMeta
  <1>4. CASE RecordMetaId
    BY <1>4 DEF RecordMetaId
  <1>5. CASE CheckBoot
    BY <1>5 DEF CheckBoot
  <1>6. CASE SendBoot
    BY <1>6 DEF SendBoot
  <1>7. CASE RecordBootId
    BY <1>7 DEF RecordBootId
  <1>8. CASE Gather
    BY <1>8 DEF Gather
  <1>9. CASE SendData
    BY <1>9 DEF SendData
  <1>10. CASE RecordDataId
    <2>1. cmds' # <<>> /\ Last(cmds') = "reset"
      BY <1>10, LastOfAppend DEF RecordDataId, TypeInv, QueuesOK
    <2> QED BY <2>1
  <1>11. CASE EndRound
    BY <1>11 DEF EndRound
  <1>12. CASE HandleSuccess
    BY <1>12 DEF HandleSuccess
  <1>13. CASE HandleFailure
    BY <1>13 DEF HandleFailure
  <1>14. CASE ObeyCommand
    <2>1. CASE Tail(cmds) = <<>>
      <3>1. Last(cmds) = Head(cmds)
        BY <1>14, <2>1, LastOfOne DEF ObeyCommand, TypeInv, QueuesOK
      <3> QED BY <1>14, <2>1, <3>1 DEF ObeyCommand, TypeInv, QueuesOK
    <2>2. CASE Tail(cmds) # <<>>
      BY <1>14, <2>2, LastOfTail DEF ObeyCommand, TypeInv, QueuesOK
    <2> QED BY <2>1, <2>2
  <1>15. CASE TimeoutCb
    BY <1>15 DEF TimeoutCb
  <1>16. CASE Expire
    BY <1>16 DEF Expire
  <1>17. CASE Trigger
    BY <1>17 DEF Trigger
  <1>18. CASE Log
    BY <1>18 DEF Log
  <1>19. CASE RegisterMeta
    BY <1>19 DEF RegisterMeta
  <1>20. CASE WifiChange
    BY <1>20 DEF WifiChange
  <1>21. CASE Restart
    BY <1>21 DEF Restart
  <1>22. ASSUME NEW m \in net, Deliver(m) PROVE SomeoneWillClear'
    BY <1>22 DEF Deliver
  <1>23. ASSUME NEW m \in net, Acknowledge(m) PROVE SomeoneWillClear'
    BY <1>23 DEF Acknowledge
  <1>24. ASSUME NEW m \in net, GiveUp(m) PROVE SomeoneWillClear'
    BY <1>24 DEF GiveUp
  <1>25. CASE UNCHANGED vars
    BY <1>25 DEF vars
  <1> QED BY <1>1, <1>2, <1>3, <1>4, <1>5, <1>6, <1>7, <1>8, <1>9, <1>10, <1>11, <1>12, <1>13, <1>14, <1>15, <1>16, <1>17, <1>18, <1>19, <1>20, <1>21, <1>22, <1>23, <1>24, <1>25
          DEF Next, Worker, EventLoop, TimerTask

\* Over either transport, whatever is lost and in whatever order the tasks
\* run: data_send_inprogress is never left set with nobody to clear it.
THEOREM FlagIsCleared == Spec => []SomeoneWillClear
  <1>1. Init => SomeoneWillClear
    BY DEF Init, SomeoneWillClear
  <1> QED BY <1>1, TypeInit, TypeNext, ClearNext, PTL DEF Spec

-----------------------------------------------------------------------------
(* The fate of a message                                                    *)

\* Ids are those of messages sent before.
IdsKnown ==
  /\ \A m \in net : m.id <= sent.msgs
  /\ \A i \in 1..Len(events) : events[i].id <= sent.msgs

OwnIdsKnown == msg_id <= sent.msgs /\ boot_msg_id <= sent.msgs /\ data_msg_id <= sent.msgs

\* Of every id there is one message or one event at most.
OneFate ==
  /\ \A m1, m2 \in net : m1.id = m2.id => m1 = m2
  /\ \A m \in net, i \in 1..Len(events) : events[i].id # m.id
  /\ \A i, j \in 1..Len(events) : events[i].id = events[j].id /\ events[i].id # 0 => i = j

IdInv == IdsKnown /\ OneFate

LEMMA TailAt ==
  ASSUME NEW S, NEW s \in Seq(S), s # <<>>
  PROVE  \A i \in 1..Len(Tail(s)) : i + 1 \in 1..Len(s) /\ Tail(s)[i] = s[i + 1]
  OBVIOUS

LEMMA AppendAt ==
  ASSUME NEW S, NEW s \in Seq(S), NEW e
  PROVE  \A i \in 1..Len(Append(s, e)) :
           \/ i \in 1..Len(s) /\ Append(s, e)[i] = s[i]
           \/ i = Len(s) + 1 /\ Append(s, e)[i] = e
  OBVIOUS

\* Ids are numbers, and those of messages are not 0.
LEMMA Ids ==
  ASSUME TypeInv
  PROVE  /\ \A m \in net : /\ m \in Message /\ m.kind \in Kind /\ m.data \in Range_
                           /\ m.id \in Nat /\ m.id # 0
         /\ events \in Seq(Event) /\ \A i \in 1..Len(events) : events[i].id \in Nat
         /\ sent.msgs \in Nat /\ msg_id \in Nat /\ data_msg_id \in Nat /\ boot_msg_id \in Int
  <1>1. events \in Seq(Event) /\ net \subseteq Message
    BY DEF TypeInv, QueuesOK, OutsideOK
  <1>2. ASSUME NEW m \in net
        PROVE  /\ m \in Message /\ m.kind \in Kind /\ m.data \in Range_
               /\ m.id \in Nat /\ m.id # 0
    BY <1>1 DEF Message
  <1>3. ASSUME NEW i \in 1..Len(events) PROVE events[i].id \in Nat
    <2>1. events[i] \in Event
      BY <1>1
    <2> QED BY <2>1 DEF Event
  <1>4. sent.msgs \in Nat /\ msg_id \in Nat /\ data_msg_id \in Nat /\ boot_msg_id \in Int
    BY ReportAssumption DEF ReportAssumption, TypeInv, LocalOK, OutsideOK
  <1> QED BY <1>1, <1>2, <1>3, <1>4

\* What a step does to messages and events, of whatever task it is.
Sends(kind) == /\ Async /\ sent.msgs < MaxMsg
               /\ net' = net \cup {NextMessage(kind)}
               /\ sent' = [sent EXCEPT !.msgs = @ + 1] /\ events' = events
Handles     == events # <<>> /\ events' = Tail(events) /\ net' = net /\ sent' = sent
Delivers(m) == /\ net' = (net \ {m}) \cup {[m EXCEPT !.delivered = TRUE]}
               /\ got' = With(m) /\ events' = events /\ sent' = sent
Settles(m)  == /\ net' = net \ {m} /\ sent' = sent
               /\ \/ events' = events
                  \/ \E ok \in BOOLEAN : /\ ok => m.delivered
                                         /\ events' = Append(events, [ok |-> ok, id |-> m.id])
Reports     == /\ \E ok \in BOOLEAN : events' = Append(events, [ok |-> ok, id |-> 0])
               /\ net' = net /\ sent' = sent
Forgets     == net' = {} /\ events' = <<>> /\ sent'.msgs = sent.msgs

MessageStep ==
  \/ UNCHANGED <<net, events, sent>>
  \/ \E kind \in Kind : Sends(kind)
  \/ Handles \/ Reports \/ Forgets
  \/ \E m \in net : Delivers(m) \/ Settles(m)

LEMMA NextIsMessageStep == TypeInv /\ [Next]_vars => MessageStep
  <1> SUFFICES ASSUME TypeInv, [Next]_vars PROVE MessageStep
    OBVIOUS
  <1> USE DEF MessageStep, outside
  <1>1. ASSUME NEW kind \in Kind, MqttSends(kind) \/ HttpsSends(kind) \/ SendFails(kind)
        PROVE MessageStep
    BY <1>1 DEF MqttSends, HttpsSends, SendFails, MqttRefuses, HttpsFails, Accept, Post, Sends, Reports
  <1>2. CASE SendMeta \/ SendBoot \/ SendData
    BY <1>1, <1>2 DEF SendMeta, SendBoot, SendData, Kind
  <1>3. CASE \/ StartRound \/ CheckMeta \/ RecordMetaId \/ CheckBoot \/ RecordBootId
             \/ Gather \/ RecordDataId \/ EndRound
    BY <1>3 DEF StartRound, CheckMeta, RecordMetaId, CheckBoot, RecordBootId,
                Gather, RecordDataId, EndRound
  <1>4. CASE HandleSuccess \/ HandleFailure
    BY <1>4 DEF HandleSuccess, HandleFailure, Handles
  <1>5. CASE TimerTask \/ Expire \/ Trigger \/ Log \/ RegisterMeta \/ WifiChange
    BY <1>5 DEF TimerTask, ObeyCommand, TimeoutCb, Expire, Trigger, Log, RegisterMeta, WifiChange
  <1>6. CASE Restart
    BY <1>6 DEF Restart, Forgets, TypeInv, OutsideOK
  <1>7. ASSUME NEW m \in net, Deliver(m) \/ Acknowledge(m) \/ GiveUp(m) PROVE MessageStep
    BY <1>7 DEF Deliver, Acknowledge, GiveUp, Delivers, Settles
  <1>8. CASE UNCHANGED vars
    BY <1>8 DEF vars
  <1> QED BY <1>2, <1>3, <1>4, <1>5, <1>6, <1>7, <1>8 DEF Next, Worker, EventLoop

LEMMA IdNext == TypeInv /\ IdInv /\ MessageStep => IdInv' /\ sent'.msgs >= sent.msgs
  <1> SUFFICES ASSUME TypeInv, IdInv, MessageStep PROVE IdInv' /\ sent'.msgs >= sent.msgs
    OBVIOUS
  <1> USE DEF IdInv, IdsKnown, OneFate
  <1>1. /\ sent.msgs \in Nat /\ events \in Seq(Event)
        /\ \A m \in net : m \in Message /\ m.id \in Nat /\ m.id # 0
        /\ \A i \in 1..Len(events) : events[i].id \in Nat
    BY Ids
  <1>2. CASE UNCHANGED <<net, events, sent>>
    BY <1>1, <1>2
  <1>3. ASSUME NEW kind \in Kind, Sends(kind) PROVE IdInv' /\ sent'.msgs >= sent.msgs
    <2>1. sent'.msgs = sent.msgs + 1 /\ NextMessage(kind).id = sent.msgs + 1
      BY <1>3 DEF Sends, NextMessage, TypeInv, OutsideOK
    <2> QED BY <1>1, <1>3, <2>1 DEF Sends
  <1>4. CASE Handles
    <2>1. \A i \in 1..Len(events') : i \in Int /\ i + 1 \in 1..Len(events) /\ events'[i] = events[i + 1]
      BY <1>1, <1>4, TailAt DEF Handles
    <2> QED BY <1>1, <1>4, <2>1 DEF Handles
  <1>5. ASSUME NEW e \in Event, e.id = 0 \/ \E m \in net : e.id = m.id /\ net' = net \ {m},
               e.id = 0 => net' = net,
               events' = Append(events, e), sent' = sent
        PROVE  IdInv'
    <2>1. \A i \in 1..Len(events') :
            \/ i \in 1..Len(events) /\ events'[i] = events[i]
            \/ i = Len(events) + 1 /\ events'[i] = e
      <3>1. \A i \in 1..Len(Append(events, e)) :
              \/ i \in 1..Len(events) /\ Append(events, e)[i] = events[i]
              \/ i = Len(events) + 1 /\ Append(events, e)[i] = e
        BY <1>1, AppendAt
      <3>2. events' = Append(events, e)
        BY <1>5
      <3> QED BY <3>1, <3>2
    <2> QED BY <1>1, <1>5, <2>1
  <1>6. CASE Reports
    <2>1. PICK ok \in BOOLEAN : events' = Append(events, [ok |-> ok, id |-> 0])
      BY <1>6 DEF Reports
    <2>2. [ok |-> ok, id |-> 0] \in Event
      BY ReportAssumption DEF ReportAssumption, Event
    <2> QED BY <1>1, <1>5, <1>6, <2>1, <2>2 DEF Reports
  <1>7. ASSUME NEW m \in net, Settles(m) PROVE IdInv' /\ sent'.msgs >= sent.msgs
    <2>1. events' = events => IdInv'
      BY <1>1, <1>7 DEF Settles
    <2>2. ASSUME NEW ok \in BOOLEAN, events' = Append(events, [ok |-> ok, id |-> m.id]) PROVE IdInv'
      <3>1. m.id # 0 /\ [ok |-> ok, id |-> m.id] \in Event
        BY <1>1 DEF Event, Message
      <3> QED BY <1>5, <1>7, <2>2, <3>1 DEF Settles
    <2>3. sent'.msgs >= sent.msgs
      BY <1>1, <1>7 DEF Settles
    <2> QED BY <1>7, <2>1, <2>2, <2>3 DEF Settles
  <1>8. ASSUME NEW m \in net, Delivers(m) PROVE IdInv' /\ sent'.msgs >= sent.msgs
    <2> DEFINE d == [m EXCEPT !.delivered = TRUE]
    <2>1. d.id = m.id
      BY <1>1 DEF Message
    <2> HIDE DEF d
    <2>2. net' = (net \ {m}) \cup {d} /\ events' = events /\ sent' = sent
      BY <1>8 DEF Delivers, d
    <2> QED BY <1>1, <2>1, <2>2
  <1>9. CASE Forgets
    BY <1>1, <1>9 DEF Forgets
  <1> QED BY <1>2, <1>3, <1>4, <1>6, <1>7, <1>8, <1>9 DEF MessageStep

LEMMA OwnIdsNext == TypeInv /\ OwnIdsKnown /\ [Next]_vars => OwnIdsKnown'
  <1> SUFFICES ASSUME TypeInv, OwnIdsKnown, [Next]_vars PROVE OwnIdsKnown'
    OBVIOUS
  <1> USE DEF OwnIdsKnown, worker, agent, outside
  <1>1. /\ sent.msgs \in Nat /\ [sent EXCEPT !.msgs = @ + 1].msgs = sent.msgs + 1
        /\ msg_id \in Int /\ boot_msg_id \in Int /\ data_msg_id \in Int
    BY ReportAssumption DEF ReportAssumption, TypeInv, LocalOK, OutsideOK
  <1>2. ASSUME NEW kind, MqttSends(kind) \/ HttpsSends(kind) \/ SendFails(kind)
        PROVE  sent'.msgs >= sent.msgs /\ msg_id' <= sent'.msgs
    <2>1. CASE MqttSends(kind)
      <3>1. sent' = [sent EXCEPT !.msgs = @ + 1] /\ msg_id' = sent.msgs + 1
        BY <2>1 DEF MqttSends, Accept
      <3>2. sent'.msgs = sent.msgs + 1
        BY <1>1, <3>1
      <3> QED BY <1>1, <3>1, <3>2
    <2>2. CASE HttpsSends(kind) \/ SendFails(kind)
      <3>1. sent' = sent /\ msg_id' = msg_id
        BY <2>2 DEF HttpsSends, SendFails, MqttRefuses, HttpsFails
      <3> QED BY <1>1, <3>1
    <2> QED BY <1>2, <2>1, <2>2
  <1>3. CASE SendMeta \/ SendBoot \/ SendData
    <2>1. sent'.msgs >= sent.msgs /\ msg_id' <= sent'.msgs /\ sent'.msgs \in Int
      BY <1>2, <1>3, TypeNext, ReportAssumption
      DEF ReportAssumption, TypeInv, OutsideOK, SendMeta, SendBoot, SendData
    <2>2. boot_msg_id' \in {boot_msg_id, 0, -1} /\ data_msg_id' = data_msg_id
      BY <1>3 DEF SendMeta, SendBoot, SendData
    <2> QED BY <1>1, <2>1, <2>2
  <1>4. CASE \/ StartRound \/ CheckMeta \/ RecordMetaId \/ CheckBoot \/ RecordBootId
             \/ Gather \/ RecordDataId \/ EndRound
    BY <1>1, <1>4 DEF StartRound, CheckMeta, RecordMetaId, CheckBoot, RecordBootId,
                      Gather, RecordDataId, EndRound, Rest
  <1>5. CASE HandleSuccess \/ HandleFailure \/ TimeoutCb
    BY <1>1, <1>5 DEF HandleSuccess, HandleFailure, TimeoutCb
  <1>6. CASE ObeyCommand \/ Expire \/ Trigger \/ Log \/ RegisterMeta \/ WifiChange
    BY <1>6 DEF ObeyCommand, Expire, Trigger, Log, RegisterMeta, WifiChange
  <1>7. CASE Restart
    <2>1. sent'.msgs = sent.msgs
      BY <1>7 DEF Restart, TypeInv, OutsideOK
    <2> QED BY <1>1, <1>7, <2>1 DEF Restart, Rest
  <1>8. ASSUME NEW m \in net, Deliver(m) \/ Acknowledge(m) \/ GiveUp(m) PROVE OwnIdsKnown'
    BY <1>8 DEF Deliver, Acknowledge, GiveUp
  <1>9. CASE UNCHANGED vars
    BY <1>9 DEF vars
  <1> QED BY <1>3, <1>4, <1>5, <1>6, <1>7, <1>8, <1>9 DEF Next, Worker, EventLoop, TimerTask

-----------------------------------------------------------------------------
(* The core dump is kept                                                    *)

\* The worker or the event handler takes this id for the boot message's.
BootId(id) == id # 0 /\ (id = boot_msg_id \/ (pc = "bootId" /\ id = msg_id))

BootInv ==
  /\ \A m \in net : BootId(m.id) => m.kind = "boot"
  /\ \A m \in net : m.kind = "boot" /\ m.delivered => got.boot
  /\ \A i \in 1..Len(events) : events[i].ok /\ BootId(events[i].id) => got.boot
  /\ CoredumpKept

LEMMA HandledAt ==
  ASSUME TypeInv, Handles
  PROVE  /\ 1 \in 1..Len(events) /\ Head(events) = events[1]
         /\ \A i \in 1..Len(events') : i \in Nat /\ i + 1 \in 1..Len(events) /\ events'[i] = events[i + 1]
  BY TailAt DEF TypeInv, QueuesOK, Handles

LEMMA PostedAt ==
  ASSUME TypeInv, NEW e, events' = Append(events, e)
  PROVE  \A i \in 1..Len(events') :
            \/ i \in 1..Len(events) /\ events'[i] = events[i]
            \/ i = Len(events) + 1 /\ events'[i] = e
  <1>1. \A i \in 1..Len(Append(events, e)) :
            \/ i \in 1..Len(events) /\ Append(events, e)[i] = events[i]
            \/ i = Len(events) + 1 /\ Append(events, e)[i] = e
    BY AppendAt DEF TypeInv, QueuesOK
  <1> QED BY <1>1

LEMMA WithBoot ==
  ASSUME TypeInv, NEW m, m.kind \in Kind
  PROVE  (got.boot \/ m.kind = "boot") => With(m).boot
  BY DEF With, Kind, TypeInv, OutsideOK

LEMMA BootNext ==
  TypeInv /\ IdInv /\ OwnIdsKnown /\ BootInv /\ [Next]_vars => BootInv'
  <1> SUFFICES ASSUME TypeInv, IdInv, OwnIdsKnown, BootInv, [Next]_vars PROVE BootInv'
    OBVIOUS
  <1> USE DEF BootInv, BootId, CoredumpKept, worker, agent, flash, outside
  <1>1. CASE \/ StartRound \/ CheckMeta \/ RecordMetaId \/ CheckBoot
             \/ Gather \/ RecordDataId \/ EndRound
    BY <1>1 DEF StartRound, CheckMeta, RecordMetaId, CheckBoot, Gather, RecordDataId, EndRound, Rest
  <1>2. CASE ObeyCommand \/ Expire \/ Trigger \/ Log \/ RegisterMeta \/ WifiChange
    BY <1>2 DEF ObeyCommand, Expire, Trigger, Log, RegisterMeta, WifiChange
  <1>3. CASE RecordBootId
    BY <1>3 DEF RecordBootId
  <1>0. /\ \A m \in net : m \in Message /\ m.id \in Nat /\ m.id # 0 /\ m.kind \in Kind
        /\ \A i \in 1..Len(events) : events[i].id \in Nat
        /\ sent.msgs \in Nat /\ msg_id \in Int /\ boot_msg_id \in Int
    BY Ids
  <1>4. ASSUME NEW kind \in Kind, MqttSends(kind) \/ HttpsSends(kind) \/ SendFails(kind),
               pc # "bootId", boot_msg_id' \in {boot_msg_id, 0, -1},
               pc' = "bootId" => kind = "boot" /\ MqttSends(kind),
               coredump' = coredump \/ (kind = "boot" /\ HttpsSends(kind))
        PROVE  BootInv'
    <2>1. CASE MqttSends(kind)
      <3> DEFINE new == NextMessage(kind)
      <3>1. new.id = sent.msgs + 1 /\ new.kind = kind /\ ~new.delivered
        BY DEF NextMessage
      <3>2. /\ net' = net \cup {new} /\ msg_id' = sent.msgs + 1
            /\ got' = got /\ events' = events
        BY <2>1 DEF MqttSends, Accept
      <3>3. coredump' = coredump
        BY <1>4, <2>1 DEF MqttSends, HttpsSends
      <3> HIDE DEF new
      <3>4. ~BootId(new.id)
        BY <1>0, <1>4, <3>1 DEF OwnIdsKnown
      <3> QED BY <1>0, <1>4, <3>1, <3>2, <3>3, <3>4 DEF IdInv, IdsKnown, OwnIdsKnown
    <2>2. ASSUME NEW g, got' = g, got.boot => g.boot, net' = net, msg_id' = msg_id,
                 events' = events \/ \E ok \in BOOLEAN : events' = Append(events, [ok |-> ok, id |-> 0]),
                 coredump' = coredump \/ g.boot
          PROVE  BootInv'
      <3>1. CASE events' = events
        BY <1>0, <1>4, <2>1, <2>2, <3>1
      <3>2. ASSUME NEW ok \in BOOLEAN, events' = Append(events, [ok |-> ok, id |-> 0])
            PROVE  BootInv'
        BY <1>0, <1>4, <2>1, <2>2, <3>2, PostedAt
      <3> QED BY <2>2, <3>1, <3>2
    <2>3. /\ NextMessage(kind).kind = kind
          /\ [NextMessage(kind) EXCEPT !.delivered = TRUE].kind = kind
      BY DEF NextMessage
    <2>4. CASE HttpsSends(kind)
      <3>1. PICK g : g = With([NextMessage(kind) EXCEPT !.delivered = TRUE])
        OBVIOUS
      <3>2. got.boot \/ kind = "boot" => g.boot
        BY <2>3, <3>1, WithBoot
      <3>3. got' = g /\ UNCHANGED <<net, msg_id>> /\ events' = Append(events, [ok |-> TRUE, id |-> 0])
        BY <2>4, <3>1 DEF HttpsSends, Post
      <3> QED BY <1>4, <2>2, <3>2, <3>3
    <2>5. CASE SendFails(kind)
      <3>1. got' = got \/ got' = With(NextMessage(kind))
        BY <2>5 DEF SendFails, MqttRefuses, HttpsFails
      <3>2. got.boot => got'.boot
        BY <2>3, <3>1, WithBoot
      <3>3. UNCHANGED <<net, msg_id>>
        BY <2>5 DEF SendFails, MqttRefuses, HttpsFails
      <3>4. events' = events \/ events' = Append(events, [ok |-> FALSE, id |-> 0])
        BY <2>5 DEF SendFails, MqttRefuses, HttpsFails, Post
      <3>5. CASE coredump' = coredump
        BY <2>2, <3>2, <3>3, <3>4, <3>5
      <3>6. CASE kind = "boot" /\ HttpsSends(kind)
        BY <2>4, <3>6
      <3> QED BY <1>4, <3>5, <3>6
    <2> QED BY <1>4, <2>1, <2>4, <2>5
  <1>5. CASE SendMeta \/ SendBoot \/ SendData
    BY <1>4, <1>5 DEF SendMeta, SendBoot, SendData, Kind
  <1>7. CASE HandleSuccess
    <2>1. Handles
      BY <1>7 DEF HandleSuccess, Handles
    <2>2. events[1].ok /\ (events[1].id # 0 /\ events[1].id = boot_msg_id => got.boot)
      BY <1>7, <2>1, HandledAt DEF HandleSuccess
    <2>3. /\ boot_msg_id' \in {boot_msg_id, 0} /\ UNCHANGED <<net, got, pc, msg_id>>
          /\ coredump' = coredump \/ got.boot
      BY <1>7, <2>1, <2>2, HandledAt DEF HandleSuccess
    <2> QED BY <2>1, <2>3, HandledAt
  <1>8. CASE HandleFailure
    <2>1. Handles
      BY <1>8 DEF HandleFailure, Handles
    <2>2. boot_msg_id' \in {boot_msg_id, -1} /\ UNCHANGED <<net, got, pc, msg_id, coredump>>
      BY <1>8 DEF HandleFailure
    <2> QED BY <1>0, <2>1, <2>2, HandledAt
  <1>9. CASE TimeoutCb
    BY <1>0, <1>9 DEF TimeoutCb
  <1>10. CASE Restart
    BY <1>10 DEF Restart
  <1>11. ASSUME NEW m \in net, Deliver(m) PROVE BootInv'
    <2> DEFINE d == [m EXCEPT !.delivered = TRUE]
    <2>1. d.id = m.id /\ d.kind = m.kind
      BY <1>0 DEF Message
    <2>2. got' = With(m) /\ net' = (net \ {m}) \cup {d}
      BY <1>11 DEF Deliver
    <2> HIDE DEF d
    <2>3. got.boot \/ m.kind = "boot" => got'.boot
      BY <1>0, <2>2, WithBoot
    <2>4. UNCHANGED <<events, boot_msg_id, pc, msg_id, coredump>>
      BY <1>11 DEF Deliver
    <2> QED BY <2>1, <2>2, <2>3, <2>4
  <1>12. ASSUME NEW m \in net, Acknowledge(m) \/ GiveUp(m) PROVE BootInv'
    <2>1. net' = net \ {m} /\ UNCHANGED <<got, boot_msg_id, pc, msg_id, coredump>>
      BY <1>12 DEF Acknowledge, GiveUp
    <2>2. CASE events' = events
      BY <2>1, <2>2
    <2>3. ASSUME NEW ok \in BOOLEAN, events' = Append(events, [ok |-> ok, id |-> m.id]),
                 ok => m.delivered
          PROVE  BootInv'
      <3> DEFINE e == [ok |-> ok, id |-> m.id]
      <3>1. e.ok = ok /\ e.id = m.id
        OBVIOUS
      <3>2. \A i \in 1..Len(events') :
              \/ i \in 1..Len(events) /\ events'[i] = events[i]
              \/ i = Len(events) + 1 /\ events'[i] = e
        BY <2>3, PostedAt
      <3> HIDE DEF e
      <3> QED BY <1>0, <2>1, <2>3, <3>1, <3>2
    <2> QED BY <1>12, <2>2, <2>3 DEF Acknowledge, GiveUp
  <1>13. CASE UNCHANGED vars
    BY <1>13 DEF vars
  <1> QED BY <1>1, <1>2, <1>3, <1>5, <1>7, <1>8, <1>9, <1>10, <1>11, <1>12, <1>13
          DEF Next, Worker, EventLoop, TimerTask

\* Over either transport, whatever is lost, duplicated or late and whenever
\* the device restarts: the image of a core dump is erased only once the
\* message that reports it has reached the cloud.
THEOREM CoredumpSafe == Spec => []CoredumpKept
  <1>1. Init => IdInv /\ OwnIdsKnown /\ BootInv
    BY DEF Init, IdInv, IdsKnown, OneFate, OwnIdsKnown, BootInv, CoredumpKept
  <1>2. TypeInv /\ [Next]_vars => TypeInv'
    BY TypeNext
  <1>3. TypeInv /\ IdInv /\ [Next]_vars => IdInv'
    BY IdNext, NextIsMessageStep
  <1>4. BootInv => CoredumpKept
    BY DEF BootInv
  <1> QED BY <1>1, <1>2, <1>3, <1>4, TypeInit, OwnIdsNext, BootNext, PTL DEF Spec

-----------------------------------------------------------------------------
(* Critical records are released once they have arrived                     *)

Arrived(from, n, records) == \A r \in from..from+n-1 : r \in records

\* The message with this id carries these records, and an event that
\* acknowledges it means that they have arrived.
Carries(id, from, n, msgs, evs, records) ==
  /\ \A m \in msgs : m.id = id => m.kind = "data" /\ m.data.from = from /\ m.data.n = n
  /\ \A i \in 1..Len(evs) : evs[i].ok /\ evs[i].id = id => Arrived(from, n, records)

\* What is delivered has arrived.  Over HTTPS nothing is under way.
DeliveredArrived ==
  \A m \in net : m.delivered /\ m.kind = "data" => Arrived(m.data.from, m.data.n, got.records)
HttpsIsDone == ~Async => net = {} /\ \A i \in 1..Len(events) : events[i].id = 0

DataInv ==
  /\ DeliveredArrived /\ HttpsIsDone
  /\ pc \in {"sendData", "dataId"} /\ ~overtaken => consumed.from = rel
  /\ pc = "dataId" => /\ msg_id # 0
                      /\ Carries(msg_id, consumed.from, consumed.n, net, events, got.records)
  /\ data_msg_id # 0 /\ ~overtaken =>
       Carries(data_msg_id, rel, data_msg_len, net, events, got.records)
  /\ ReleasedOnlySent

LEMMA WithRecords ==
  ASSUME TypeInv, NEW m, m.kind \in Kind, m.data \in Range_
  PROVE  /\ got.records \subseteq With(m).records
         /\ m.kind = "data" => Arrived(m.data.from, m.data.n, With(m).records)
  <1>1. m.kind = "data" =>
          With(m).records = got.records \cup {m.data.from + i : i \in 0..m.data.n-1}
    <2> DEFINE new == {m.data.from + i : i \in 0..m.data.n-1}
    <2>1. m.kind = "data" => With(m) = [got EXCEPT !.records = @ \cup new]
      BY DEF With
    <2> HIDE DEF new
    <2>2. m.kind = "data" => With(m).records = got.records \cup new
      BY <2>1 DEF TypeInv, OutsideOK, Got
    <2> QED BY <2>2 DEF new
  <1>2. m.kind # "data" => With(m).records = got.records
    BY DEF With, Kind, TypeInv, OutsideOK
  <1>3. m.data.from \in Int /\ m.data.n \in Int
    BY ReportAssumption DEF ReportAssumption, Range_
  <1>4. ASSUME m.kind = "data", NEW r \in m.data.from..m.data.from+m.data.n-1
        PROVE  r \in With(m).records
    <2>1. r - m.data.from \in 0..m.data.n-1 /\ r = m.data.from + (r - m.data.from)
      BY <1>3
    <2> QED BY <1>1, <1>4, <2>1
  <1> QED BY <1>1, <1>2, <1>4 DEF Arrived

\* Over either transport what the cloud has, it keeps.
LEMMA RecordsKept == TypeInv /\ [Next]_vars => got.records \subseteq got'.records
  <1> SUFFICES ASSUME TypeInv, [Next]_vars PROVE got.records \subseteq got'.records
    OBVIOUS
  <1>0. consumed \in Range_ /\ got.records = [got EXCEPT !.boot = FALSE].records
    BY DEF TypeInv, LocalOK, OutsideOK
  <1>1. ASSUME NEW kind \in Kind, MqttSends(kind) \/ HttpsSends(kind) \/ SendFails(kind)
        PROVE  got.records \subseteq got'.records
    <2>1. /\ NextMessage(kind).kind = kind /\ NextMessage(kind).data = consumed
          /\ [NextMessage(kind) EXCEPT !.delivered = TRUE].kind = kind
          /\ [NextMessage(kind) EXCEPT !.delivered = TRUE].data = consumed
      BY DEF NextMessage
    <2>2. \/ got' = got
          \/ got' = With(NextMessage(kind))
          \/ got' = With([NextMessage(kind) EXCEPT !.delivered = TRUE])
      BY <1>1 DEF MqttSends, HttpsSends, SendFails, MqttRefuses, HttpsFails, Accept, outside
    <2> QED BY <1>0, <2>1, <2>2, WithRecords
  <1>2. CASE SendMeta \/ SendBoot \/ SendData
    BY <1>1, <1>2 DEF SendMeta, SendBoot, SendData, Kind
  <1>3. CASE \/ StartRound \/ CheckMeta \/ RecordMetaId \/ CheckBoot \/ RecordBootId
             \/ Gather \/ RecordDataId \/ EndRound
    BY <1>3 DEF StartRound, CheckMeta, RecordMetaId, CheckBoot, RecordBootId,
                Gather, RecordDataId, EndRound, outside
  <1>4. CASE HandleSuccess \/ HandleFailure
    BY <1>4 DEF HandleSuccess, HandleFailure, outside
  <1>5. CASE TimerTask \/ Expire \/ Trigger \/ Log \/ RegisterMeta \/ WifiChange
    BY <1>5 DEF TimerTask, ObeyCommand, TimeoutCb, Expire, Trigger, Log, RegisterMeta,
                WifiChange, outside
  <1>6. CASE Restart
    BY <1>0, <1>6 DEF Restart
  <1>7. ASSUME NEW m \in net, Deliver(m) PROVE got.records \subseteq got'.records
    <2>1. m.kind \in Kind /\ m.data \in Range_
      BY DEF TypeInv, OutsideOK, Message
    <2> QED BY <1>7, <2>1, WithRecords DEF Deliver
  <1>8. ASSUME NEW m \in net, Acknowledge(m) \/ GiveUp(m) PROVE got.records \subseteq got'.records
    BY <1>8 DEF Acknowledge, GiveUp
  <1>9. CASE UNCHANGED vars
    BY <1>9 DEF vars, outside
  <1> QED BY <1>2, <1>3, <1>4, <1>5, <1>6, <1>7, <1>8, <1>9 DEF Next, Worker, EventLoop

LEMMA DeliveredNext ==
  TypeInv /\ DeliveredArrived /\ HttpsIsDone /\ MessageStep /\ got.records \subseteq got'.records
    => DeliveredArrived' /\ HttpsIsDone'
  <1> SUFFICES ASSUME TypeInv, DeliveredArrived, HttpsIsDone, MessageStep,
                      got.records \subseteq got'.records
               PROVE  DeliveredArrived' /\ HttpsIsDone'
    OBVIOUS
  <1> USE DEF DeliveredArrived, HttpsIsDone, Arrived
  <1>1. CASE UNCHANGED <<net, events, sent>>
    BY <1>1
  <1>2. ASSUME NEW kind \in Kind, Sends(kind) PROVE DeliveredArrived' /\ HttpsIsDone'
    <2>1. ~NextMessage(kind).delivered
      BY DEF NextMessage
    <2> QED BY <1>2, <2>1 DEF Sends
  <1>3. CASE Handles
    BY <1>3, HandledAt DEF Handles
  <1>4. CASE Reports
    <2>1. PICK ok \in BOOLEAN : events' = Append(events, [ok |-> ok, id |-> 0])
      BY <1>4 DEF Reports
    <2> QED BY <1>4, <2>1, PostedAt DEF Reports
  <1>5. CASE Forgets
    BY <1>5 DEF Forgets
  <1>6. ASSUME NEW m \in net, Delivers(m) PROVE DeliveredArrived' /\ HttpsIsDone'
    <2> DEFINE d == [m EXCEPT !.delivered = TRUE]
    <2>1. m.kind \in Kind /\ m.data \in Range_ /\ d.kind = m.kind /\ d.data = m.data
      BY DEF TypeInv, OutsideOK, Message
    <2>2. m.kind = "data" => Arrived(m.data.from, m.data.n, got'.records)
      BY <1>6, <2>1, WithRecords DEF Delivers
    <2>3. net' = (net \ {m}) \cup {d} /\ events' = events
      BY <1>6 DEF Delivers
    <2> HIDE DEF d
    <2> QED BY <2>1, <2>2, <2>3
  <1>7. ASSUME NEW m \in net, Settles(m) PROVE DeliveredArrived' /\ HttpsIsDone'
    BY <1>7 DEF Settles
  <1> QED BY <1>1, <1>2, <1>3, <1>4, <1>5, <1>6, <1>7 DEF MessageStep

\* What is known of a message stays known until its event is handled.
LEMMA CarriesNext ==
  ASSUME TypeInv, IdInv, DeliveredArrived, MessageStep, got.records \subseteq got'.records,
         NEW id \in Nat \ {0}, id <= sent.msgs, NEW from, NEW n,
         Carries(id, from, n, net, events, got.records)
  PROVE  Carries(id, from, n, net', events', got'.records)
  <1> USE DEF Carries, Arrived
  <1>1. CASE UNCHANGED <<net, events, sent>>
    BY <1>1
  <1>2. ASSUME NEW kind \in Kind, Sends(kind)
        PROVE  Carries(id, from, n, net', events', got'.records)
    <2>1. NextMessage(kind).id = sent.msgs + 1 /\ sent.msgs \in Nat
      BY ReportAssumption DEF ReportAssumption, NextMessage, TypeInv, OutsideOK
    <2> QED BY <1>2, <2>1 DEF Sends
  <1>3. CASE Handles
    BY <1>3, HandledAt DEF Handles
  <1>4. CASE Reports
    <2>1. PICK ok \in BOOLEAN : events' = Append(events, [ok |-> ok, id |-> 0])
      BY <1>4 DEF Reports
    <2> QED BY <1>4, <2>1, PostedAt DEF Reports
  <1>5. CASE Forgets
    BY <1>5 DEF Forgets
  <1>6. ASSUME NEW m \in net, Delivers(m)
        PROVE  Carries(id, from, n, net', events', got'.records)
    <2> DEFINE d == [m EXCEPT !.delivered = TRUE]
    <2>1. d.id = m.id /\ d.kind = m.kind /\ d.data = m.data
      BY DEF TypeInv, OutsideOK, Message
    <2>2. net' = (net \ {m}) \cup {d} /\ events' = events
      BY <1>6 DEF Delivers
    <2> HIDE DEF d
    <2> QED BY <2>1, <2>2
  <1>7. ASSUME NEW m \in net, Settles(m)
        PROVE  Carries(id, from, n, net', events', got'.records)
    <2>1. CASE events' = events
      BY <1>7, <2>1 DEF Settles
    <2>2. ASSUME NEW ok \in BOOLEAN, ok => m.delivered,
                 events' = Append(events, [ok |-> ok, id |-> m.id])
          PROVE  Carries(id, from, n, net', events', got'.records)
      <3>1. m.id = id /\ ok => Arrived(from, n, got'.records)
        BY <2>2 DEF DeliveredArrived
      <3> QED BY <1>7, <2>2, <3>1, PostedAt DEF Settles
    <2> QED BY <1>7, <2>1, <2>2 DEF Settles
  <1> QED BY <1>1, <1>2, <1>3, <1>4, <1>5, <1>6, <1>7 DEF MessageStep

LEMMA DataNext ==
  TypeInv /\ IdInv /\ OwnIdsKnown /\ DataInv /\ [Next]_vars => DataInv'
  <1> SUFFICES ASSUME TypeInv, IdInv, OwnIdsKnown, DataInv, [Next]_vars PROVE DataInv'
    OBVIOUS
  <1>0. /\ \A m \in net : m.id \in Nat
        /\ \A i \in 1..Len(events) : events[i].id \in Nat
    BY Ids
  <1>1. /\ MessageStep /\ got.records \subseteq got'.records
        /\ DeliveredArrived /\ DeliveredArrived' /\ HttpsIsDone /\ HttpsIsDone'
    BY NextIsMessageStep, RecordsKept, DeliveredNext DEF DataInv
  <1>2. /\ sent.msgs \in Nat /\ msg_id \in Nat /\ data_msg_id \in Nat
        /\ data_msg_len \in Nat /\ rel \in Nat /\ wr \in Nat /\ consumed \in Range_
        /\ consumed.from \in Nat /\ consumed.n \in Nat
    BY ReportAssumption DEF ReportAssumption, TypeInv, LocalOK, OutsideOK, Range_
  <1>3. \A id \in Nat \ {0} : \A from, n :
          id <= sent.msgs /\ Carries(id, from, n, net, events, got.records)
            => Carries(id, from, n, net', events', got'.records)
    BY <1>1, CarriesNext
  <1>4. /\ pc = "dataId" =>
             Carries(msg_id, consumed.from, consumed.n, net', events', got'.records)
        /\ data_msg_id # 0 /\ ~overtaken =>
             Carries(data_msg_id, rel, data_msg_len, net', events', got'.records)
    BY <1>2, <1>3 DEF DataInv, OwnIdsKnown
  <1>5. ReleasedOnlySent /\ UNCHANGED <<overtaken, rel>> => ReleasedOnlySent'
    BY <1>1 DEF ReleasedOnlySent
  <1>6. ASSUME UNCHANGED <<data_msg_id, data_msg_len, rel, overtaken>>,
               pc' \notin {"sendData", "dataId"} \/ UNCHANGED <<pc, msg_id, consumed>>
        PROVE  DataInv'
    BY <1>1, <1>4, <1>5, <1>6 DEF DataInv
  <1> USE DEF worker, agent, store, outside
  <1>7. CASE \/ StartRound \/ CheckMeta \/ RecordMetaId \/ CheckBoot \/ RecordBootId
             \/ EndRound
    BY <1>6, <1>7 DEF StartRound, CheckMeta, RecordMetaId, CheckBoot, RecordBootId,
                      EndRound, Rest
  <1>8. CASE SendMeta \/ SendBoot
    BY <1>6, <1>8 DEF SendMeta, SendBoot, MqttSends, HttpsSends, SendFails, MqttRefuses,
                      HttpsFails, Accept
  <1>9. CASE Gather
    <2>1. UNCHANGED <<data_msg_id, data_msg_len, rel, overtaken>>
          /\ pc' # "dataId" /\ consumed'.from = rel
      BY <1>9 DEF Gather
    <2> QED BY <1>1, <1>4, <1>5, <2>1 DEF DataInv
  <1>10. CASE SendData
    <2>1. ASSUME MqttSends("data"), pc' = "dataId", UNCHANGED rel PROVE DataInv'
      <3> DEFINE new == NextMessage("data")
      <3>1. new.id = sent.msgs + 1 /\ new.kind = "data" /\ new.data = consumed
        BY DEF NextMessage
      <3>2. net' = net \cup {new} /\ msg_id' = sent.msgs + 1 /\ UNCHANGED <<events, overtaken>>
        BY <2>1 DEF MqttSends, Accept
      <3>3. pc = "sendData" /\ UNCHANGED <<consumed, data_msg_id, data_msg_len>>
        BY <1>10 DEF SendData
      <3> HIDE DEF new
      <3>4. \A m \in net : m.id # sent.msgs + 1
        BY <1>0, <1>2 DEF IdInv, IdsKnown
      <3>5. \A i \in 1..Len(events) : events[i].id # sent.msgs + 1
        BY <1>0, <1>2 DEF IdInv, IdsKnown
      <3>6. Carries(msg_id', consumed'.from, consumed'.n, net', events', got'.records)
        BY <3>1, <3>2, <3>3, <3>4, <3>5 DEF Carries
      <3>7. msg_id' # 0
        BY <1>2, <3>2
      <3> QED BY <1>1, <1>4, <1>5, <2>1, <3>2, <3>3, <3>6, <3>7 DEF DataInv
    <2>2. ASSUME HttpsSends("data"), pc' = "end", CriticalRelease(consumed.n) PROVE DataInv'
      <3> DEFINE new == [NextMessage("data") EXCEPT !.delivered = TRUE]
      <3>1. new.kind = "data" /\ new.data = consumed
        BY DEF NextMessage
      <3>2. got' = With(new) /\ ~Async /\ UNCHANGED overtaken
        BY <2>2 DEF HttpsSends
      <3> HIDE DEF new
      <3>3. "data" \in Kind
        BY DEF Kind
      <3>4. Arrived(consumed.from, consumed.n, got'.records)
        BY <1>2, <3>1, <3>2, <3>3, WithRecords
      <3>5. pc = "sendData" /\ UNCHANGED <<data_msg_id, data_msg_len>>
        BY <1>10 DEF SendData
      <3>6. rel' \in {rel, rel + consumed.n}
        BY <2>2 DEF CriticalRelease
      <3>7. ReleasedOnlySent'
        <4>0. PICK q \in Nat : q = rel' /\ q <= rel + consumed.n
          BY <1>2, <3>6
        <4>4. q <= rel + consumed.n
          BY <4>0
        <4> SUFFICES ASSUME ~overtaken, NEW r \in 0..q-1 PROVE r \in got'.records
          BY <3>2, <4>0 DEF ReleasedOnlySent
        <4>1. consumed.from = rel
          BY <3>5 DEF DataInv
        <4>2. CASE r < rel
          BY <1>1, <1>2, <4>2 DEF DataInv, ReleasedOnlySent
        <4>3. CASE ~(r < rel)
          <5>1. r \in rel..rel+consumed.n-1
            BY <1>2, <4>4, <4>3
          <5> QED BY <3>4, <4>1, <5>1 DEF Arrived
        <4> QED BY <4>2, <4>3
      <3>8. ASSUME data_msg_id' # 0
            PROVE  Carries(data_msg_id', rel', data_msg_len', net', events', got'.records)
        BY <1>1, <3>2, <3>5, <3>8 DEF HttpsIsDone, Carries
      <3> QED BY <1>1, <2>2, <3>7, <3>8 DEF DataInv
    <2>3. ASSUME SendFails("data"), pc' = "end", UNCHANGED rel PROVE DataInv'
      BY <1>6, <1>10, <2>3 DEF SendData, SendFails, MqttRefuses, HttpsFails
    <2> QED BY <1>10, <2>1, <2>2, <2>3 DEF SendData
  <1>11. CASE RecordDataId
    <2>1. /\ UNCHANGED <<rel, overtaken>> /\ pc = "dataId" /\ pc' = "idle"
          /\ data_msg_id' = msg_id /\ data_msg_len' = consumed.n
      BY <1>11 DEF RecordDataId, Rest
    <2> QED BY <1>1, <1>4, <1>5, <2>1 DEF DataInv
  <1>12. CASE HandleSuccess
    <2>1. Handles /\ events[1].ok /\ 1 \in 1..Len(events) /\ Head(events) = events[1]
      BY <1>12, HandledAt DEF HandleSuccess, Handles
    <2>2. UNCHANGED <<pc, msg_id, consumed, data_msg_id, data_msg_len, net, got>>
      BY <1>12 DEF HandleSuccess
    <2>3. CASE UNCHANGED <<rel, overtaken>>
      BY <1>6, <2>2, <2>3
    <2>4. ASSUME data_msg_id # 0, events[1].id = data_msg_id, CriticalRelease(data_msg_len),
                 overtaken' = (overtaken \/ pc \in {"sendData", "dataId"})
          PROVE  DataInv'
      <3>1. ~overtaken => Arrived(rel, data_msg_len, got.records)
        BY <2>1, <2>4 DEF DataInv, Carries
      <3>2. rel' \in {rel, rel + data_msg_len}
        BY <2>4 DEF CriticalRelease
      <3>3. ReleasedOnlySent'
        <4>0. PICK q \in Nat : q = rel' /\ q <= rel + data_msg_len
          BY <1>2, <3>2
        <4>4. q <= rel + data_msg_len
          BY <4>0
        <4> SUFFICES ASSUME ~overtaken, NEW r \in 0..q-1 PROVE r \in got.records
          BY <2>2, <2>4, <4>0 DEF ReleasedOnlySent
        <4>1. CASE r < rel
          BY <1>2, <4>1 DEF DataInv, ReleasedOnlySent
        <4>2. CASE ~(r < rel)
          <5>1. r \in rel..rel+data_msg_len-1
            BY <1>2, <4>4, <4>2
          <5> QED BY <3>1, <5>1 DEF Arrived
        <4> QED BY <4>1, <4>2
      <3>4. \A m \in net : m.id # data_msg_id
        BY <2>1, <2>4 DEF IdInv, OneFate
      <3>5. \A i \in 1..Len(events') : events'[i].id # data_msg_id
        <4> SUFFICES ASSUME NEW i \in 1..Len(events'), events'[i].id = data_msg_id PROVE FALSE
          OBVIOUS
        <4>1. i \in Nat /\ i # 0 /\ i + 1 \in 1..Len(events) /\ events[i + 1].id = data_msg_id
          BY <2>1, HandledAt
        <4>2. i + 1 = 1
          BY <2>1, <2>4, <4>1 DEF IdInv, OneFate
        <4> QED BY <4>1, <4>2
      <3>6. Carries(data_msg_id', rel', data_msg_len', net', events', got'.records)
        BY <2>2, <3>4, <3>5 DEF Carries
      <3>7. pc' \in {"sendData", "dataId"} => overtaken'
        BY <2>2, <2>4
      <3> QED BY <1>1, <1>4, <2>2, <3>3, <3>6, <3>7 DEF DataInv
    <2> QED BY <1>12, <2>1, <2>3, <2>4 DEF HandleSuccess
  <1>13. CASE HandleFailure \/ TimerTask \/ Expire \/ Trigger \/ Log \/ RegisterMeta \/ WifiChange
    BY <1>6, <1>13 DEF HandleFailure, TimerTask, ObeyCommand, TimeoutCb, Expire, Trigger, Log,
                       RegisterMeta, WifiChange
  <1>14. CASE Restart
    <2>1. UNCHANGED <<rel, overtaken>> /\ pc' = "idle" /\ data_msg_id' = 0
      BY <1>14 DEF Restart, Rest
    <2> QED BY <1>1, <1>5, <2>1 DEF DataInv
  <1>15. ASSUME NEW m \in net, Deliver(m) \/ Acknowledge(m) \/ GiveUp(m) PROVE DataInv'
    BY <1>6, <1>15 DEF Deliver, Acknowledge, GiveUp
  <1>16. CASE UNCHANGED vars
    BY <1>6, <1>16 DEF vars
  <1> QED BY <1>7, <1>8, <1>9, <1>10, <1>11, <1>12, <1>13, <1>14, <1>15, <1>16
          DEF Next, Worker, EventLoop

\* Over either transport, whatever is lost, duplicated or late and whenever
\* the device restarts: a critical record leaves the store only after it has
\* reached the cloud, unless an acknowledgement has released records while
\* the worker had encoded a message and not yet recorded its id and length.
THEOREM RecordsSafe == Spec => []ReleasedOnlySent
  <1>1. Init => IdInv /\ OwnIdsKnown /\ DataInv
    BY DEF Init, IdInv, IdsKnown, OneFate, OwnIdsKnown, DataInv, DeliveredArrived,
           HttpsIsDone, ReleasedOnlySent
  <1>2. TypeInv /\ IdInv /\ [Next]_vars => IdInv'
    BY IdNext, NextIsMessageStep
  <1>3. DataInv => ReleasedOnlySent
    BY DEF DataInv
  <1> QED BY <1>1, <1>2, <1>3, TypeInit, TypeNext, OwnIdsNext, DataNext, PTL DEF Spec

-----------------------------------------------------------------------------
(* The recorded metadata version over HTTPS                                 *)

MetaInv == ~Async => meta_crc <= crc /\ nvs_crc <= got.meta

LEMMA WithMeta ==
  ASSUME TypeInv, NEW m, m.kind \in Kind, m.crc \in Nat
  PROVE  With(m).meta \in Nat /\ With(m).meta >= got.meta /\ (m.kind = "meta" => With(m).meta >= m.crc)
  <1>1. got \in Got /\ got.meta \in Nat
    BY ReportAssumption DEF ReportAssumption, TypeInv, OutsideOK, Got
  <1>2. CASE m.kind = "meta"
    <2> DEFINE new == IF got.meta < m.crc THEN m.crc ELSE got.meta
    <2>1. With(m) = [got EXCEPT !.meta = new]
      BY <1>2 DEF With
    <2>2. new \in Nat /\ new >= got.meta /\ new >= m.crc
      BY <1>1
    <2> HIDE DEF new
    <2>3. With(m).meta = new
      BY <1>1, <2>1 DEF Got
    <2> QED BY <2>2, <2>3
  <1>3. CASE m.kind # "meta"
    <2>1. With(m).meta = got.meta
      BY <1>1, <1>3 DEF With, Kind, Got
    <2> QED BY <1>1, <1>3, <2>1
  <1> QED BY <1>2, <1>3

LEMMA MetaNext == TypeInv /\ HttpsIsDone /\ MetaInv /\ [Next]_vars => MetaInv'
  <1> SUFFICES ASSUME TypeInv, HttpsIsDone, MetaInv, [Next]_vars, ~Async PROVE MetaInv'
    BY DEF MetaInv
  <1>0. /\ meta_crc \in Nat /\ crc \in Nat /\ nvs_crc \in Nat /\ got.meta \in Nat
        /\ meta_crc <= crc /\ nvs_crc <= got.meta
        /\ net = {} /\ \A i \in 1..Len(events) : events[i].id = 0
    BY ReportAssumption
    DEF ReportAssumption, TypeInv, LocalOK, FlagsOK, OutsideOK, Got, MetaInv, HttpsIsDone
  <1> USE DEF MetaInv, worker, agent, flash, outside
  <1>1. CASE \/ StartRound \/ RecordMetaId \/ CheckBoot \/ RecordBootId \/ Gather
             \/ RecordDataId \/ EndRound
    BY <1>0, <1>1 DEF StartRound, RecordMetaId, CheckBoot, RecordBootId, Gather,
                      RecordDataId, EndRound
  <1>2. CASE CheckMeta
    BY <1>0, <1>2 DEF CheckMeta
  <1>3. CASE HandleSuccess
    <2>1. Head(events).id = 0
      BY <1>0, <1>3, HandledAt DEF HandleSuccess, Handles
    <2> QED BY <1>0, <1>3, <2>1 DEF HandleSuccess
  <1>4. CASE \/ HandleFailure \/ TimerTask \/ Expire \/ Trigger \/ Log \/ WifiChange
    BY <1>0, <1>4 DEF HandleFailure, TimerTask, ObeyCommand, TimeoutCb, Expire, Trigger,
                      Log, WifiChange
  <1>5. CASE RegisterMeta
    BY <1>0, <1>5 DEF RegisterMeta
  <1>6. CASE Restart
    BY <1>0, <1>6 DEF Restart, TypeInv, OutsideOK, Got
  <1>7. CASE UNCHANGED vars
    BY <1>0, <1>7 DEF vars
  <1>8. CASE SendMeta \/ SendBoot \/ SendData
    <2>1. PICK kind \in Kind :
            /\ HttpsSends(kind) \/ HttpsFails(kind)
            /\ nvs_crc' = nvs_crc \/ (kind = "meta" /\ HttpsSends(kind) /\ nvs_crc' = meta_crc)
      BY <1>8 DEF SendMeta, SendBoot, SendData, SendFails, MqttSends, MqttRefuses, Kind
    <2>2. UNCHANGED <<meta_crc, crc>>
      BY <1>8 DEF SendMeta, SendBoot, SendData
    <2> DEFINE m1 == NextMessage(kind)
               m2 == [NextMessage(kind) EXCEPT !.delivered = TRUE]
    <2>3. /\ m1.kind = kind /\ m1.crc = (IF kind = "meta" THEN crc ELSE 0)
          /\ m2.kind = kind /\ m2.crc = (IF kind = "meta" THEN crc ELSE 0)
      BY DEF NextMessage
    <2>4. HttpsSends(kind) => got' = With(m2)
      BY DEF HttpsSends
    <2>5. HttpsFails(kind) => got' = got \/ got' = With(m1)
      BY DEF HttpsFails
    <2> HIDE DEF m1, m2
    <2>6. m1.crc \in Nat /\ m2.crc \in Nat /\ (kind = "meta" => m2.crc = crc)
      BY <1>0, <2>3
    <2>7. /\ With(m1).meta \in Nat /\ With(m1).meta >= got.meta
          /\ With(m2).meta \in Nat /\ With(m2).meta >= got.meta
          /\ kind = "meta" => With(m2).meta >= crc
      BY <2>3, <2>6, WithMeta
    <2>8. CASE HttpsSends(kind)
      <3>1. nvs_crc <= With(m2).meta /\ (kind = "meta" => meta_crc <= With(m2).meta)
        BY <1>0, <2>7
      <3>2. got'.meta = With(m2).meta
        BY <2>4, <2>8
      <3> QED BY <1>0, <2>1, <2>2, <3>1, <3>2
    <2>9. CASE HttpsFails(kind) /\ nvs_crc' = nvs_crc
      <3>1. nvs_crc <= With(m1).meta
        BY <1>0, <2>7
      <3>2. got'.meta = got.meta \/ got'.meta = With(m1).meta
        BY <2>5, <2>9
      <3> QED BY <1>0, <2>2, <2>9, <3>1, <3>2
    <2> QED BY <2>1, <2>8, <2>9
  <1> QED BY <1>0, <1>1, <1>2, <1>3, <1>4, <1>5, <1>6, <1>7, <1>8 DEF Next, Worker, EventLoop

\* Over HTTPS, where only the call that sends the metadata records its
\* version: the version in NVS is one that the cloud has.
THEOREM MetaOverHttps == Spec => [](~Async => MetaDelivered)
  <1>1. Init => DeliveredArrived /\ HttpsIsDone /\ MetaInv
    BY ReportAssumption DEF ReportAssumption, Init, DeliveredArrived, HttpsIsDone, MetaInv
  <1>2. TypeInv /\ DeliveredArrived /\ HttpsIsDone /\ [Next]_vars => DeliveredArrived' /\ HttpsIsDone'
    BY NextIsMessageStep, RecordsKept, DeliveredNext
  <1>3. MetaInv => (~Async => MetaDelivered)
    BY DEF MetaInv, MetaDelivered
  <1> QED BY <1>1, <1>2, <1>3, TypeInit, TypeNext, MetaNext, PTL DEF Spec

=============================================================================
