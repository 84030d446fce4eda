--------------------------- MODULE SamplersProofs ---------------------------
(***************************************************************************)
(* Proofs about the samplers, for every heap, every set of signal          *)
(* strengths, of access points and of addresses, and any number of events, *)
(* calls and timeouts.                                                     *)
(***************************************************************************)
EXTENDS Samplers, TLAPS

-----------------------------------------------------------------------------
(* Heap metrics: a sample does not contradict itself                        *)

DumpPcs == {"off", "dump", "free", "lfb", "min", "report", "event"}

HeapTypes ==
  /\ heap \in [free : Nat, min : Nat]
  /\ dumper \in [Dumpers -> [pc : DumpPcs, read : [free : Nat, lfb : Nat, min : Nat], failed : BOOLEAN]]

\* The least ever free is no more than what is free, nor than what was free
\* at the first reading of a dump under way.
HeapInv ==
  /\ HeapTypes
  /\ heap.min <= heap.free
  /\ \A t \in Dumpers : dumper[t].pc \in {"lfb", "min"} => heap.min <= dumper[t].read.free
  /\ FreeAboveMin

LEMMA AfterEach ==
  After("free") = "lfb" /\ After("lfb") = "min" /\ After("min") = "report"
  <1>1. \A f, i : ReadOrder[i] = f /\ i \in 1..3
          => /\ (CHOOSE j \in 1..3 : ReadOrder[j] = f) \in 1..3
             /\ ReadOrder[CHOOSE j \in 1..3 : ReadOrder[j] = f] = f
    OBVIOUS
  <1>2. \A i \in 1..3 : i = 1 \/ i = 2 \/ i = 3
    OBVIOUS
  <1>3. ReadOrder[1] = "free" /\ ReadOrder[2] = "lfb" /\ ReadOrder[3] = "min" /\ ReadOrder[4] = "report"
    BY DEF ReadOrder
  <1>4. (CHOOSE j \in 1..3 : ReadOrder[j] = "free") = 1
    BY <1>1, <1>2, <1>3
  <1>5. (CHOOSE j \in 1..3 : ReadOrder[j] = "lfb") = 2
    BY <1>1, <1>2, <1>3
  <1>6. (CHOOSE j \in 1..3 : ReadOrder[j] = "min") = 3
    BY <1>1, <1>2, <1>3
  <1> QED BY <1>3, <1>4, <1>5, <1>6 DEF After

LEMMA HeapStart == Init => HeapInv
  BY HeapAssumption DEF HeapAssumption, Init, HeapInit, HeapInv, HeapTypes, DumpPcs, Off, NoSample, FreeAboveMin, Dumpers

LEMMA HeapStep == HeapInv /\ HeapNext => HeapInv'
  <1> SUFFICES ASSUME HeapInv, HeapNext PROVE HeapInv'
    OBVIOUS
  <1> USE DEF HeapInv, HeapTypes, FreeAboveMin, DumpPcs
  <1>1. CASE Alloc
    BY <1>1 DEF Alloc
  <1>2. CASE Release
    BY <1>2, HeapAssumption DEF HeapAssumption, Release
  <1>3. ASSUME NEW t \in Dumpers, AllocFails(t) PROVE HeapInv'
    BY <1>3 DEF AllocFails, NoSample
  <1>4. ASSUME NEW t \in Dumpers, EnterDump(t) PROVE HeapInv'
    BY <1>4 DEF EnterDump, EndDump, ReadOrder
  <1>5. ASSUME NEW t \in Dumpers, ReadHeap(t, "free") PROVE HeapInv'
    BY <1>5, AfterEach DEF ReadHeap, Reading
  <1>6. ASSUME NEW t \in Dumpers, ReadHeap(t, "lfb") PROVE HeapInv'
    BY <1>6, AfterEach DEF ReadHeap, Reading
  <1>7. ASSUME NEW t \in Dumpers, ReadHeap(t, "min") PROVE HeapInv'
    BY <1>7, AfterEach DEF ReadHeap, Reading
  <1>8. ASSUME NEW t \in Dumpers, ReportSample(t) PROVE HeapInv'
    BY <1>8 DEF ReportSample, EndDump
  <1>9. ASSUME NEW t \in Dumpers, TellFailure(t) PROVE HeapInv'
    BY <1>9 DEF TellFailure, Off, NoSample
  <1>10. CASE HeapTimeout
    BY <1>10 DEF HeapTimeout, Off, NoSample
  <1>11. CASE HeapResetInterval
    BY <1>11 DEF HeapResetInterval
  <1>12. CASE HeapMetricsInit
    BY <1>12 DEF HeapMetricsInit, Off, NoSample
  <1>13. CASE HeapMetricsDeinit
    BY <1>13 DEF HeapMetricsDeinit
  <1> QED BY <1>1, <1>2, <1>3, <1>4, <1>5, <1>6, <1>7, <1>8, <1>9, <1>10, <1>11, <1>12, <1>13 DEF HeapNext

LEMMA HeapInvNext == HeapInv /\ [Next]_vars => HeapInv'
  <1> SUFFICES ASSUME HeapInv, [Next]_vars PROVE HeapInv'
    OBVIOUS
  <1>1. CASE UNCHANGED heapVars
    BY <1>1 DEF heapVars, HeapInv, HeapTypes, FreeAboveMin
  <1>2. CASE HeapNext
    BY <1>2, HeapStep
  <1> QED BY <1>1, <1>2 DEF Next, vars

\* No dump tells of less memory free than there ever was, however many tasks
\* dump and allocate at the same time.
THEOREM HeapSampleSound == Spec => []FreeAboveMin
  <1>1. HeapInv => FreeAboveMin
    BY DEF HeapInv
  <1> QED BY <1>1, HeapStart, HeapInvNext, PTL DEF Spec

-----------------------------------------------------------------------------
(* Wi-Fi metrics: the status that counts as told                            *)

WifiPcs == {"away", "dump", "compare", "lower", "reported", "status", "report", "sent", "init", "deinit"}

UserRec == [pc : WifiPcs, rssi : Int, val : BOOLEAN]
WifiRec == [init : BOOLEAN, wifi_connected : BOOLEAN, status_sent : BOOLEAN, min_rssi : Int,
            handle : BOOLEAN, timer : BOOLEAN]
EventRec == [id : {"connected", "disconnected", "rssi_low"}, rssi : Int]

WifiTypes ==
  /\ user \in [Users -> UserRec]
  /\ wifi \in WifiRec
  /\ signal \in Int
  /\ wifiEvents \in Seq(EventRec)

\* Unless two tasks overlapped, one at most is in this code; the status it
\* reports is the present one and does not count as told before.
OneByOne ==
  /\ \A t, u \in Users : t # u => At(t, "away") \/ At(u, "away")
  /\ wifi.status_sent => status = {wifi.wifi_connected}
  /\ \A t \in Users : At(t, "report") => ~wifi.status_sent /\ user[t].val = wifi.wifi_connected
  /\ \A t \in Users : At(t, "sent") => status = {wifi.wifi_connected}

WifiInv == WifiTypes /\ (~overlap => OneByOne)

LEMMA WifiStart == Init => WifiTypes /\ OneByOne
  <1> SUFFICES ASSUME WifiInit PROVE WifiTypes /\ OneByOne
    BY DEF Init
  <1>1. WifiTypes
    BY DEF WifiInit, WifiTypes, UserRec, WifiRec, EventRec, WifiPcs, Away, NoSignal, WifiZero
  <1>2. OneByOne
    BY DEF WifiInit, OneByOne, At, Away, WifiZero
  <1> QED BY <1>1, <1>2

LEMMA UserMoves ==
  ASSUME WifiTypes, NEW t \in Users
  PROVE  /\ \A pc \in WifiPcs : [user EXCEPT ![t].pc = pc] \in [Users -> UserRec]
         /\ \A pc \in WifiPcs, r \in Int : [user EXCEPT ![t].rssi = r, ![t].pc = pc] \in [Users -> UserRec]
         /\ \A pc \in WifiPcs, r \in Int : [user EXCEPT ![t].pc = pc, ![t].rssi = r] \in [Users -> UserRec]
         /\ \A pc \in WifiPcs, v \in BOOLEAN : [user EXCEPT ![t].pc = pc, ![t].val = v] \in [Users -> UserRec]
         /\ [user EXCEPT ![t] = Away] \in [Users -> UserRec]
         /\ user[t].rssi \in Int /\ user[t].val \in BOOLEAN
  <1> USE DEF WifiTypes
  <1>1. user[t] \in UserRec
    OBVIOUS
  <1>2. Away \in UserRec
    BY DEF UserRec, Away, NoSignal, WifiPcs
  <1>3. \A pc \in WifiPcs : [user[t] EXCEPT !.pc = pc] \in UserRec
    BY <1>1 DEF UserRec
  <1>4. \A pc \in WifiPcs, r \in Int : [user[t] EXCEPT !.rssi = r, !.pc = pc] \in UserRec
    BY <1>1 DEF UserRec
  <1>5. \A pc \in WifiPcs, r \in Int : [user[t] EXCEPT !.pc = pc, !.rssi = r] \in UserRec
    BY <1>1 DEF UserRec
  <1>6. \A pc \in WifiPcs, v \in BOOLEAN : [user[t] EXCEPT !.pc = pc, !.val = v] \in UserRec
    BY <1>1 DEF UserRec
  <1>7. user[t].rssi \in Int /\ user[t].val \in BOOLEAN
    BY <1>1 DEF UserRec
  <1>8. \A r \in UserRec : [user EXCEPT ![t] = r] \in [Users -> UserRec]
    OBVIOUS
  <1> QED BY <1>1, <1>2, <1>3, <1>4, <1>5, <1>6, <1>7, <1>8

LEMMA WifiMoves ==
  ASSUME WifiTypes
  PROVE  /\ \A r \in Int : [wifi EXCEPT !.min_rssi = r] \in WifiRec
         /\ \A b \in BOOLEAN : /\ [wifi EXCEPT !.timer = b] \in WifiRec
                               /\ [WifiZero EXCEPT !.timer = b] \in WifiRec
                               /\ [wifi EXCEPT !.wifi_connected = b, !.status_sent = FALSE] \in WifiRec
         /\ [wifi EXCEPT !.status_sent = TRUE] \in WifiRec
         /\ wifi.timer \in BOOLEAN /\ wifi.wifi_connected \in BOOLEAN
  <1> USE DEF WifiTypes, WifiRec
  <1>1. \A r \in Int : [wifi EXCEPT !.min_rssi = r] \in WifiRec
    OBVIOUS
  <1>2. \A b \in BOOLEAN : [wifi EXCEPT !.timer = b] \in WifiRec
    OBVIOUS
  <1>3. \A b \in BOOLEAN : [WifiZero EXCEPT !.timer = b] \in WifiRec
    <2>1. WifiZero \in WifiRec
      BY DEF WifiZero
    <2> QED BY <2>1
  <1>4. \A b \in BOOLEAN : [wifi EXCEPT !.wifi_connected = b, !.status_sent = FALSE] \in WifiRec
    OBVIOUS
  <1>5. [wifi EXCEPT !.status_sent = TRUE] \in WifiRec
    OBVIOUS
  <1>6. wifi.timer \in BOOLEAN /\ wifi.wifi_connected \in BOOLEAN
    OBVIOUS
  <1> QED BY <1>1, <1>2, <1>3, <1>4, <1>5, <1>6

LEMMA EventMoves ==
  ASSUME WifiTypes
  PROVE  /\ \A e \in EventRec : wifiEvents \o <<e>> \in Seq(EventRec)
         /\ wifiEvents \o <<>> \in Seq(EventRec)
         /\ wifiEvents # <<>> => Tail(wifiEvents) \in Seq(EventRec) /\ Head(wifiEvents) \in EventRec
  BY DEF WifiTypes

\* What the event handler may do: nothing, or compare the signal, or report
\* the status anew.
LEMMA HandleEventCases ==
  ASSUME HandleEvent
  PROVE  \/ UNCHANGED <<wifi, user, overlap>>
         \/ /\ user' = [user EXCEPT !["loop"].pc = "compare", !["loop"].rssi = Head(wifiEvents).rssi]
            /\ Enters("loop") /\ UNCHANGED wifi
         \/ \E connected \in BOOLEAN :
              /\ wifi' = [wifi EXCEPT !.wifi_connected = connected, !.status_sent = FALSE]
              /\ user' = [user EXCEPT !["loop"].pc = "report", !["loop"].val = connected]
              /\ Enters("loop")
  BY DEF HandleEvent, NewStatus

LEMMA WifiTypesStep == WifiTypes /\ WifiNext => WifiTypes'
  <1> SUFFICES ASSUME WifiTypes, WifiNext PROVE WifiTypes'
    OBVIOUS
  <1>0. "loop" \in Users /\ "worker" \in Users /\ "app" \in Users
    BY DEF Users
  <1> USE DEF WifiTypes
  <1>p. /\ NoSignal \in Int
        /\ \A pc \in {"dump", "compare", "lower", "reported", "status", "report", "sent", "init", "deinit"} : pc \in WifiPcs
    BY DEF NoSignal, WifiPcs
  <1>1. CASE Associate
    <2>1. [id |-> "connected", rssi |-> NoSignal] \in EventRec
      BY <1>p DEF EventRec
    <2> QED BY <1>1, <2>1, EventMoves, WifiAssumption DEF Associate, Emit, WifiAssumption
  <1>2. CASE Dissociate
    <2>1. [id |-> "disconnected", rssi |-> NoSignal] \in EventRec
      BY <1>p DEF EventRec
    <2> QED BY <1>2, <1>p, <2>1, EventMoves DEF Dissociate, Emit
  <1>3. CASE Fade
    <2>1. signal' \in Int
      BY <1>3, WifiAssumption DEF Fade, WifiAssumption
    <2>2. [id |-> "rssi_low", rssi |-> signal'] \in EventRec
      BY <2>1 DEF EventRec
    <2> QED BY <1>3, <2>1, <2>2, EventMoves DEF Fade, Emit
  <1>4. ASSUME NEW t \in Users, DumpRead(t) PROVE WifiTypes'
    <2>1. user' \in [Users -> UserRec]
      <3>1. CASE ~wifi.init
        BY <1>4, <3>1, UserMoves DEF DumpRead, Leave
      <3>2. CASE wifi.init
        <4> DEFINE pc == IF signal = NoSignal THEN "status" ELSE "compare"
        <4>1. pc \in WifiPcs
          BY <1>p
        <4>2. user' = [user EXCEPT ![t].rssi = signal, ![t].pc = pc]
          BY <1>4, <3>2 DEF DumpRead
        <4> HIDE DEF pc
        <4> QED BY <4>1, <4>2, UserMoves
      <3> QED BY <3>1, <3>2
    <2> QED BY <1>4, <2>1 DEF DumpRead, Only, wifiDriver
  <1>5. ASSUME NEW t \in Users, CompareMin(t) PROVE WifiTypes'
    BY <1>5, <1>p, UserMoves DEF CompareMin, Goto, Only, wifiDriver
  <1>6. ASSUME NEW t \in Users, LowerMin(t) PROVE WifiTypes'
    BY <1>6, <1>p, UserMoves, WifiMoves DEF LowerMin, Goto, Only, wifiDriver
  <1>7. ASSUME NEW t \in Users, ReportRssi(t) PROVE WifiTypes'
    <2>0. [user EXCEPT ![t] = Away] \in [Users -> UserRec] /\ [user EXCEPT ![t].pc = "status"] \in [Users -> UserRec]
      BY <1>p, UserMoves
    <2>1. user' = [user EXCEPT ![t] = Away] \/ user' = [user EXCEPT ![t].pc = "status"]
      BY <1>7 DEF ReportRssi, Leave, Goto
    <2>2. user' \in [Users -> UserRec]
      BY <2>0, <2>1
    <2> QED BY <1>7, <2>2 DEF ReportRssi, Only, wifiDriver
  <1>8. ASSUME NEW t \in Users, RetryStatus(t) PROVE WifiTypes'
    <2>1. CASE wifi.status_sent
      BY <1>8, <2>1, UserMoves DEF RetryStatus, Leave, Only, wifiDriver
    <2>2. CASE ~wifi.status_sent
      <3> DEFINE v == wifi.wifi_connected
      <3>1. v \in BOOLEAN
        BY WifiMoves
      <3>2. user' = [user EXCEPT ![t].pc = "report", ![t].val = v]
        BY <1>8, <2>2 DEF RetryStatus
      <3> HIDE DEF v
      <3>3. user' \in [Users -> UserRec]
        BY <3>1, <3>2, <1>p, UserMoves
      <3> QED BY <1>8, <3>3 DEF RetryStatus, Only, wifiDriver
    <2> QED BY <2>1, <2>2
  <1>9. ASSUME NEW t \in Users, ReportStatus(t) PROVE WifiTypes'
    <2>0. [user EXCEPT ![t] = Away] \in [Users -> UserRec] /\ [user EXCEPT ![t].pc = "sent"] \in [Users -> UserRec]
      BY <1>p, UserMoves
    <2>1. user' = [user EXCEPT ![t] = Away] \/ user' = [user EXCEPT ![t].pc = "sent"]
      BY <1>9 DEF ReportStatus, Leave, Goto
    <2>2. user' \in [Users -> UserRec]
      BY <2>0, <2>1
    <2> QED BY <1>9, <2>2 DEF ReportStatus, Only, wifiDriver
  <1>10. ASSUME NEW t \in Users, StatusSent(t) PROVE WifiTypes'
    BY <1>10, UserMoves, WifiMoves DEF StatusSent, Leave, Only, wifiDriver
  <1>11. CASE HandleEvent
    <2>1. wifiEvents' \in Seq(EventRec) /\ Head(wifiEvents) \in EventRec /\ signal' = signal
      BY <1>11, EventMoves DEF HandleEvent
    <2>2. CASE UNCHANGED <<wifi, user, overlap>>
      BY <2>1, <2>2
    <2>3. CASE /\ user' = [user EXCEPT !["loop"].pc = "compare", !["loop"].rssi = Head(wifiEvents).rssi]
               /\ UNCHANGED wifi
      <3>1. Head(wifiEvents).rssi \in Int
        BY <2>1 DEF EventRec
      <3>2. user' \in [Users -> UserRec]
        BY <2>3, <3>1, <1>0, <1>p, UserMoves
      <3> QED BY <2>1, <2>3, <3>2
    <2>4. ASSUME NEW connected \in BOOLEAN,
                 wifi' = [wifi EXCEPT !.wifi_connected = connected, !.status_sent = FALSE],
                 user' = [user EXCEPT !["loop"].pc = "report", !["loop"].val = connected]
          PROVE  WifiTypes'
      <3>1. user' \in [Users -> UserRec]
        BY <2>4, <1>0, <1>p, UserMoves
      <3>2. wifi' \in WifiRec
        BY <2>4, WifiMoves
      <3> QED BY <2>1, <3>1, <3>2
    <2> QED BY <1>11, <2>2, <2>3, <2>4, HandleEventCases
  <1>12. CASE Timeout
    BY <1>12, <1>0, <1>p, UserMoves DEF Timeout, Goto
  <1>13. CASE ResetInterval
    BY <1>13, WifiMoves DEF ResetInterval
  <1>14. CASE WifiInitStart
    BY <1>14, <1>0, <1>p, UserMoves DEF WifiInitStart, Goto
  <1>15. CASE WifiInitEnd
    <2>1. wifi' \in WifiRec
      <3>1. PICK handle \in BOOLEAN, timer \in BOOLEAN :
               wifi' = [wifi EXCEPT !.init = TRUE, !.min_rssi = Threshold, !.handle = handle, !.timer = timer]
        <4>1. PICK handle \in BOOLEAN, started \in BOOLEAN :
                wifi' = [wifi EXCEPT !.init = TRUE, !.min_rssi = Threshold, !.handle = handle,
                                     !.timer = wifi.timer \/ (handle /\ started)]
          BY <1>15 DEF WifiInitEnd
        <4>2. PICK timer \in BOOLEAN : timer = (wifi.timer \/ (handle /\ started))
          OBVIOUS
        <4> QED BY <4>1, <4>2
      <3>2. Threshold \in Int
        BY WifiAssumption DEF WifiAssumption
      <3> QED BY <3>1, <3>2 DEF WifiRec
    <2> QED BY <1>15, <2>1, <1>0, <1>p, UserMoves DEF WifiInitEnd, Goto, wifiDriver
  <1>16. CASE WifiDeinitStart
    <2>1. wifi' \in WifiRec
      <3>1. PICK timer \in {FALSE, wifi.timer} : wifi' = [wifi EXCEPT !.timer = timer]
        BY <1>16 DEF WifiDeinitStart
      <3>2. timer \in BOOLEAN
        BY WifiMoves
      <3> QED BY <3>1, <3>2, WifiMoves
    <2> QED BY <1>16, <2>1, <1>0, <1>p, UserMoves DEF WifiDeinitStart, Goto
  <1>17. CASE WifiDeinitEnd
    BY <1>17, <1>0, UserMoves, WifiMoves DEF WifiDeinitEnd, Leave, wifiDriver
  <1> QED BY <1>1, <1>2, <1>3, <1>4, <1>5, <1>6, <1>7, <1>8, <1>9, <1>10, <1>11, <1>12, <1>13, <1>14, <1>15, <1>16, <1>17
          DEF WifiNext, Dump

LEMMA OneByOneStep == WifiTypes /\ (~overlap => OneByOne) /\ WifiNext => (~overlap' => OneByOne')
  <1> SUFFICES ASSUME WifiTypes, ~overlap => OneByOne, WifiNext, ~overlap' PROVE OneByOne'
    OBVIOUS
  <1> USE DEF WifiTypes, UserRec, WifiRec, OneByOne, At, Goto, Leave, Only, Away, Users
  <1>1. CASE Associate
    BY <1>1 DEF Associate, Emit, Happens
  <1>2. CASE Dissociate
    BY <1>2 DEF Dissociate, Emit, Happens
  <1>3. CASE Fade
    BY <1>3 DEF Fade, Emit, Happens
  <1>4. ASSUME NEW t \in Users, DumpRead(t) PROVE OneByOne'
    BY <1>4 DEF DumpRead
  <1>5. ASSUME NEW t \in Users, CompareMin(t) PROVE OneByOne'
    BY <1>5 DEF CompareMin
  <1>6. ASSUME NEW t \in Users, LowerMin(t) PROVE OneByOne'
    BY <1>6 DEF LowerMin
  <1>7. ASSUME NEW t \in Users, ReportRssi(t) PROVE OneByOne'
    <2>1. user' = [user EXCEPT ![t] = Away] \/ user' = [user EXCEPT ![t].pc = "status"]
      BY <1>7 DEF ReportRssi
    <2>2. UNCHANGED <<wifi, status, overlap>>
      BY <1>7 DEF ReportRssi
    <2>3. CASE user' = [user EXCEPT ![t] = Away]
      BY <2>2, <2>3
    <2>4. CASE user' = [user EXCEPT ![t].pc = "status"]
      BY <2>2, <2>4, <1>7 DEF ReportRssi
    <2> QED BY <2>1, <2>3, <2>4
  <1>8. ASSUME NEW t \in Users, RetryStatus(t) PROVE OneByOne'
    BY <1>8 DEF RetryStatus
  <1>9. ASSUME NEW t \in Users, ReportStatus(t) PROVE OneByOne'
    BY <1>9 DEF ReportStatus, Accepted
  <1>10. ASSUME NEW t \in Users, StatusSent(t) PROVE OneByOne'
    BY <1>10 DEF StatusSent
  <1>11. CASE HandleEvent
    <2>1. status' = status /\ At("loop", "away")
      BY <1>11 DEF HandleEvent
    <2>2. CASE UNCHANGED <<wifi, user, overlap>>
      BY <2>1, <2>2
    <2>3. CASE /\ user' = [user EXCEPT !["loop"].pc = "compare", !["loop"].rssi = Head(wifiEvents).rssi]
               /\ Enters("loop") /\ UNCHANGED wifi
      BY <2>1, <2>3 DEF Enters
    <2>4. ASSUME NEW connected \in BOOLEAN,
                 wifi' = [wifi EXCEPT !.wifi_connected = connected, !.status_sent = FALSE],
                 user' = [user EXCEPT !["loop"].pc = "report", !["loop"].val = connected],
                 Enters("loop")
          PROVE  OneByOne'
      BY <2>1, <2>4 DEF Enters
    <2> QED BY <1>11, <2>2, <2>3, <2>4, HandleEventCases
  <1>12. CASE Timeout
    BY <1>12 DEF Timeout, Enters, Happens
  <1>13. CASE ResetInterval
    BY <1>13 DEF ResetInterval, Happens
  <1>14. CASE WifiInitStart
    BY <1>14 DEF WifiInitStart, Enters, Happens
  <1>15. CASE WifiInitEnd
    BY <1>15 DEF WifiInitEnd
  <1>16. CASE WifiDeinitStart
    BY <1>16 DEF WifiDeinitStart, Enters, Happens
  <1>17. CASE WifiDeinitEnd
    BY <1>17 DEF WifiDeinitEnd, WifiZero
  <1> QED BY <1>1, <1>2, <1>3, <1>4, <1>5, <1>6, <1>7, <1>8, <1>9, <1>10, <1>11, <1>12, <1>13, <1>14, <1>15, <1>16, <1>17
          DEF WifiNext, Dump

LEMMA WifiInvNext == WifiInv /\ [Next]_vars => WifiInv'
  <1> SUFFICES ASSUME WifiInv, [Next]_vars PROVE WifiInv'
    OBVIOUS
  <1>1. CASE UNCHANGED wifiVars
    BY <1>1 DEF wifiVars, WifiInv, WifiTypes, OneByOne, At
  <1>2. CASE WifiNext
    BY <1>2, WifiTypesStep, OneByOneStep DEF WifiInv
  <1> QED BY <1>1, <1>2 DEF Next, vars

\* A status that counts as told is the one told last, whichever of the three
\* tasks told it and whatever was refused, unless two tasks overlapped.
THEOREM StatusIsTold == Spec => []StatusTold
  <1>1. WifiInv => StatusTold
    BY DEF WifiInv, OneByOne, StatusTold
  <1>2. Init => WifiInv
    BY WifiStart DEF WifiInv
  <1> QED BY <1>1, <1>2, WifiInvNext, PTL DEF Spec

-----------------------------------------------------------------------------
(* Network variables: what is told of the link                              *)

\* The SSID is compared otherwise, and is not told of reliably.
Compared == Details \ {"ssid"}

\* An event of queue q tells of detail d; the last that does says v.
IsPending(q, d) == \E i \in 1..Len(q) : d \in DOMAIN q[i].set
LastIs(q, d, v) ==
  \A i \in 1..Len(q) :
    d \in DOMAIN q[i].set /\ (\A j \in (i+1)..Len(q) : d \notin DOMAIN q[j].set) => q[i].set[d] = v

\* What the handler remembers of d when it is done with the event in its hands.
Kept(d) == IF loop.pc = "remember" /\ d \in DOMAIN loop.set THEN loop.set[d] ELSE net.prev_sta_data[d]

NetEvents ==
  {[id |-> "connected", set |-> ap] : ap \in APs}
    \cup {[id |-> "disconnected", set |-> <<>>]}
    \cup {[id |-> "authmode", set |-> [auth |-> mode]] : mode \in AuthModes}
    \cup {[id |-> "ip", set |-> [ipv4 |-> address]] : address \in {0} \cup Addresses}

IsNet(r) ==
  r \in [init : BOOLEAN, wifi_connected : BOOLEAN, disconn_cnt : Int, prev_sta_data : {r.prev_sta_data}]
IsCaller(r) ==
  r \in [pc : {"idle", "register", "copy", "tell", "tell_ip", "clear"}, ap : {r.ap}, ip : {r.ip}]
IsLoop(r) == r \in [pc : {"idle", "remember"}, set : {r.set}]

NetTypes ==
  /\ events \in Seq(NetEvents)
  /\ DOMAIN link = Details /\ DOMAIN told = Told
  /\ IsNet(net) /\ IsCaller(caller) /\ IsLoop(loop)

InInit == caller.pc \in {"register", "copy", "tell", "tell_ip"}
Up == net.init /\ caller.pc = "idle"

\* While init runs and after it both handlers are there; unless one overtook
\* the other, the event loop is idle while init tells of the link.
HandlersInv ==
  /\ InInit => ~net.init
  /\ Up \/ InInit => handlers = {"wifi", "ip"}
  /\ ~raced /\ Telling => loop.pc = "idle"

\* The last event that tells of a detail of the link, or of the address, tells
\* of the present one.
QueueInv ==
  /\ link # NoAP => \A d \in Compared : LastIs(events, d, link[d])
  /\ LastIs(events, "ipv4", ip)

\* What init read of the link is still so, or an event tells otherwise.
ReadInv ==
  ~raced => \A d \in Compared :
    /\ caller.pc = "copy" => net.prev_sta_data[d] = NoAP[d]
    /\ caller.pc = "copy" /\ link # NoAP /\ ~IsPending(events, d) => caller.ap[d] = link[d]
    /\ caller.pc = "tell" => net.prev_sta_data[d] = caller.ap[d]

\* What the handler compares with is the present link, or an event is to come;
Known == ~raced /\ (Up \/ caller.pc \in {"tell", "tell_ip"})
KeptInv ==
  Known /\ link # NoAP => \A d \in Compared : ~IsPending(events, d) => Kept(d) = link[d]

\* and it is what was told, if anything was and no report failed.
Reported == ~raced /\ (Up \/ caller.pc = "tell_ip")
TellInv == Reported => \A d \in Compared \ lost : told[d] = Kept(d) \/ Kept(d) = NoAP[d]

IpInv ==
  ~raced /\ ~IsPending(events, "ipv4") =>
    /\ caller.pc = "tell_ip" => caller.ip = ip
    /\ Up => ip = 0 \/ "ipv4" \in lost \/ told["ipv4"] = ip

NetInv == NetTypes /\ HandlersInv /\ QueueInv /\ ReadInv /\ KeptInv /\ TellInv /\ IpInv

\* The kinds of events, and what they tell of.
LEMMA EventKinds ==
  ASSUME NEW e \in NetEvents
  PROVE  /\ e.id \in {"connected", "disconnected", "authmode", "ip"}
         /\ e.id = "connected" => DOMAIN e.set = Details
         /\ e.id = "disconnected" => \A d \in Told : d \notin DOMAIN e.set
         /\ e.id = "authmode" => DOMAIN e.set = {"auth"}
         /\ e.id = "ip" => DOMAIN e.set = {"ipv4"}
  <1>1. ASSUME NEW ap \in APs, e = [id |-> "connected", set |-> ap]
        PROVE  e.id = "connected" /\ DOMAIN e.set = Details
    BY <1>1, NetAssumption DEF NetAssumption
  <1>2. ASSUME e = [id |-> "disconnected", set |-> <<>>]
        PROVE  e.id = "disconnected" /\ \A d \in Told : d \notin DOMAIN e.set
    BY <1>2
  <1>3. ASSUME NEW mode, e = [id |-> "authmode", set |-> [auth |-> mode]]
        PROVE  e.id = "authmode" /\ DOMAIN e.set = {"auth"}
    BY <1>3
  <1>4. ASSUME NEW address, e = [id |-> "ip", set |-> [ipv4 |-> address]]
        PROVE  e.id = "ip" /\ DOMAIN e.set = {"ipv4"}
    BY <1>4
  <1>5. \/ \E ap \in APs : e = [id |-> "connected", set |-> ap]
        \/ e = [id |-> "disconnected", set |-> <<>>]
        \/ \E mode \in AuthModes : e = [id |-> "authmode", set |-> [auth |-> mode]]
        \/ \E address \in {0} \cup Addresses : e = [id |-> "ip", set |-> [ipv4 |-> address]]
    BY DEF NetEvents
  <1>6. CASE e.id = "connected" /\ DOMAIN e.set = Details
    BY <1>6
  <1>7. CASE e.id = "disconnected" /\ \A d \in Told : d \notin DOMAIN e.set
    BY <1>7
  <1>8. CASE e.id = "authmode" /\ DOMAIN e.set = {"auth"}
    BY <1>8
  <1>9. CASE e.id = "ip" /\ DOMAIN e.set = {"ipv4"}
    BY <1>9
  <1> QED BY <1>1, <1>2, <1>3, <1>4, <1>5, <1>6, <1>7, <1>8, <1>9

\* An event at the end of the queue is the last that tells of its details.
LEMMA Posted ==
  ASSUME NEW S, NEW q \in Seq(S), NEW e \in S, NEW d, NEW v
  PROVE  /\ d \in DOMAIN e.set => IsPending(Append(q, e), d)
         /\ d \in DOMAIN e.set /\ e.set[d] = v => LastIs(Append(q, e), d, v)
         /\ d \notin DOMAIN e.set /\ LastIs(q, d, v) => LastIs(Append(q, e), d, v)
         /\ IsPending(q, d) => IsPending(Append(q, e), d)
  <1>1. PICK r \in Seq(S) : r = Append(q, e)
    <2>1. Append(q, e) \in Seq(S)
      OBVIOUS
    <2> QED BY <2>1, Zenon
  <1>2. /\ Len(r) = Len(q) + 1 /\ Len(q) \in Nat /\ r[Len(q) + 1] = e
        /\ \A i \in 1..Len(q) : r[i] = q[i]
    BY <1>1
  <1>3. d \in DOMAIN e.set => IsPending(r, d)
    BY <1>2 DEF IsPending
  <1>4. ASSUME d \in DOMAIN e.set, e.set[d] = v PROVE LastIs(r, d, v)
    <2> SUFFICES ASSUME NEW i \in 1..Len(r), \A j \in (i+1)..Len(r) : d \notin DOMAIN r[j].set
                 PROVE  r[i].set[d] = v
      BY DEF LastIs
    <2>1. i = Len(q) + 1
      BY <1>2, <1>4
    <2> QED BY <1>2, <1>4, <2>1
  <1>5. ASSUME d \notin DOMAIN e.set, LastIs(q, d, v) PROVE LastIs(r, d, v)
    <2> SUFFICES ASSUME NEW i \in 1..Len(r), d \in DOMAIN r[i].set,
                        \A j \in (i+1)..Len(r) : d \notin DOMAIN r[j].set
                 PROVE  r[i].set[d] = v
      BY DEF LastIs
    <2>1. i \in 1..Len(q)
      <3>1. i # Len(q) + 1
        BY <1>2, <1>5
      <3> QED BY <1>2, <3>1
    <2>2. \A j \in (i+1)..Len(q) : d \notin DOMAIN q[j].set
      BY <1>2, <2>1
    <2>3. r[i] = q[i]
      BY <1>2, <2>1
    <2> QED BY <1>5, <2>1, <2>2, <2>3 DEF LastIs
  <1>6. IsPending(q, d) => IsPending(r, d)
    BY <1>2 DEF IsPending
  <1> QED BY <1>1, <1>3, <1>4, <1>5, <1>6

\* When the first event is taken, it is the last that tells of a detail, or
\* another does.
LEMMA Taken ==
  ASSUME NEW S, NEW q \in Seq(S), q # <<>>, NEW d, NEW v
  PROVE  /\ LastIs(q, d, v) => LastIs(Tail(q), d, v)
         /\ IsPending(q, d) /\ d \notin DOMAIN Head(q).set => IsPending(Tail(q), d)
         /\ LastIs(q, d, v) /\ d \in DOMAIN Head(q).set /\ ~IsPending(Tail(q), d) => Head(q).set[d] = v
  <1>1. PICK r \in Seq(S) : r = Tail(q)
    <2>1. Tail(q) \in Seq(S)
      OBVIOUS
    <2> QED BY <2>1, Zenon
  <1>2. /\ Len(q) = Len(r) + 1 /\ Len(r) \in Nat /\ Head(q) = q[1]
        /\ \A i \in 1..Len(r) : r[i] = q[i + 1]
    BY <1>1
  <1>3. ASSUME LastIs(q, d, v) PROVE LastIs(r, d, v)
    <2> SUFFICES ASSUME NEW i \in 1..Len(r), d \in DOMAIN r[i].set,
                        \A j \in (i+1)..Len(r) : d \notin DOMAIN r[j].set
                 PROVE  r[i].set[d] = v
      BY DEF LastIs
    <2>1. i + 1 \in 1..Len(q) /\ q[i + 1] = r[i]
      BY <1>2
    <2>2. ASSUME NEW j \in (i + 1) + 1..Len(q) PROVE d \notin DOMAIN q[j].set
      <3>1. j - 1 \in (i+1)..Len(r) /\ j - 1 \in 1..Len(r) /\ (j - 1) + 1 = j
        BY <1>2
      <3>2. r[j - 1] = q[j]
        BY <1>2, <3>1
      <3> QED BY <3>1, <3>2
    <2> QED BY <1>3, <2>1, <2>2 DEF LastIs
  <1>4. ASSUME IsPending(q, d), d \notin DOMAIN Head(q).set PROVE IsPending(r, d)
    <2>1. PICK i \in 1..Len(q) : d \in DOMAIN q[i].set
      BY <1>4 DEF IsPending
    <2>2. i # 1
      BY <1>2, <1>4, <2>1
    <2>3. i - 1 \in 1..Len(r) /\ (i - 1) + 1 = i
      BY <1>2, <2>2
    <2>4. r[i - 1] = q[i]
      BY <1>2, <2>3
    <2> QED BY <2>1, <2>3, <2>4 DEF IsPending
  <1>5. ASSUME LastIs(q, d, v), d \in DOMAIN Head(q).set, ~IsPending(r, d) PROVE Head(q).set[d] = v
    <2>1. ASSUME NEW j \in 1 + 1..Len(q) PROVE d \notin DOMAIN q[j].set
      <3>1. j - 1 \in 1..Len(r) /\ (j - 1) + 1 = j
        BY <1>2
      <3>2. r[j - 1] = q[j]
        BY <1>2, <3>1
      <3> QED BY <1>5, <3>1, <3>2 DEF IsPending
    <2>2. 1 \in 1..Len(q)
      BY <1>2
    <2> QED BY <1>2, <1>5, <2>1, <2>2 DEF LastIs
  <1> QED BY <1>1, <1>3, <1>4, <1>5

LEMMA NothingPending == ASSUME NEW d, NEW v PROVE ~IsPending(<<>>, d) /\ LastIs(<<>>, d, v)
  BY DEF IsPending, LastIs

LEMMA Counted ==
  ASSUME NEW r, IsNet(r)
  PROVE  /\ IsNet([r EXCEPT !.wifi_connected = FALSE, !.disconn_cnt = @ + 1])
         /\ [r EXCEPT !.wifi_connected = FALSE, !.disconn_cnt = @ + 1].init = r.init
         /\ [r EXCEPT !.wifi_connected = FALSE, !.disconn_cnt = @ + 1].prev_sta_data = r.prev_sta_data
  <1>1. /\ r.disconn_cnt + 1 \in Int /\ FALSE \in BOOLEAN
        /\ r \in [init : BOOLEAN, wifi_connected : BOOLEAN, disconn_cnt : Int, prev_sta_data : {r.prev_sta_data}]
    BY DEF IsNet
  <1> QED BY <1>1 DEF IsNet

\* A report of some details leaves the others; it is taken or counts as lost.
LEMMA Tells ==
  ASSUME DOMAIN told = Told, NEW details, details \subseteq Told, NEW values, Tell(details, values)
  PROVE  /\ DOMAIN told' = Told
         /\ \A d \in Told \ details : told'[d] = told[d] /\ (d \in lost' <=> d \in lost)
         /\ \A d \in details : d \in lost' \/ told'[d] = values[d]
  <1>1. PICK failed \in {{}, details} \cup {{d} : d \in details} :
          /\ told' = [d \in DOMAIN told |-> IF d \in details \ failed THEN values[d] ELSE told[d]]
          /\ lost' = (lost \ details) \cup failed
    BY DEF Tell
  <1>2. failed \subseteq details
    BY <1>1
  <1> QED BY <1>1, <1>2

LEMMA NetStart == Init => NetInv
  <1> SUFFICES ASSUME NetInit PROVE NetInv
    BY DEF Init
  <1>1. NetTypes
    <2>1. events = <<>> /\ events \in Seq(NetEvents)
      BY DEF NetInit
    <2>2. DOMAIN link = Details /\ DOMAIN told = Told
      BY DEF NetInit, NoAP, Details
    <2>3. IsNet(net)
      BY DEF NetInit, IsNet, NetZero
    <2>4. IsCaller(caller) /\ IsLoop(loop)
      BY DEF NetInit, IsCaller, IsLoop, CallerIdle, LoopIdle
    <2> QED BY <2>1, <2>2, <2>3, <2>4 DEF NetTypes
  <1>2. ~net.init /\ caller.pc = "idle" /\ events = <<>> /\ link = NoAP
    BY DEF NetInit, NetZero, CallerIdle
  <1>3. LastIs(events, "ipv4", ip)
    BY <1>2, NothingPending
  <1> QED BY <1>1, <1>2, <1>3 DEF NetInv, HandlersInv, QueueInv, ReadInv, KeptInv, TellInv, IpInv,
            InInit, Up, Known, Reported, Telling

\* What happens outside this code: an event is put into the queue that tells
\* of all that changed.
LEMMA DriverStep ==
  ASSUME NetInv, NEW e \in NetEvents, Post(e), DOMAIN link' = Details,
         \A d \in DOMAIN e.set : d \in Compared => e.set[d] = link'[d],
         link' # NoAP => \A d \in Compared \ DOMAIN e.set : link # NoAP /\ link'[d] = link[d],
         IF "ipv4" \in DOMAIN e.set THEN e.set["ipv4"] = ip' ELSE ip' = ip
  PROVE  NetInv'
  <1>1. /\ events' = Append(events, e) /\ events \in Seq(NetEvents)
        /\ UNCHANGED <<net, handlers, registered, loop, caller, told, lost, raced>>
    BY DEF Post, NetInv, NetTypes
  <1>2. ASSUME NEW d, NEW v
        PROVE  /\ d \in DOMAIN e.set => IsPending(events', d)
               /\ d \in DOMAIN e.set /\ e.set[d] = v => LastIs(events', d, v)
               /\ d \notin DOMAIN e.set /\ LastIs(events, d, v) => LastIs(events', d, v)
               /\ IsPending(events, d) => IsPending(events', d)
    BY <1>1, Posted, Zenon
  <1>3. NetTypes'
    <2>1. events' \in Seq(NetEvents)
      BY <1>1
    <2> QED BY <1>1, <2>1 DEF NetInv, NetTypes
  <1>4. HandlersInv'
    BY <1>1 DEF NetInv, HandlersInv, InInit, Up, Telling
  <1>5. ASSUME link' # NoAP, NEW d \in Compared PROVE LastIs(events', d, link'[d])
    <2>1. CASE d \in DOMAIN e.set
      BY <1>2, <2>1
    <2>2. CASE d \notin DOMAIN e.set
      <3>1. LastIs(events, d, link[d]) /\ link'[d] = link[d]
        BY <1>5, <2>2 DEF NetInv, QueueInv
      <3> QED BY <1>2, <2>2, <3>1
    <2> QED BY <2>1, <2>2
  <1>6. LastIs(events', "ipv4", ip')
    BY <1>2 DEF NetInv, QueueInv
  <1>7. QueueInv'
    BY <1>5, <1>6 DEF QueueInv
  <1>8. ASSUME NEW d \in Compared, ~IsPending(events', d), link' # NoAP
        PROVE  ~IsPending(events, d) /\ link # NoAP /\ link'[d] = link[d]
    BY <1>2, <1>8
  <1>9. ReadInv'
    BY <1>1, <1>8 DEF NetInv, ReadInv
  <1>10. KeptInv'
    <2>1. \A d : Kept(d)' = Kept(d)
      BY <1>1 DEF Kept
    <2>2. Known' = Known
      BY <1>1 DEF Known, Up
    <2> QED BY <1>8, <2>1, <2>2 DEF NetInv, KeptInv
  <1>11. TellInv'
    BY <1>1 DEF NetInv, TellInv, Reported, Up, Kept
  <1>12. IpInv'
    <2>1. ~IsPending(events', "ipv4") => ~IsPending(events, "ipv4") /\ ip' = ip
      BY <1>2
    <2> QED BY <1>1, <2>1 DEF NetInv, IpInv, Up
  <1> QED BY <1>3, <1>4, <1>7, <1>9, <1>10, <1>11, <1>12 DEF NetInv

LEMMA DriverMoves ==
  ASSUME NetInv, \/ \E ap \in APs : Connect(ap)
                 \/ Disconnect
                 \/ \E mode \in AuthModes : ChangeAuth(mode)
                 \/ \E address \in {0} \cup Addresses : ChangeIp(address)
  PROVE  NetInv'
  <1>0. DOMAIN link = Details /\ Compared \subseteq Details /\ "ipv4" \notin Details
        /\ "auth" \in Details
    BY DEF NetInv, NetTypes, Compared, Details
  <1>1. ASSUME NEW ap \in APs, Connect(ap) PROVE NetInv'
    <2>1. PICK e \in NetEvents : e = [id |-> "connected", set |-> ap]
      BY DEF NetEvents
    <2>2. DOMAIN ap = Details /\ e.set = ap
      BY <2>1, NetAssumption DEF NetAssumption
    <2>3. Post(e) /\ link' = ap /\ ip' = ip
      BY <1>1, <2>1 DEF Connect
    <2> QED BY <1>0, <2>2, <2>3, DriverStep
  <1>2. CASE Disconnect
    <2>1. PICK e \in NetEvents : e = [id |-> "disconnected", set |-> <<>>]
      BY DEF NetEvents
    <2>2. \A d \in Told : d \notin DOMAIN e.set
      BY <2>1, EventKinds
    <2>3. Post(e) /\ link' = NoAP /\ ip' = ip
      BY <1>2, <2>1 DEF Disconnect
    <2>4. DOMAIN link' = Details
      BY <2>3 DEF NoAP, Details
    <2>5. \A d \in Compared : d \in Told
      BY DEF Compared, Told
    <2>6. "ipv4" \notin DOMAIN e.set
      BY <2>2 DEF Told
    <2> QED BY <2>2, <2>3, <2>4, <2>5, <2>6, DriverStep
  <1>3. ASSUME NEW mode \in AuthModes, ChangeAuth(mode) PROVE NetInv'
    <2>1. PICK e \in NetEvents : e = [id |-> "authmode", set |-> [auth |-> mode]]
      BY DEF NetEvents
    <2>2. DOMAIN e.set = {"auth"} /\ e.set["auth"] = mode
      BY <2>1
    <2>3. Post(e) /\ link # NoAP /\ link' = [link EXCEPT !.auth = mode] /\ ip' = ip
      BY <1>3, <2>1 DEF ChangeAuth
    <2>4. DOMAIN link' = Details
      BY <1>0, <2>3
    <2>5. link'["auth"] = mode
      BY <1>0, <2>3
    <2>6. \A d \in Details : d # "auth" => link'[d] = link[d]
      BY <1>0, <2>3
    <2> QED BY <1>0, <2>2, <2>3, <2>4, <2>5, <2>6, DriverStep
  <1>4. ASSUME NEW address \in {0} \cup Addresses, ChangeIp(address) PROVE NetInv'
    <2>1. PICK e \in NetEvents : e = [id |-> "ip", set |-> [ipv4 |-> address]]
      BY DEF NetEvents
    <2>2. DOMAIN e.set = {"ipv4"} /\ e.set["ipv4"] = address
      BY <2>1
    <2>3. Post(e) /\ link' = link /\ ip' = address
      BY <1>4, <2>1 DEF ChangeIp
    <2>4. \A d \in Compared : d # "ipv4"
      BY <1>0
    <2>5. link' # NoAP => link # NoAP
      BY <2>3
    <2> QED BY <1>0, <2>2, <2>3, <2>4, <2>5, DriverStep
  <1> QED BY <1>1, <1>2, <1>3, <1>4

\* evt_handler, with an event that leaves the queue: what it tells of each
\* detail is remembered at once or in the next step.
LEMMA HandleCases ==
  ASSUME NetTypes, NEW e \in NetEvents, Handle(e), loop.pc = "idle"
  PROVE  /\ NetTypes' \/ events' \notin Seq(NetEvents) \/ DOMAIN link' # Details \/ ~IsCaller(caller')
         /\ net'.init = net.init /\ net'.prev_sta_data = net.prev_sta_data
         /\ \A d \in Compared \ DOMAIN e.set :
              Kept(d)' = Kept(d) /\ told'[d] = told[d] /\ (d \in lost' <=> d \in lost)
         /\ \A d \in Compared \cap DOMAIN e.set :
              /\ Kept(d)' = e.set[d]
              /\ \/ d \in lost' \/ told'[d] = e.set[d]
                 \/ Kept(d) = e.set[d] /\ told'[d] = told[d] /\ (d \in lost' <=> d \in lost)
         /\ IF "ipv4" \in DOMAIN e.set THEN "ipv4" \in lost' \/ told'["ipv4"] = e.set["ipv4"]
            ELSE told'["ipv4"] = told["ipv4"] /\ ("ipv4" \in lost' <=> "ipv4" \in lost)
  <1>0. /\ DOMAIN told = Told /\ IsNet(net) /\ Compared \subseteq Told /\ "ipv4" \in Told /\ "ipv4" \notin Details
        /\ "ssid" \notin Compared /\ Compared \subseteq Details /\ "disconn_cnt" \in Told
        /\ "disconn_cnt" \notin Compared \cup {"ipv4"} /\ "auth" \in Compared /\ "ipv4" \notin Compared
        /\ Details \subseteq Told
    BY DEF NetTypes, Compared, Told, Details
  <1>k. \A d : Kept(d) = net.prev_sta_data[d]
    BY DEF Kept
  <1>r. \A d : loop'.pc = "remember" /\ loop'.set = e.set /\ net'.prev_sta_data = net.prev_sta_data
               => Kept(d)' = IF d \in DOMAIN e.set THEN e.set[d] ELSE net.prev_sta_data[d]
    BY DEF Kept
  <1>i. \A d : loop' = loop /\ net'.prev_sta_data = net.prev_sta_data => Kept(d)' = Kept(d)
    BY DEF Kept
  <1>1. CASE e.id = "connected"
    <2>1. /\ net' = [net EXCEPT !.wifi_connected = TRUE]
          /\ Tell(Changed(net.prev_sta_data, e.set), e.set)
          /\ loop' = [pc |-> "remember", set |-> e.set]
      BY <1>1 DEF Handle
    <2>2. IsNet(net') /\ net'.init = net.init /\ net'.prev_sta_data = net.prev_sta_data
      BY <1>0, <2>1 DEF IsNet
    <2>3. IsLoop(loop') /\ loop'.pc = "remember" /\ loop'.set = e.set
      BY <2>1 DEF IsLoop
    <2>4. DOMAIN e.set = Details
      BY <1>1, EventKinds
    <2>5. PICK changed : changed = Changed(net.prev_sta_data, e.set)
      OBVIOUS
    <2>6. changed \subseteq Details /\ \A d \in Compared : d \in changed <=> net.prev_sta_data[d] # e.set[d]
      BY <1>0, <2>4, <2>5 DEF Changed
    <2>7. /\ DOMAIN told' = Told
          /\ \A d \in Told \ changed : told'[d] = told[d] /\ (d \in lost' <=> d \in lost)
          /\ \A d \in changed : d \in lost' \/ told'[d] = e.set[d]
      BY <1>0, <2>1, <2>5, <2>6, Tells
    <2>8. NetTypes' \/ events' \notin Seq(NetEvents) \/ DOMAIN link' # Details \/ ~IsCaller(caller')
      BY <2>2, <2>3, <2>7 DEF NetTypes
    <2> QED BY <1>0, <1>k, <1>r, <2>2, <2>3, <2>4, <2>6, <2>7, <2>8
  <1>2. CASE e.id = "authmode"
    <2>1. Tell({"auth"}, e.set) /\ loop' = [pc |-> "remember", set |-> e.set] /\ net' = net
      BY <1>2 DEF Handle
    <2>2. IsLoop(loop') /\ loop'.pc = "remember" /\ loop'.set = e.set
      BY <2>1 DEF IsLoop
    <2>3. DOMAIN e.set = {"auth"}
      BY <1>2, EventKinds
    <2>4. /\ DOMAIN told' = Told
          /\ \A d \in Told \ {"auth"} : told'[d] = told[d] /\ (d \in lost' <=> d \in lost)
          /\ \A d \in {"auth"} : d \in lost' \/ told'[d] = e.set[d]
      BY <1>0, <2>1, Tells
    <2>5. NetTypes' \/ events' \notin Seq(NetEvents) \/ DOMAIN link' # Details \/ ~IsCaller(caller')
      BY <1>0, <2>1, <2>2, <2>4 DEF NetTypes
    <2> QED BY <1>0, <1>k, <1>r, <2>1, <2>2, <2>3, <2>4, <2>5
  <1>3. CASE e.id = "ip"
    <2>1. Tell({"ipv4"}, e.set) /\ UNCHANGED <<net, loop>>
      BY <1>3 DEF Handle
    <2>2. DOMAIN e.set = {"ipv4"}
      BY <1>3, EventKinds
    <2>3. /\ DOMAIN told' = Told
          /\ \A d \in Told \ {"ipv4"} : told'[d] = told[d] /\ (d \in lost' <=> d \in lost)
          /\ \A d \in {"ipv4"} : d \in lost' \/ told'[d] = e.set[d]
      BY <1>0, <2>1, Tells
    <2>4. NetTypes' \/ events' \notin Seq(NetEvents) \/ DOMAIN link' # Details \/ ~IsCaller(caller')
      BY <2>1, <2>3 DEF NetTypes
    <2> QED BY <1>0, <1>i, <2>1, <2>2, <2>3, <2>4
  <1>4. CASE e.id = "disconnected"
    <2>1. \A d \in Told : d \notin DOMAIN e.set
      BY <1>4, EventKinds
    <2>2. CASE net.wifi_connected
      <3>1. /\ net' = [net EXCEPT !.wifi_connected = FALSE, !.disconn_cnt = @ + 1]
            /\ Tell({"disconn_cnt"}, net') /\ loop' = loop
        BY <1>4, <2>2 DEF Handle
      <3>2. IsNet(net') /\ net'.init = net.init /\ net'.prev_sta_data = net.prev_sta_data
        <4>1. PICK n : n = net
          OBVIOUS
        <4>2. IsNet(n) /\ net' = [n EXCEPT !.wifi_connected = FALSE, !.disconn_cnt = @ + 1]
          BY <1>0, <3>1, <4>1
        <4> QED BY <4>1, <4>2, Counted
      <3>3. PICK values : values = net'
        OBVIOUS
      <3>4. /\ DOMAIN told' = Told
            /\ \A d \in Told \ {"disconn_cnt"} : told'[d] = told[d] /\ (d \in lost' <=> d \in lost)
        BY <1>0, <3>1, <3>3, Tells
      <3>5. NetTypes' \/ events' \notin Seq(NetEvents) \/ DOMAIN link' # Details \/ ~IsCaller(caller')
        BY <3>1, <3>2, <3>4 DEF NetTypes
      <3> QED BY <1>0, <1>i, <2>1, <3>1, <3>2, <3>4, <3>5
    <2>3. CASE ~net.wifi_connected
      <3>1. UNCHANGED <<net, told, lost, loop>>
        BY <1>4, <2>3 DEF Handle
      <3>2. NetTypes' \/ events' \notin Seq(NetEvents) \/ DOMAIN link' # Details \/ ~IsCaller(caller')
        BY <3>1 DEF NetTypes
      <3> QED BY <1>0, <1>i, <2>1, <3>1, <3>2
    <2> QED BY <2>2, <2>3
  <1> QED BY <1>1, <1>2, <1>3, <1>4, EventKinds

LEMMA DispatchKeeps ==
  ASSUME NetInv, Dispatch
  PROVE  NetInv'
  <1>1. PICK e \in NetEvents : e = Head(events)
    BY DEF NetInv, NetTypes, Dispatch
  <1>2. /\ loop.pc = "idle" /\ events # <<>> /\ events' = Tail(events)
        /\ UNCHANGED <<link, ip, handlers, caller>>
        /\ IF Handled THEN Handle(e) ELSE UNCHANGED <<net, told, lost, loop>>
        /\ raced' = (raced \/ (Handled /\ Telling))
    BY <1>1 DEF Dispatch
  <1>3. ASSUME NEW d, NEW v
        PROVE  /\ LastIs(events, d, v) => LastIs(events', d, v)
               /\ IsPending(events, d) /\ d \notin DOMAIN e.set => IsPending(events', d)
               /\ LastIs(events, d, v) /\ d \in DOMAIN e.set /\ ~IsPending(events', d) => e.set[d] = v
    <2>1. PICK q \in Seq(NetEvents) : q = events /\ q # <<>> /\ events' = Tail(q) /\ e = Head(q)
      BY <1>1, <1>2 DEF NetInv, NetTypes
    <2>2. /\ LastIs(q, d, v) => LastIs(Tail(q), d, v)
          /\ IsPending(q, d) /\ d \notin DOMAIN Head(q).set => IsPending(Tail(q), d)
          /\ LastIs(q, d, v) /\ d \in DOMAIN Head(q).set /\ ~IsPending(Tail(q), d) => Head(q).set[d] = v
      BY <2>1, Taken, Zenon
    <2> QED BY <2>1, <2>2, Zenon
  <1>4. events' \in Seq(NetEvents)
    BY <1>2 DEF NetInv, NetTypes
  <1>5. QueueInv'
    BY <1>2, <1>3 DEF NetInv, QueueInv
  <1>6. CASE ~Handled
    <2>1. UNCHANGED <<net, told, lost, loop>> /\ (raced' <=> raced)
      BY <1>2, <1>6, Zenon
    <2>2. NetTypes'
      BY <1>2, <1>4, <2>1 DEF NetInv, NetTypes
    <2>3. HandlersInv'
      BY <1>2, <2>1 DEF NetInv, HandlersInv, InInit, Up, Telling
    <2>4. handlers # {"wifi", "ip"}
      BY <1>6 DEF Handled
    <2>5. ~Up /\ ~InInit
      BY <2>4 DEF NetInv, HandlersInv
    <2>6. caller.pc \notin {"copy", "tell", "tell_ip"} /\ ~Known' /\ ~Reported' /\ ~Up'
      BY <1>2, <2>1, <2>5 DEF InInit, Up, Known, Reported
    <2> QED BY <1>2, <1>5, <2>2, <2>3, <2>6 DEF NetInv, ReadInv, KeptInv, TellInv, IpInv
  <1>7. CASE Handled
    <2>0. Handle(e) /\ loop.pc = "idle" /\ NetTypes
      BY <1>2, <1>7 DEF NetInv
    <2>1. /\ NetTypes' \/ events' \notin Seq(NetEvents) \/ DOMAIN link' # Details \/ ~IsCaller(caller')
          /\ net'.init = net.init /\ net'.prev_sta_data = net.prev_sta_data
          /\ \A d \in Compared \ DOMAIN e.set :
               Kept(d)' = Kept(d) /\ told'[d] = told[d] /\ (d \in lost' <=> d \in lost)
          /\ \A d \in Compared \cap DOMAIN e.set :
               /\ Kept(d)' = e.set[d]
               /\ \/ d \in lost' \/ told'[d] = e.set[d]
                  \/ Kept(d) = e.set[d] /\ told'[d] = told[d] /\ (d \in lost' <=> d \in lost)
          /\ IF "ipv4" \in DOMAIN e.set THEN "ipv4" \in lost' \/ told'["ipv4"] = e.set["ipv4"]
             ELSE told'["ipv4"] = told["ipv4"] /\ ("ipv4" \in lost' <=> "ipv4" \in lost)
      BY <2>0, HandleCases
    <2>2. NetTypes'
      <3>1. DOMAIN link' = Details /\ IsCaller(caller')
        BY <1>2 DEF NetInv, NetTypes
      <3> QED BY <1>4, <2>1, <3>1
    <2>3. raced' <=> raced \/ Telling
      BY <1>2, <1>7
    <2>4. HandlersInv'
      BY <1>2, <2>1, <2>3 DEF NetInv, HandlersInv, InInit, Up, Telling
    <2>5. ~raced' => ~raced /\ caller.pc \notin {"copy", "tell", "tell_ip"}
      BY <2>3 DEF Telling
    <2>6. ReadInv'
      BY <1>2, <2>5 DEF ReadInv
    <2>7. Up' = Up
      BY <1>2, <2>1 DEF Up
    <2>8. KeptInv'
      <3> SUFFICES ASSUME Known', link' # NoAP, NEW d \in Compared, ~IsPending(events', d) PROVE Kept(d)' = link'[d]
        BY DEF KeptInv
      <3>1. Known /\ link # NoAP /\ link' = link
        BY <1>2, <2>5, <2>7 DEF Known
      <3>2. CASE d \in DOMAIN e.set
        <4>1. LastIs(events, d, link[d])
          BY <3>1 DEF NetInv, QueueInv
        <4>2. e.set[d] = link[d]
          BY <1>3, <3>2, <4>1
        <4> QED BY <2>1, <3>1, <3>2, <4>2
      <3>3. CASE d \notin DOMAIN e.set
        <4>1. ~IsPending(events, d)
          BY <1>3, <3>3
        <4>2. Kept(d) = link[d]
          BY <3>1, <4>1 DEF NetInv, KeptInv
        <4> QED BY <2>1, <3>1, <3>3, <4>2
      <3> QED BY <3>2, <3>3
    <2>9. TellInv'
      <3> SUFFICES ASSUME Reported', NEW d \in Compared, d \notin lost'
                   PROVE  told'[d] = Kept(d)' \/ Kept(d)' = NoAP[d]
        BY DEF TellInv
      <3>1. d \notin lost => told[d] = Kept(d) \/ Kept(d) = NoAP[d]
        BY <1>2, <2>5, <2>7 DEF NetInv, TellInv, Reported
      <3>2. CASE d \in DOMAIN e.set
        BY <2>1, <3>1, <3>2
      <3>3. CASE d \notin DOMAIN e.set
        BY <2>1, <3>1, <3>3
      <3> QED BY <3>2, <3>3
    <2>10. IpInv'
      <3> SUFFICES ASSUME ~raced', ~IsPending(events', "ipv4"), Up'
                   PROVE  ip' = 0 \/ "ipv4" \in lost' \/ told'["ipv4"] = ip'
        BY <1>2, <2>5 DEF IpInv
      <3>1. ~raced /\ Up /\ ip' = ip
        BY <1>2, <2>5, <2>7
      <3>2. CASE "ipv4" \in DOMAIN e.set
        <4>1. LastIs(events, "ipv4", ip)
          BY DEF NetInv, QueueInv
        <4>2. e.set["ipv4"] = ip
          BY <1>3, <3>2, <4>1
        <4> QED BY <2>1, <3>1, <3>2, <4>2
      <3>3. CASE "ipv4" \notin DOMAIN e.set
        <4>1. ~IsPending(events, "ipv4")
          BY <1>3, <3>3
        <4>2. ip = 0 \/ "ipv4" \in lost \/ told["ipv4"] = ip
          BY <3>1, <4>1 DEF NetInv, IpInv
        <4> QED BY <2>1, <3>1, <3>3, <4>2
      <3> QED BY <3>2, <3>3
    <2> QED BY <1>5, <2>2, <2>4, <2>6, <2>8, <2>9, <2>10 DEF NetInv
  <1> QED BY <1>6, <1>7

LEMMA RememberKeeps ==
  ASSUME NetInv, Remember
  PROVE  NetInv'
  <1>1. /\ loop.pc = "remember" /\ loop' = LoopIdle /\ UNCHANGED <<link, ip, events, handlers, caller, told, lost>>
        /\ raced' = (raced \/ Telling)
    BY DEF Remember, netDriver
  <1>2. PICK prev : prev = [d \in Details |-> IF d \in DOMAIN loop.set THEN loop.set[d] ELSE net.prev_sta_data[d]]
    OBVIOUS
  <1>3. net' = [net EXCEPT !.prev_sta_data = prev]
    BY <1>2 DEF Remember
  <1>4. IsNet(net') /\ net'.init = net.init /\ net'.prev_sta_data = prev
    BY <1>3 DEF NetInv, NetTypes, IsNet
  <1>5. loop'.pc = "idle" /\ IsLoop(loop')
    BY <1>1 DEF LoopIdle, IsLoop
  <1>6. \A d \in Compared : Kept(d)' = Kept(d)
    <2>1. \A d \in Details : prev[d] = IF d \in DOMAIN loop.set THEN loop.set[d] ELSE net.prev_sta_data[d]
      BY <1>2
    <2>2. Compared \subseteq Details
      BY DEF Compared
    <2>3. \A d : Kept(d)' = prev[d]
      BY <1>4, <1>5 DEF Kept
    <2> QED BY <1>1, <2>1, <2>2, <2>3 DEF Kept
  <1>7. NetTypes'
    BY <1>1, <1>4, <1>5 DEF NetInv, NetTypes
  <1>8. HandlersInv'
    BY <1>1, <1>4, <1>5 DEF NetInv, HandlersInv, InInit, Up, Telling
  <1>9. ~raced' => ~raced /\ caller.pc \notin {"copy", "tell", "tell_ip"}
    BY <1>1 DEF Telling
  <1>10. Up' = Up /\ (Known' => Known) /\ (Reported' => Reported)
    BY <1>1, <1>4, <1>9 DEF Up, Known, Reported
  <1>11. QueueInv' /\ ReadInv'
    BY <1>1, <1>9 DEF NetInv, QueueInv, ReadInv
  <1>12. KeptInv'
    BY <1>1, <1>6, <1>10 DEF NetInv, KeptInv
  <1>13. TellInv'
    BY <1>1, <1>6, <1>10 DEF NetInv, TellInv
  <1>14. IpInv'
    BY <1>1, <1>9, <1>10 DEF NetInv, IpInv
  <1> QED BY <1>7, <1>8, <1>11, <1>12, <1>13, <1>14 DEF NetInv

\* The steps of init and deinit.
LEMMA CallerMoves ==
  ASSUME NetInv, \/ NetInitStart \/ NetInitRead \/ NetInitCopy \/ NetInitTell \/ NetInitTellIp
                 \/ NetDeinitStart \/ NetDeinitEnd
  PROVE  NetInv'
  <1>0. /\ IsCaller(caller) /\ IsNet(net) /\ IsLoop(loop) /\ events \in Seq(NetEvents)
        /\ DOMAIN link = Details /\ DOMAIN told = Told
    BY DEF NetInv, NetTypes
  <1>p. \A r \in [pc : {"idle", "register", "copy", "tell", "tell_ip", "clear"}, ap : {caller.ap}, ip : {caller.ip}] :
          IsCaller(r)
    BY DEF IsCaller
  <1>d. /\ Compared \subseteq Details /\ Compared \subseteq Told /\ Details \subseteq Told
        /\ "disconn_cnt" \notin Compared /\ "ipv4" \notin Compared /\ {"disconn_cnt", "ipv4"} \subseteq Told
    BY DEF Compared, Details, Told
  \* Where neither the handler's memory nor what was told is relied upon.
  <1>n. ASSUME NetTypes', HandlersInv', UNCHANGED <<link, ip, events>>,
               caller'.pc \notin {"copy", "tell", "tell_ip"}, ~Up'
        PROVE  NetInv'
    BY <1>n DEF NetInv, QueueInv, ReadInv, KeptInv, TellInv, IpInv, Known, Reported
  <1>1. CASE NetInitStart
    <2>1. UNCHANGED <<link, ip, events, net, loop, told, lost, raced>> /\ ~net.init /\ caller.pc = "idle"
      BY <1>1 DEF NetInitStart, netDriver
    <2>2. IsCaller(caller') /\ \/ caller'.pc = "register" /\ handlers' = {"wifi", "ip"}
                               \/ caller' = caller
      BY <1>0, <1>1 DEF NetInitStart, IsCaller
    <2>3. NetTypes'
      BY <1>0, <2>1, <2>2 DEF NetTypes
    <2>4. HandlersInv'
      BY <2>1, <2>2 DEF HandlersInv, InInit, Up, Telling
    <2> QED BY <1>n, <2>1, <2>2, <2>3, <2>4 DEF Up
  <1>2. CASE NetInitRead
    <2>1. /\ UNCHANGED <<link, ip, events, handlers, loop, told, lost>> /\ caller.pc = "register"
          /\ net' = [net EXCEPT !.prev_sta_data = NoAP]
          /\ caller' = [caller EXCEPT !.pc = "copy", !.ap = link]
          /\ raced' = (raced \/ loop.pc # "idle")
      BY <1>2 DEF NetInitRead, netDriver
    <2>2. IsNet(net') /\ net'.init = net.init /\ net'.prev_sta_data = NoAP
      BY <1>0, <2>1 DEF IsNet
    <2>3. IsCaller(caller') /\ caller'.pc = "copy" /\ caller'.ap = link
      BY <1>0, <2>1 DEF IsCaller
    <2>4. NetTypes'
      BY <1>0, <2>1, <2>2, <2>3 DEF NetTypes
    <2>5. HandlersInv'
      BY <2>1, <2>2, <2>3 DEF NetInv, HandlersInv, InInit, Up, Telling
    <2>6. QueueInv' /\ ReadInv'
      BY <2>1, <2>2, <2>3 DEF NetInv, QueueInv, ReadInv
    <2>7. ~Known' /\ ~Reported' /\ ~Up' /\ caller'.pc # "tell_ip"
      BY <2>3 DEF Known, Reported, Up
    <2> QED BY <2>4, <2>5, <2>6, <2>7 DEF NetInv, KeptInv, TellInv, IpInv
  <1>3. CASE NetInitCopy
    <2>1. /\ UNCHANGED <<link, ip, events, handlers, loop, told, lost, raced>> /\ caller.pc = "copy"
          /\ net' = IF caller.ap = NoAP THEN net
                    ELSE [net EXCEPT !.prev_sta_data = caller.ap, !.wifi_connected = TRUE]
          /\ caller' = [caller EXCEPT !.pc = "tell"]
      BY <1>3 DEF NetInitCopy, netDriver
    <2>2. IsNet(net') /\ net'.init = net.init /\ (caller.ap # NoAP => net'.prev_sta_data = caller.ap)
      BY <1>0, <2>1 DEF IsNet
    <2>3. IsCaller(caller') /\ caller'.pc = "tell" /\ caller'.ap = caller.ap
      BY <1>0, <2>1 DEF IsCaller
    <2>4. NetTypes'
      BY <1>0, <2>1, <2>2, <2>3 DEF NetTypes
    <2>5. HandlersInv'
      BY <2>1, <2>2, <2>3 DEF NetInv, HandlersInv, InInit, Up, Telling
    <2>6. ~raced => \A d \in Compared : net'.prev_sta_data[d] = caller.ap[d]
      BY <2>1, <2>2 DEF NetInv, ReadInv
    <2>7. QueueInv' /\ ReadInv'
      BY <2>1, <2>3, <2>6 DEF NetInv, QueueInv, ReadInv
    <2>8. ~raced => loop.pc = "idle"
      BY <2>1 DEF NetInv, HandlersInv, Telling
    <2>9. KeptInv'
      <3> SUFFICES ASSUME ~raced, link # NoAP, NEW d \in Compared, ~IsPending(events, d) PROVE Kept(d)' = link[d]
        BY <2>1 DEF KeptInv, Known
      <3>1. Kept(d)' = net'.prev_sta_data[d]
        BY <2>1, <2>8 DEF Kept
      <3>2. caller.ap[d] = link[d]
        BY <2>1 DEF NetInv, ReadInv
      <3> QED BY <2>6, <3>1, <3>2
    <2>10. ~Reported' /\ ~Up' /\ caller'.pc # "tell_ip"
      BY <2>3 DEF Reported, Up
    <2> QED BY <2>4, <2>5, <2>7, <2>9, <2>10 DEF NetInv, TellInv, IpInv
  <1>4. CASE NetInitTell
    <2>1. /\ UNCHANGED <<link, ip, events, net, handlers, loop, raced>> /\ caller.pc = "tell"
          /\ Tell(IF caller.ap = NoAP THEN {} ELSE Details, caller.ap)
          /\ caller' = [caller EXCEPT !.pc = "tell_ip", !.ip = ip]
      BY <1>4 DEF NetInitTell, netDriver
    <2>2. IsCaller(caller') /\ caller'.pc = "tell_ip" /\ caller'.ip = ip
      BY <1>0, <2>1 DEF IsCaller
    <2>3. PICK details : details = IF caller.ap = NoAP THEN {} ELSE Details
      OBVIOUS
    <2>4. PICK ap : ap = caller.ap
      OBVIOUS
    <2>5. details \subseteq Told /\ Tell(details, ap)
      BY <1>d, <2>1, <2>3, <2>4
    <2>6. /\ DOMAIN told' = Told
          /\ \A d \in Told \ details : told'[d] = told[d] /\ (d \in lost' <=> d \in lost)
          /\ \A d \in details : d \in lost' \/ told'[d] = ap[d]
      BY <1>0, <2>5, Tells
    <2>7. NetTypes'
      BY <1>0, <2>1, <2>2, <2>6 DEF NetTypes
    <2>8. HandlersInv'
      BY <2>1, <2>2 DEF NetInv, HandlersInv, InInit, Up, Telling
    <2>9. QueueInv' /\ ReadInv'
      BY <2>1, <2>2 DEF NetInv, QueueInv, ReadInv
    <2>10. \A d : Kept(d)' = Kept(d)
      BY <2>1 DEF Kept
    <2>11. KeptInv'
      BY <2>1, <2>10 DEF NetInv, KeptInv, Known
    <2>12. TellInv'
      <3> SUFFICES ASSUME ~raced, NEW d \in Compared, d \notin lost'
                   PROVE  told'[d] = Kept(d) \/ Kept(d) = NoAP[d]
        BY <2>1, <2>10 DEF TellInv, Reported
      <3>1. Kept(d) = ap[d]
        BY <2>1, <2>4 DEF NetInv, HandlersInv, ReadInv, Telling, Kept
      <3>2. CASE ap = NoAP
        BY <3>1, <3>2
      <3>3. CASE ap # NoAP
        BY <1>d, <2>3, <2>4, <2>6, <3>1, <3>3
      <3> QED BY <3>2, <3>3
    <2>13. IpInv'
      BY <2>1, <2>2 DEF IpInv, Up
    <2> QED BY <2>7, <2>8, <2>9, <2>11, <2>12, <2>13 DEF NetInv
  <1>5. CASE NetInitTellIp
    <2>1. /\ UNCHANGED <<link, ip, events, handlers, loop, raced>> /\ caller.pc = "tell_ip"
          /\ \E address \in IF caller.ip = 0 THEN {{}, {"ipv4"}} ELSE {{"ipv4"}} :
               Tell({"disconn_cnt"} \cup address, [disconn_cnt |-> net.disconn_cnt, ipv4 |-> caller.ip])
          /\ net' = [net EXCEPT !.init = TRUE]
          /\ caller' = CallerIdle
      BY <1>5 DEF NetInitTellIp, netDriver
    <2>2. IsNet(net') /\ net'.init /\ net'.prev_sta_data = net.prev_sta_data
      BY <1>0, <2>1 DEF IsNet
    <2>3. IsCaller(caller') /\ caller'.pc = "idle"
      BY <2>1 DEF CallerIdle, IsCaller
    <2>4. PICK values : values = [disconn_cnt |-> net.disconn_cnt, ipv4 |-> caller.ip]
      OBVIOUS
    <2>5. values["ipv4"] = caller.ip
      BY <2>4
    <2>a. PICK address \in {{}, {"ipv4"}} :
            /\ caller.ip # 0 => address = {"ipv4"}
            /\ Tell({"disconn_cnt"} \cup address, values)
      BY <2>1, <2>4
    <2>6. PICK details : details = {"disconn_cnt"} \cup address
      OBVIOUS
    <2>7. details \subseteq Told /\ Tell(details, values) /\ \A d \in Compared : d \notin details
      BY <1>d, <2>a, <2>6
    <2>8. /\ DOMAIN told' = Told
          /\ \A d \in Told \ details : told'[d] = told[d] /\ (d \in lost' <=> d \in lost)
          /\ \A d \in details : d \in lost' \/ told'[d] = values[d]
      BY <1>0, <2>7, Tells
    <2>9. NetTypes'
      BY <1>0, <2>1, <2>2, <2>3, <2>8 DEF NetTypes
    <2>10. HandlersInv'
      BY <2>1, <2>3 DEF NetInv, HandlersInv, InInit, Up, Telling
    <2>11. QueueInv' /\ ReadInv'
      BY <2>1, <2>3 DEF NetInv, QueueInv, ReadInv
    <2>12. \A d : Kept(d)' = Kept(d)
      BY <2>1, <2>2 DEF Kept
    <2>13. KeptInv'
      BY <2>1, <2>12 DEF NetInv, KeptInv, Known
    <2>14. TellInv'
      BY <1>d, <2>1, <2>7, <2>8, <2>12 DEF NetInv, TellInv, Reported
    <2>15. IpInv'
      <3> SUFFICES ASSUME ~raced, ~IsPending(events, "ipv4"), ip # 0, "ipv4" \notin lost'
                   PROVE  told'["ipv4"] = ip
        BY <2>1, <2>3 DEF IpInv
      <3>1. caller.ip = ip
        BY <2>1 DEF NetInv, IpInv
      <3>2. "ipv4" \in details
        BY <2>6, <2>a, <3>1
      <3> QED BY <2>5, <2>8, <3>1, <3>2
    <2> QED BY <2>9, <2>10, <2>11, <2>13, <2>14, <2>15 DEF NetInv
  <1>6. CASE NetDeinitStart
    <2>1. /\ UNCHANGED <<link, ip, events, net, loop, told, lost, raced>>
          /\ caller.pc = "idle" /\ caller' = [caller EXCEPT !.pc = "clear"]
      BY <1>6 DEF NetDeinitStart, netDriver
    <2>2. IsCaller(caller') /\ caller'.pc = "clear"
      BY <1>0, <2>1 DEF IsCaller
    <2>3. NetTypes'
      BY <1>0, <2>1, <2>2 DEF NetTypes
    <2>4. HandlersInv'
      BY <2>2 DEF HandlersInv, InInit, Up, Telling
    <2> QED BY <1>n, <2>1, <2>2, <2>3, <2>4 DEF Up
  <1>7. CASE NetDeinitEnd
    <2>1. /\ UNCHANGED <<link, ip, events, loop, told, lost, raced>>
          /\ caller' = CallerIdle /\ net' = NetZero
      BY <1>7 DEF NetDeinitEnd, netDriver
    <2>2. IsCaller(caller') /\ caller'.pc = "idle" /\ IsNet(net') /\ ~net'.init
      BY <2>1 DEF CallerIdle, IsCaller, NetZero, IsNet
    <2>3. NetTypes'
      BY <1>0, <2>1, <2>2 DEF NetTypes
    <2>4. HandlersInv'
      BY <2>2 DEF HandlersInv, InInit, Up, Telling
    <2> QED BY <1>n, <2>1, <2>2, <2>3, <2>4 DEF Up
  <1> QED BY <1>1, <1>2, <1>3, <1>4, <1>5, <1>6, <1>7

LEMMA NetInvNext == NetInv /\ [Next]_vars => NetInv'
  <1> SUFFICES ASSUME NetInv, [Next]_vars PROVE NetInv'
    OBVIOUS
  <1>1. CASE UNCHANGED netVars
    <2>1. UNCHANGED <<link, ip, events, net, handlers, loop, caller, told, lost, raced>>
      BY <1>1 DEF netVars
    <2> QED BY <2>1 DEF NetInv, NetTypes, HandlersInv, QueueInv, ReadInv, KeptInv, TellInv, IpInv,
               InInit, Up, Known, Reported, Kept, Telling
  <1>2. CASE NetNext
    BY <1>2, DriverMoves, DispatchKeeps, RememberKeeps, CallerMoves DEF NetNext
  <1> QED BY <1>1, <1>2 DEF Next, vars

\* When all events are handled, what was told last of the access point and of
\* the address is so, for every set of access points and however many events
\* came before, during and after init; unless a report of it was refused, an
\* event was handled while init told of the link, or the detail is zero.
THEOREM LinkIsTold == Spec => []LinkTold
  <1>1. NetInv => LinkTold
    <2> SUFFICES ASSUME NetInv, NetQuiet, ~raced PROVE LinkTold
      BY DEF LinkTold
    <2>1. Up /\ loop.pc = "idle" /\ events = <<>> /\ Known /\ Reported
      BY DEF NetQuiet, Up, Known, Reported
    <2>2. \A d : ~IsPending(events, d)
      BY <2>1, NothingPending
    <2>3. ASSUME link # NoAP, NEW d \in Details \ ({"ssid"} \cup lost)
          PROVE  told[d] = link[d] \/ link[d] = NoAP[d]
      <3>1. d \in Compared /\ d \notin lost
        BY DEF Compared
      <3>2. Kept(d) = link[d]
        BY <2>1, <2>2, <2>3, <3>1 DEF NetInv, KeptInv
      <3>3. told[d] = Kept(d) \/ Kept(d) = NoAP[d]
        BY <2>1, <3>1 DEF NetInv, TellInv
      <3> QED BY <3>2, <3>3
    <2>4. ip # 0 /\ "ipv4" \notin lost => told["ipv4"] = ip
      BY <2>1, <2>2 DEF NetInv, IpInv
    <2> QED BY <2>3, <2>4 DEF LinkTold
  <1> QED BY <1>1, NetStart, NetInvNext, PTL DEF Spec

=============================================================================
