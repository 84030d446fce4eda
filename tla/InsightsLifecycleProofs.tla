------------------------ MODULE InsightsLifecycleProofs ------------------------
(***************************************************************************)
(* Proofs about the lifecycle of the agent, for every length of the work   *)
(* queue, all periods and any number of firmwares.                         *)
(***************************************************************************)
EXTENDS InsightsLifecycle, TLAPS

-----------------------------------------------------------------------------
(* The inductive invariant                                                  *)

\* No element j of q is there twice.
OnceIn(q, j) == \A a, b \in 1..Len(q) : q[a] = j /\ q[b] = j => a = b
Queued(i) == Contains(wq.items, i)
Once(i) == OnceIn(wq.items, i)
FirstQueued == Queued("first")
RoundQueued == Queued("round")
TeardownQueued == Queued("teardown")
FirstOnce == Once("first")
TeardownOnce == Once("teardown")

SRec == [lock : {"null", "live"}, scratch : Pointer, read_buf : {"null", "live"},
         node_id : {"null", "live"}, send_timer : {"null", "live"},
         enabled : BOOLEAN, data_sent : BOOLEAN]
EntryRec == [ptr : Pointer, timer : {"none", "dormant", "armed", "deleted"}, cur : MinPeriod..MaxPeriod]
TransportRec == [init : BOOLEAN, node : Pointer]
WqRec == [host : BOOLEAN, state : {"none", "ready", "running"}, items : Seq(Items)]
Pcs == {"idle"} \cup EnablePcs \cup DisablePcs \cup InitPcs
AppRec == [call : Calls, pc : Pcs]
Commands == {"start", "stop", "delete"}
TmrRec == [pc : {"idle", "pace"}, sent : BOOLEAN, cmds : Seq(Commands)]

\* Types, the period within its limits, the work queue within its length.
Types ==
  /\ s \in SRec
  /\ up \subseteq AllParts
  /\ entry \in EntryRec
  /\ transport \in TransportRec
  /\ wq \in WqRec /\ Len(wq.items) <= QueueCap
  /\ app \in AppRec
  /\ tmr \in TmrRec
  /\ logger \in {"idle", "writing"} /\ noTimer \in BOOLEAN
  /\ nvs \in Layouts \cup {NoCrc} /\ fw \in Layouts /\ stored \subseteq Layouts
  /\ risky \in BOOLEAN /\ lost \in BOOLEAN /\ crcLost \in BOOLEAN

\* Before the log hook is initialised there is no periodic entry; it is
\* registered once in a boot, and unregistered once.
Unhooked == "hookInit" \notin up
Unregistered == entry.timer = "none" /\ entry.ptr # "live"
Registered == entry.ptr = "live" /\ entry.timer \in {"dormant", "armed"}
Gone == entry.ptr = "null" /\ entry.timer \in {"dormant", "armed", "deleted"}

\* The commands that may be waiting in the queue of the timer task.
NoCommand == tmr.cmds = <<>>
StartCommand == tmr.cmds = <<"start">>
EndCommands == tmr.cmds \in {<<"stop", "delete">>, <<"delete">>, <<"start", "delete">>}

EarlyPcs == {"events", "storeEvents", "store", "layout", "saveCrc", "hook", "timer", "periodic"}
TakingDown == {"unregister", "hookOff", "storeLocks", "storeOff", "queueTeardown"}

\* Where the application is and which of these phases it is in.
PhaseInv ==
  /\ Unregistered \/ Registered \/ Gone
  /\ Unhooked => Unregistered /\ entry.ptr = "null" /\ "hook" \notin up /\ logger = "idle"
  /\ app.pc \in {"timer", "periodic"} => ~Unhooked /\ Unregistered /\ entry.ptr = "null"
  /\ s.enabled \/ app.pc \in {"enabled", "unregister"} => Registered
  /\ app.pc \in EarlyPcs \cup {"enabled", "transportOff"} \cup TakingDown => ~s.enabled
  /\ app.pc \in TakingDown \ {"unregister"} => Gone
  /\ app.pc \in {"node", "initErr", "connect"} => app.call = "init"
  /\ app.call \in {"init", "deinit"} => ~wq.host
  /\ app.pc = "connect" => s.enabled
  /\ app.call = "init" /\ app.pc = "alloc" => s.lock = "null"

\* What exists at each step of enable and disable; a teardown is queued only
\* when there is something to take down.
WholeInv ==
  /\ app.pc \in EarlyPcs \cup {"enabled"} \/ s.enabled =>
       s.lock = "live" /\ s.scratch = "live" /\ s.read_buf = "live" /\ ~TeardownQueued
  /\ app.pc \in TakingDown => s.lock = "live" /\ ~TeardownQueued
  /\ app.pc \in EarlyPcs \ {"events"} \/ app.pc = "enabled" \/ s.enabled => "events" \in up
  /\ app.pc \in EarlyPcs \ {"events", "storeEvents"} \/ app.pc = "enabled" \/ s.enabled => "storeEvents" \in up
  /\ app.pc \in EarlyPcs \ {"events", "storeEvents", "store"} \/ app.pc = "enabled" \/ s.enabled =>
       "store" \in up /\ "storeLock" \in up
  /\ app.pc \in {"timer", "periodic", "enabled"} \/ s.enabled =>
       "hookInit" \in up /\ "hook" \in up /\ "modules" \in up
  /\ app.pc \in {"periodic", "enabled"} \/ s.enabled => s.send_timer = "live"
  /\ TeardownQueued => s.lock = "live" /\ Gone
  /\ TeardownOnce

\* There is one first call, start command, armed timer or callback at a time.
TimerInv ==
  /\ FirstOnce
  /\ Unregistered => NoCommand /\ tmr.pc = "idle" /\ ~FirstQueued
  /\ Registered => NoCommand \/ StartCommand
  /\ Registered /\ (FirstQueued \/ StartCommand \/ tmr.pc = "pace") => entry.timer = "dormant"
  /\ Registered /\ (FirstQueued \/ StartCommand) => tmr.pc = "idle"
  /\ Registered /\ FirstQueued => NoCommand
  /\ Gone => NoCommand \/ EndCommands
  /\ (s.enabled \/ app.pc = "enabled") /\ ~lost /\ ~FirstQueued =>
        entry.timer = "armed" \/ StartCommand \/ tmr.pc = "pace"

\* What holds until something is taken down or asked for too early.
RiskInv ==
  ~risky =>
    /\ ~Gone /\ app.pc \notin TakingDown
    /\ s.lock = "null" => up = {} /\ Unregistered /\ ~RoundQueued
    /\ s.lock = "null" /\ wq.state = "running" => wq.host
    /\ "hookInit" \in up \/ "store" \in up => "storeLock" \in up
    /\ transport.node = "freed" => app.call = "init" /\ app.pc \in {"off", "transportOff"}
    /\ app.call = "init" /\ app.pc # "node" => wq.state # "running"
    /\ wq.state = "running" /\ ~wq.host => s.enabled

\* The records in the store are of the layout that NVS tells of.
LayoutInv ==
  ~crcLost =>
    /\ stored \subseteq {nvs}
    /\ ~Unhooked \/ app.pc = "hook" => nvs = fw
    /\ app.pc = "saveCrc" => stored \subseteq {fw}

Parts == PhaseInv /\ WholeInv /\ TimerInv /\ RiskInv /\ LayoutInv

\* The timer that is not there is asked for while Insights is not enabled.
NoTimerInv == noTimer => ~s.enabled

IInv == Types /\ Parts /\ NoTimerInv

-----------------------------------------------------------------------------
(* The queues                                                               *)

\* Membership and single occurrence, of a sequence that grows or shrinks.
LEMMA Appended ==
  ASSUME NEW S, NEW q \in Seq(S), NEW e \in S
  PROVE  /\ Append(q, e) \in Seq(S) /\ Len(Append(q, e)) = Len(q) + 1
         /\ \A j : Contains(Append(q, e), j) <=> Contains(q, j) \/ j = e
         /\ \A j : j # e /\ OnceIn(q, j) => OnceIn(Append(q, e), j)
         /\ ~Contains(q, e) => OnceIn(Append(q, e), e)
  <1>1. /\ Append(q, e) \in Seq(S) /\ Len(Append(q, e)) = Len(q) + 1 /\ Len(q) \in Nat
        /\ \A k \in 1..Len(q) : Append(q, e)[k] = q[k]
        /\ Append(q, e)[Len(q) + 1] = e
    OBVIOUS
  <1>2. PICK r : r = Append(q, e)
    OBVIOUS
  <1>3. \A k \in 1..Len(r) : k = Len(q) + 1 \/ k \in 1..Len(q)
    BY <1>1, <1>2
  <1>4. \A j : Contains(r, j) <=> Contains(q, j) \/ j = e
    BY <1>1, <1>2, <1>3 DEF Contains
  <1>5. \A j : j # e /\ OnceIn(q, j) => OnceIn(r, j)
    BY <1>1, <1>2, <1>3 DEF OnceIn
  <1>6. ~Contains(q, e) => OnceIn(r, e)
    BY <1>1, <1>2, <1>3 DEF OnceIn, Contains
  <1> QED BY <1>1, <1>2, <1>4, <1>5, <1>6

LEMMA Shortened ==
  ASSUME NEW S, NEW q \in Seq(S), q # <<>>
  PROVE  /\ Tail(q) \in Seq(S) /\ Len(Tail(q)) = Len(q) - 1 /\ Head(q) \in S
         /\ Contains(q, Head(q))
         /\ \A j : Contains(q, j) <=> Contains(Tail(q), j) \/ j = Head(q)
         /\ \A j : OnceIn(q, j) => OnceIn(Tail(q), j)
         /\ OnceIn(q, Head(q)) => ~Contains(Tail(q), Head(q))
  <1>1. /\ Tail(q) \in Seq(S) /\ Len(Tail(q)) = Len(q) - 1 /\ Len(q) \in Nat /\ Len(q) > 0
        /\ Head(q) = q[1] /\ Head(q) \in S
        /\ \A k \in 1..Len(q) - 1 : Tail(q)[k] = q[k + 1]
    OBVIOUS
  <1>2. PICK r, h : r = Tail(q) /\ h = Head(q)
    OBVIOUS
  <1>3. \A k \in 1..Len(q) : k = 1 \/ (k - 1 \in 1..Len(r) /\ r[k - 1] = q[k])
    BY <1>1, <1>2
  <1>4. \A j : Contains(q, j) <=> Contains(r, j) \/ j = h
    <2>1. \A j : Contains(q, j) => Contains(r, j) \/ j = h
      BY <1>1, <1>2, <1>3 DEF Contains
    <2>2. \A j : Contains(r, j) => Contains(q, j)
      BY <1>1, <1>2 DEF Contains
    <2>3. Contains(q, h)
      BY <1>1, <1>2 DEF Contains
    <2> QED BY <2>1, <2>2, <2>3
  <1>5. \A j : OnceIn(q, j) => OnceIn(r, j)
    BY <1>1, <1>2 DEF OnceIn
  <1>6. OnceIn(q, h) => ~Contains(r, h)
    BY <1>1, <1>2 DEF OnceIn, Contains
  <1> QED BY <1>1, <1>2, <1>4, <1>5, <1>6

LEMMA Adding ==
  ASSUME Types, NEW i \in Items, wq' = AddTask(i)
  PROVE  /\ wq' \in WqRec /\ Len(wq'.items) <= QueueCap
         /\ wq'.host = wq.host /\ wq'.state = wq.state
         /\ \A j : Queued(j) => Queued(j)'
         /\ \A j : j # i /\ Queued(j)' => Queued(j)
         /\ CanAdd => Queued(i)'
         /\ ~CanAdd => wq' = wq
         /\ \A j : j # i /\ Once(j) => Once(j)'
         /\ Once(i) /\ ~Queued(i) => Once(i)'
  <1>0. wq \in WqRec /\ wq.items \in Seq(Items) /\ Len(wq.items) \in Nat /\ QueueCap \in Nat /\ Len(wq.items) <= QueueCap
    BY LifecycleAssumption DEF Types, LifecycleAssumption, WqRec
  <1>1. CASE CanAdd
    <2>1. PICK q : q = Append(wq.items, i)
      OBVIOUS
    <2>2. /\ q \in Seq(Items) /\ Len(q) = Len(wq.items) + 1
          /\ \A j : Contains(q, j) <=> Contains(wq.items, j) \/ j = i
          /\ \A j : j # i /\ OnceIn(wq.items, j) => OnceIn(q, j)
          /\ ~Contains(wq.items, i) => OnceIn(q, i)
      BY <1>0, <2>1, Appended, Zenon
    <2>3. wq' = [wq EXCEPT !.items = q]
      BY <1>1, <2>1 DEF AddTask
    <2>4. wq'.items = q /\ wq'.host = wq.host /\ wq'.state = wq.state /\ wq' \in WqRec
      BY <1>0, <2>2, <2>3 DEF WqRec
    <2>5. Len(wq'.items) <= QueueCap
      BY <1>0, <1>1, <2>2, <2>4 DEF CanAdd
    <2>6. \A j : (Queued(j) <=> Contains(wq.items, j)) /\ (Queued(j)' <=> Contains(q, j))
      BY <2>4 DEF Queued
    <2>7. \A j : (Once(j) <=> OnceIn(wq.items, j)) /\ (Once(j)' <=> OnceIn(q, j))
      BY <2>4 DEF Once
    <2> QED BY <1>1, <2>2, <2>4, <2>5, <2>6, <2>7
  <1>2. CASE ~CanAdd
    <2>1. wq' = wq
      BY <1>2 DEF AddTask
    <2> QED BY <1>0, <1>2, <2>1 DEF Queued, Once
  <1> QED BY <1>1, <1>2

LEMMA Popping ==
  ASSUME Types, wq.items # <<>>, wq' = Pop, NEW h, h = Head(wq.items)
  PROVE  /\ wq' \in WqRec /\ Len(wq'.items) < QueueCap
         /\ wq'.host = wq.host /\ wq'.state = wq.state
         /\ \A j : Queued(j)' => Queued(j)
         /\ \A j : j # h /\ Queued(j) => Queued(j)'
         /\ \A j : Once(j) => Once(j)'
         /\ Once(h) => ~Queued(h)'
         /\ Queued(h) /\ h \in Items
  <1>0. wq \in WqRec /\ wq.items \in Seq(Items) /\ Len(wq.items) \in Nat /\ QueueCap \in Nat /\ Len(wq.items) <= QueueCap
    BY LifecycleAssumption DEF Types, LifecycleAssumption, WqRec
  <1>1. PICK q : q = Tail(wq.items)
    OBVIOUS
  <1>2. /\ q \in Seq(Items) /\ Len(q) = Len(wq.items) - 1 /\ h \in Items
        /\ Contains(wq.items, h)
        /\ \A j : Contains(wq.items, j) <=> Contains(q, j) \/ j = h
        /\ \A j : OnceIn(wq.items, j) => OnceIn(q, j)
        /\ OnceIn(wq.items, h) => ~Contains(q, h)
    BY <1>0, <1>1, Shortened, Zenon
  <1>3. wq' = [wq EXCEPT !.items = q]
    BY <1>1 DEF Pop
  <1>4. wq'.items = q /\ wq'.host = wq.host /\ wq'.state = wq.state /\ wq' \in WqRec
    BY <1>0, <1>2, <1>3 DEF WqRec
  <1>5. Len(wq'.items) < QueueCap
    BY <1>0, <1>2, <1>4
  <1>6. \A j : (Queued(j) <=> Contains(wq.items, j)) /\ (Queued(j)' <=> Contains(q, j))
    BY <1>4 DEF Queued
  <1>7. \A j : (Once(j) <=> OnceIn(wq.items, j)) /\ (Once(j)' <=> OnceIn(q, j))
    BY <1>4 DEF Once
  <1> QED BY <1>1, <1>2, <1>4, <1>5, <1>6, <1>7

\* What the steps do to the work queue, item by item.
KeepsFirst == (FirstQueued' <=> FirstQueued) /\ (FirstOnce => FirstOnce')
KeepsRound == RoundQueued' <=> RoundQueued
KeepsTeardown == (TeardownQueued' <=> TeardownQueued) /\ (TeardownOnce => TeardownOnce')
KeepsState == wq'.host = wq.host /\ wq'.state = wq.state

LEMMA QueueKept ==
  ASSUME wq'.items = wq.items PROVE KeepsFirst /\ KeepsRound /\ KeepsTeardown
  BY DEF KeepsFirst, KeepsRound, KeepsTeardown, FirstQueued, RoundQueued, TeardownQueued,
         FirstOnce, TeardownOnce, Queued, Once

LEMMA FirstAdded ==
  ASSUME Types, wq' = AddTask("first")
  PROVE  /\ KeepsState /\ KeepsRound /\ KeepsTeardown
         /\ CanAdd => FirstQueued'
         /\ FirstOnce /\ ~FirstQueued => FirstOnce'
  <1>1. "first" \in Items /\ "first" # "round" /\ "first" # "teardown"
    BY DEF Items
  <1> QED BY <1>1, Adding, Zenon DEF KeepsState, KeepsRound, KeepsTeardown,
             FirstQueued, RoundQueued, TeardownQueued, FirstOnce, TeardownOnce

LEMMA RoundAdded ==
  ASSUME Types, wq' = AddTask("round")
  PROVE  /\ KeepsState /\ KeepsFirst /\ KeepsTeardown
         /\ RoundQueued => RoundQueued'
  <1>1. "round" \in Items /\ "first" # "round" /\ "round" # "teardown"
    BY DEF Items
  <1> QED BY <1>1, Adding, Zenon DEF KeepsState, KeepsFirst, KeepsTeardown,
             FirstQueued, RoundQueued, TeardownQueued, FirstOnce, TeardownOnce

LEMMA TeardownAdded ==
  ASSUME Types, wq' = AddTask("teardown")
  PROVE  /\ KeepsState /\ KeepsFirst /\ KeepsRound
         /\ TeardownOnce /\ ~TeardownQueued => TeardownOnce'
  <1>1. "teardown" \in Items /\ "first" # "teardown" /\ "round" # "teardown"
    BY DEF Items
  <1> QED BY <1>1, Adding, Zenon DEF KeepsState, KeepsFirst, KeepsRound,
             FirstQueued, RoundQueued, TeardownQueued, FirstOnce, TeardownOnce

LEMMA RoundPopped ==
  ASSUME Types, Running("round"), wq' = Pop
  PROVE  KeepsState /\ KeepsFirst /\ KeepsTeardown /\ (RoundQueued' => RoundQueued) /\ RoundQueued
  <1>1. PICK h : h = Head(wq.items)
    OBVIOUS
  <1>2. h = "round" /\ wq.items # <<>> /\ "first" # "round" /\ "round" # "teardown"
    BY <1>1 DEF Running
  <1> QED BY <1>1, <1>2, Popping, Zenon DEF KeepsState, KeepsFirst, KeepsTeardown,
             FirstQueued, RoundQueued, TeardownQueued, FirstOnce, TeardownOnce

LEMMA TeardownPopped ==
  ASSUME Types, Running("teardown"), wq' = Pop, TeardownOnce
  PROVE  KeepsState /\ KeepsFirst /\ KeepsRound /\ TeardownQueued /\ ~TeardownQueued' /\ TeardownOnce'
  <1>1. PICK h : h = Head(wq.items)
    OBVIOUS
  <1>2. h = "teardown" /\ wq.items # <<>> /\ "first" # "teardown" /\ "round" # "teardown"
    BY <1>1 DEF Running
  <1> QED BY <1>1, <1>2, Popping, Zenon DEF KeepsState, KeepsFirst, KeepsRound,
             FirstQueued, RoundQueued, TeardownQueued, FirstOnce, TeardownOnce

\* The first call is replaced by a round.
LEMMA FirstPopped ==
  ASSUME Types, Running("first"), FirstOnce, wq' = [wq EXCEPT !.items = Append(Tail(@), "round")]
  PROVE  KeepsState /\ KeepsTeardown /\ FirstQueued /\ ~FirstQueued' /\ FirstOnce'
  <1>1. wq \in WqRec /\ wq.items \in Seq(Items) /\ wq.items # <<>> /\ Head(wq.items) = "first"
    BY DEF Types, WqRec, Running
  <1>2. PICK q, h, e, r : q = Tail(wq.items) /\ h = Head(wq.items) /\ e = "round" /\ r = Append(q, e)
    OBVIOUS
  <1>3. h = "first" /\ "first" # "round" /\ "first" # "teardown" /\ "round" # "teardown" /\ e \in Items
    BY <1>1, <1>2 DEF Items
  <1>4. /\ q \in Seq(Items) /\ Contains(wq.items, h)
        /\ \A j : Contains(wq.items, j) <=> Contains(q, j) \/ j = h
        /\ \A j : OnceIn(wq.items, j) => OnceIn(q, j)
        /\ OnceIn(wq.items, h) => ~Contains(q, h)
    BY <1>1, <1>2, Shortened, Zenon
  <1>5. /\ \A j : Contains(r, j) <=> Contains(q, j) \/ j = e
        /\ \A j : j # e /\ OnceIn(q, j) => OnceIn(r, j)
    <2>1. /\ \A j : Contains(Append(q, e), j) <=> Contains(q, j) \/ j = e
          /\ \A j : j # e /\ OnceIn(q, j) => OnceIn(Append(q, e), j)
      BY <1>3, <1>4, Appended
    <2> QED BY <1>2, <2>1, Zenon
  <1>6. wq'.items = r /\ wq'.host = wq.host /\ wq'.state = wq.state
    BY <1>1, <1>2 DEF WqRec
  <1> QED BY <1>2, <1>3, <1>4, <1>5, <1>6, Zenon DEF KeepsState, KeepsTeardown, FirstQueued,
             TeardownQueued, FirstOnce, TeardownOnce, Queued, Once

LEMMA QueueEmptied ==
  ASSUME wq'.items = <<>>
  PROVE  ~FirstQueued' /\ ~RoundQueued' /\ ~TeardownQueued' /\ FirstOnce' /\ TeardownOnce'
  <1>1. \A j : ~Contains(<<>>, j) /\ OnceIn(<<>>, j)
    BY DEF Contains, OnceIn
  <1> QED BY <1>1, Zenon DEF FirstQueued, RoundQueued, TeardownQueued, FirstOnce, TeardownOnce, Queued, Once

LEMMA ShortSequence ==
  ASSUME NEW S, NEW n, NEW q \in Seq(S), Len(q) \in 0..n PROVE q \in BoundedSeq(S, n)
  BY DEF BoundedSeq, SeqOf

-----------------------------------------------------------------------------
(* Types                                                                    *)

LEMMA PeriodTyped ==
  ASSUME NEW cur \in MinPeriod..MaxPeriod, NEW sent \in BOOLEAN
  PROVE  Period(cur, sent) \in MinPeriod..MaxPeriod
  <1>1. MinPeriod \in Nat /\ MaxPeriod \in Nat /\ cur \in Nat /\ MinPeriod <= cur /\ cur <= MaxPeriod
    BY LifecycleAssumption DEF LifecycleAssumption
  <1>2. cur \div 2 \in Nat /\ cur \div 2 <= cur /\ 2 * cur \in Nat /\ cur <= 2 * cur
    BY <1>1
  <1> QED BY <1>1, <1>2 DEF Period

\* The updates the steps make keep each record in its set.
LEMMA STyped ==
  ASSUME NEW r \in SRec
  PROVE  /\ \A b \in BOOLEAN : [r EXCEPT !.enabled = b] \in SRec /\ [r EXCEPT !.data_sent = b] \in SRec
         /\ \A p \in {"null", "live"} : [r EXCEPT !.send_timer = p] \in SRec /\ [r EXCEPT !.node_id = p] \in SRec
         /\ [r EXCEPT !.lock = "null", !.scratch = "null", !.send_timer = "null", !.node_id = "null"] \in SRec
  BY DEF SRec, Pointer

LEMMA AllocatedTyped ==
  ASSUME s \in SRec, NEW f PROVE Allocated(f) \in SRec
  <1>1. PICK r : r = [s EXCEPT !.lock = "live"]
    OBVIOUS
  <1>2. r \in SRec
    BY <1>1 DEF SRec
  <1>3. PICK n : n = [r EXCEPT !.node_id = "live"]
    OBVIOUS
  <1>4. n \in SRec
    BY <1>2, <1>3 DEF SRec
  <1>5. /\ [n EXCEPT !.scratch = "null", !.read_buf = "live"] \in SRec
        /\ [n EXCEPT !.scratch = "freed", !.read_buf = "null"] \in SRec
        /\ [n EXCEPT !.scratch = "live", !.read_buf = "live"] \in SRec
    BY <1>4 DEF SRec, Pointer
  <1> QED BY <1>1, <1>2, <1>3, <1>4, <1>5, Zenon DEF Allocated

LEMMA EntryTyped ==
  ASSUME NEW e \in EntryRec
  PROVE  /\ \A p \in Pointer : [e EXCEPT !.ptr = p] \in EntryRec
         /\ \A t \in {"none", "dormant", "armed", "deleted"} : [e EXCEPT !.timer = t] \in EntryRec
         /\ \A c \in MinPeriod..MaxPeriod : [e EXCEPT !.cur = c] \in EntryRec
         /\ [ptr |-> "live", timer |-> "dormant", cur |-> MinPeriod] \in EntryRec
         /\ [ptr |-> "null", timer |-> "none", cur |-> MinPeriod] \in EntryRec
  BY LifecycleAssumption DEF LifecycleAssumption, EntryRec, Pointer

LEMMA TransportTyped ==
  ASSUME NEW t \in TransportRec
  PROVE  /\ [t EXCEPT !.node = Without(t.node)] \in TransportRec
         /\ \A b \in BOOLEAN, n \in {"null", "live"} : [init |-> b, node |-> n] \in TransportRec
  BY DEF TransportRec, Pointer, Without

LEMMA AppTyped ==
  ASSUME NEW a \in AppRec
  PROVE  /\ \A p \in Pcs : [a EXCEPT !.pc = p] \in AppRec
         /\ \A c \in Calls, p \in Pcs : [call |-> c, pc |-> p] \in AppRec
  BY DEF AppRec

LEMMA TmrTyped ==
  ASSUME NEW t \in TmrRec
  PROVE  /\ \A c \in Commands : [t EXCEPT !.cmds = Append(t.cmds, c)] \in TmrRec
         /\ \A q \in Seq(Commands) : [t EXCEPT !.cmds = t.cmds \o q] \in TmrRec
         /\ t.cmds # <<>> => [t EXCEPT !.cmds = Tail(t.cmds)] \in TmrRec
         /\ [t EXCEPT !.pc = "idle"] \in TmrRec
         /\ \A b \in BOOLEAN : [t EXCEPT !.pc = "pace", !.sent = b] \in TmrRec
  <1>1. \A q \in Seq(Commands) : [t EXCEPT !.cmds = q] \in TmrRec
    BY DEF TmrRec
  <1>2. /\ [t EXCEPT !.pc = "idle"] \in TmrRec
        /\ \A b \in BOOLEAN : [t EXCEPT !.pc = "pace", !.sent = b] \in TmrRec
    BY DEF TmrRec
  <1>3. PICK q \in Seq(Commands) : q = t.cmds
    BY DEF TmrRec
  <1>4. /\ \A c \in Commands : Append(q, c) \in Seq(Commands)
        /\ \A p \in Seq(Commands) : q \o p \in Seq(Commands)
        /\ q # <<>> => Tail(q) \in Seq(Commands)
    OBVIOUS
  <1> QED BY <1>1, <1>2, <1>3, <1>4, Zenon

LEMMA WqMoved ==
  ASSUME NEW w \in WqRec, NEW t \in {"none", "ready", "running"}, NEW v, v = [w EXCEPT !.state = t]
  PROVE  v \in WqRec /\ v.items = w.items /\ v.host = w.host /\ v.state = t
  BY DEF WqRec

LEMMA NoneWaiting == <<>> \in Seq(Items) /\ <<>> \in Seq(Commands) /\ Len(<<>>) = 0
  OBVIOUS

LEMMA TypesStart == Init => Types
  <1> SUFFICES ASSUME Init PROVE Types
    OBVIOUS
  <1>1. PICK host \in BOOLEAN : /\ s = Fresh(host).s /\ entry = Fresh(host).entry
                                /\ transport = Fresh(host).transport /\ wq = Fresh(host).wq
                                /\ app = Fresh(host).app /\ tmr = Fresh(host).tmr
    BY DEF Init
  <1>2. s \in SRec
    BY <1>1 DEF Fresh, SRec, Pointer
  <1>3. entry \in EntryRec
    BY <1>1, LifecycleAssumption DEF LifecycleAssumption, Fresh, EntryRec, Pointer
  <1>4. transport \in TransportRec
    BY <1>1 DEF Fresh, TransportRec, Pointer
  <1>5. wq \in WqRec /\ wq.items = <<>>
    BY <1>1, NoneWaiting DEF Fresh, WqRec
  <1>6. app \in AppRec
    BY <1>1 DEF Fresh, AppRec, Calls, Pcs
  <1>7. tmr \in TmrRec
    BY <1>1, NoneWaiting DEF Fresh, TmrRec
  <1>8. Len(wq.items) <= QueueCap
    BY <1>5, NoneWaiting, LifecycleAssumption DEF LifecycleAssumption
  <1> QED BY <1>2, <1>3, <1>4, <1>5, <1>6, <1>7, <1>8, LifecycleAssumption DEF LifecycleAssumption, Init, Types

LEMMA TypesNext == Types /\ [Next]_vars => Types'
  <1> SUFFICES ASSUME Types, [Next]_vars PROVE Types'
    OBVIOUS
  <1> USE DEF Types, memory
  <1>a. ASSUME NEW i \in Items, wq' = AddTask(i) \/ wq' = wq
        PROVE wq' \in WqRec /\ Len(wq'.items) <= QueueCap
    BY <1>a, Adding
  <1>b. ASSUME wq' = Pop, wq.items # <<>> PROVE wq' \in WqRec /\ Len(wq'.items) <= QueueCap
    <2>1. PICK h : h = Head(wq.items)
      OBVIOUS
    <2>2. wq' \in WqRec /\ Len(wq'.items) < QueueCap
      BY <1>b, <2>1, Popping
    <2> QED BY <2>2, LifecycleAssumption DEF LifecycleAssumption, WqRec
  <1>c. "first" \in Items /\ "round" \in Items /\ "teardown" \in Items
    BY DEF Items
  <1>d. EnablePcs \subseteq Pcs /\ DisablePcs \subseteq Pcs /\ InitPcs \subseteq Pcs
    BY DEF Pcs
  <1>e. (\A pc \in Pcs : Goto(pc) => app' \in AppRec) /\ (Return => app' \in AppRec)
    BY AppTyped DEF Goto, Return, Calls, Pcs
  <1>f. EnableFails \/ EnableReturnsOk \/ AfterDisable => app' \in AppRec
    BY <1>d, <1>e DEF EnableFails, EnableReturnsOk, AfterDisable, InitPcs
  <1>1. CASE EnableAlloc
    <2>1. s' \in SRec
      BY <1>1, AllocatedTyped DEF EnableAlloc
    <2>2. app' \in AppRec
      BY <1>1, <1>d, <1>e, <1>f DEF EnableAlloc, EnablePcs
    <2> QED BY <1>1, <2>1, <2>2 DEF EnableAlloc
  <1>2. CASE EnableEvents
    BY <1>2, <1>d, <1>e, <1>f DEF EnableEvents, EnablePart, EnablePcs, AllParts
  <1>3. CASE EnableStore \/ EnableStoreEvents
    BY <1>3, <1>d, <1>e, <1>f DEF EnableStore, EnableStoreEvents, EnablePart, EnablePcs, AllParts
  <1>4. CASE CheckLayout
    BY <1>4, <1>d, <1>e DEF CheckLayout, EnablePcs
  <1>5. CASE SaveCrc
    BY <1>5, <1>d, <1>e DEF SaveCrc, EnablePcs
  <1>6. CASE EnableHook
    BY <1>6, <1>d, <1>e, <1>f DEF EnableHook, EnablePcs, AllParts
  <1>7. CASE EnableTimer
    BY <1>7, <1>d, <1>e, <1>f, STyped DEF EnableTimer, EnablePcs
  <1>8. CASE RegisterPeriodic
    <2>1. app' \in AppRec
      BY <1>8, <1>d, <1>e, <1>f DEF RegisterPeriodic, EnablePcs
    <2>2. wq' \in WqRec /\ Len(wq'.items) <= QueueCap
      BY <1>8, <1>a, <1>c DEF RegisterPeriodic
    <2>3. entry' \in EntryRec
      BY <1>8, EntryTyped DEF RegisterPeriodic, Pointer
    <2> QED BY <1>8, <2>1, <2>2, <2>3 DEF RegisterPeriodic
  <1>9. CASE SetEnabled
    BY <1>9, <1>f, STyped DEF SetEnabled
  <1>10. CASE DisableOff
    BY <1>10, <1>d, <1>e, <1>f, STyped DEF DisableOff, DisablePcs
  <1>11. CASE UnregisterPeriodic
    <2>0. /\ <<"stop", "delete">> \in Seq(Commands) /\ <<"delete">> \in Seq(Commands)
          /\ (IF entry.timer = "armed" THEN <<"stop", "delete">> ELSE <<"delete">>) \in {<<"stop", "delete">>, <<"delete">>}
      BY DEF Commands
    <2>1. PICK q \in Seq(Commands) : tmr' = [tmr EXCEPT !.cmds = tmr.cmds \o q]
      BY <1>11, <2>0, Zenon DEF UnregisterPeriodic
    <2>2. tmr' \in TmrRec
      BY <2>1, TmrTyped
    <2>3. entry' \in EntryRec
      BY <1>11, EntryTyped DEF UnregisterPeriodic, Pointer
    <2> QED BY <1>11, <2>2, <2>3, <1>d, <1>e DEF UnregisterPeriodic, DisablePcs
  <1>12. CASE DisableHook \/ DisableStoreLocks \/ DisableStore
    BY <1>12, <1>d, <1>e DEF DisableHook, DisableStoreLocks, DisableStore, DisablePart, DisablePcs
  <1>13. CASE QueueTeardown
    BY <1>13, <1>a, <1>c, <1>f DEF QueueTeardown
  <1>14. CASE InitBegin
    <2>1. app' \in AppRec
      BY <1>14, <1>d, <1>e DEF InitBegin, InitPcs, EnablePcs
    <2>2. transport' \in TransportRec
      BY <1>14, TransportTyped DEF InitBegin
    <2>3. s' \in SRec
      BY <1>14, STyped DEF InitBegin
    <2>4. wq' \in WqRec /\ wq'.items = wq.items
      <3>1. CASE wq' = wq
        BY <3>1
      <3>2. CASE wq' = [wq EXCEPT !.state = "ready"]
        BY <3>2, WqMoved
      <3> QED BY <1>14, <3>1, <3>2 DEF InitBegin
    <2> QED BY <1>14, <2>1, <2>2, <2>3, <2>4 DEF InitBegin
  <1>15. CASE InitEnd
    <2>1. wq' \in WqRec /\ wq'.items = wq.items
      <3>1. CASE wq' = wq
        BY <3>1
      <3>2. CASE wq' = [wq EXCEPT !.state = "running"]
        BY <3>2, WqMoved
      <3> QED BY <1>15, <3>1, <3>2 DEF InitEnd
    <2> QED BY <1>15, <2>1, <1>d, <1>e DEF InitEnd, InitPcs
  <1>16. CASE InitErr
    BY <1>16, <1>d, <1>e, STyped, TransportTyped DEF InitErr, DisablePcs
  <1>17. CASE TransportOff
    <2>1. wq' \in WqRec /\ wq'.items = <<>>
      BY <1>17, NoneWaiting DEF TransportOff, WqRec
    <2>2. Len(wq'.items) <= QueueCap
      BY <2>1, NoneWaiting, LifecycleAssumption DEF LifecycleAssumption
    <2> QED BY <1>17, <2>1, <2>2, <1>e, TransportTyped, LifecycleAssumption DEF LifecycleAssumption, TransportOff
  <1>18. ASSUME NEW name \in Calls, NEW pc \in Pcs, Call(name, pc) PROVE Types'
    BY <1>18, AppTyped DEF Call
  <1>19. CASE SendData
    BY <1>19, <1>a, <1>c DEF SendData
  <1>20. CASE FirstCall
    <2>1. PICK q \in Seq(Items) : q = Tail(wq.items) /\ Len(q) = Len(wq.items) - 1
      <3>1. wq.items \in Seq(Items) /\ wq.items # <<>>
        BY <1>20 DEF FirstCall, Running, WqRec
      <3> QED BY <3>1, Shortened
    <2>2. Append(q, "round") \in Seq(Items) /\ Len(Append(q, "round")) = Len(wq.items)
      BY <1>c, <2>1 DEF WqRec
    <2>3. wq' \in WqRec /\ Len(wq'.items) <= QueueCap
      BY <1>20, <2>1, <2>2 DEF FirstCall, WqRec
    <2>4. tmr' \in TmrRec
      BY <1>20, TmrTyped DEF FirstCall, Post, Commands
    <2> QED BY <1>20, <2>3, <2>4 DEF FirstCall
  <1>21. CASE Round
    <2>1. wq' \in WqRec /\ Len(wq'.items) <= QueueCap
      BY <1>21, <1>b DEF Round, Running
    <2>2. s' \in SRec
      BY <1>21, STyped DEF Round
    <2> QED BY <1>21, <2>1, <2>2 DEF Round
  <1>22. CASE Teardown
    <2>1. wq' \in WqRec /\ Len(wq'.items) <= QueueCap
      BY <1>22, <1>b DEF Teardown, Running
    <2>2. s' \in SRec /\ transport' \in TransportRec
      BY <1>22, STyped, TransportTyped DEF Teardown
    <2> QED BY <1>22, <2>1, <2>2 DEF Teardown
  <1>23. CASE CbRead
    <2>1. s' \in SRec /\ entry' \in EntryRec
      BY <1>23, STyped, EntryTyped DEF CbRead
    <2>2. s.data_sent \in BOOLEAN
      BY DEF SRec
    <2>3. tmr' \in TmrRec
      BY <1>23, <2>2, TmrTyped DEF CbRead
    <2> QED BY <1>23, <2>1, <2>3 DEF CbRead
  <1>24. CASE CbRestart
    <2>1. wq' \in WqRec /\ Len(wq'.items) <= QueueCap
      BY <1>24, <1>a, <1>c DEF CbRestart
    <2>2. tmr' \in TmrRec
      <3>1. PICK t : t = Post("start")
        OBVIOUS
      <3>2. t \in TmrRec
        BY <3>1, TmrTyped DEF Post, Commands
      <3>3. tmr' = [t EXCEPT !.pc = "idle"] \/ tmr' = [tmr EXCEPT !.pc = "idle"]
        BY <1>24, <3>1 DEF CbRestart
      <3> QED BY <3>2, <3>3, TmrTyped
    <2>3. entry' \in EntryRec
      <3>1. PICK cur \in MinPeriod..MaxPeriod : cur = Period(entry.cur, tmr.sent)
        BY PeriodTyped DEF EntryRec, TmrRec
      <3> QED BY <1>24, <3>1, EntryTyped DEF CbRestart
    <2> QED BY <1>24, <2>1, <2>2, <2>3 DEF CbRestart
  <1>25. CASE Obey
    <2>1. tmr' \in TmrRec
      BY <1>25, TmrTyped DEF Obey
    <2>2. entry' \in EntryRec
      BY <1>25, EntryTyped DEF Obey
    <2> QED BY <1>25, <2>1, <2>2 DEF Obey
  <1>26. CASE Ack \/ SendFailed \/ LogCheck \/ LogWrite \/ HostStart
    <2>1. s' \in SRec /\ wq' \in WqRec /\ wq'.items = wq.items
      <3>1. CASE wq' = wq
        BY <1>26, <3>1, STyped DEF Ack, SendFailed, LogCheck, LogWrite, HostStart
      <3>2. CASE HostStart
        BY <3>2, WqMoved DEF HostStart
      <3> QED BY <1>26, <3>1, <3>2 DEF Ack, SendFailed, LogCheck, LogWrite
    <2> QED BY <1>26, <2>1 DEF Ack, SendFailed, LogCheck, LogWrite, HostStart
  <1>27. CASE LowMem
    BY <1>27, <1>a, <1>c DEF LowMem
  <1>28. CASE Reboot
    <2>1. wq.host \in BOOLEAN
      BY DEF WqRec
    <2>2. s' \in SRec
      BY <1>28 DEF Reboot, Fresh, SRec, Pointer
    <2>3. entry' \in EntryRec
      BY <1>28, LifecycleAssumption DEF LifecycleAssumption, Reboot, Fresh, EntryRec, Pointer
    <2>4. transport' \in TransportRec
      BY <1>28, <2>1 DEF Reboot, Fresh, TransportRec, Pointer
    <2>5. wq' \in WqRec /\ wq'.items = <<>>
      BY <1>28, <2>1, NoneWaiting DEF Reboot, Fresh, WqRec
    <2>6. app' \in AppRec
      BY <1>28 DEF Reboot, Fresh, AppRec, Calls, Pcs
    <2>7. tmr' \in TmrRec
      BY <1>28, NoneWaiting DEF Reboot, Fresh, TmrRec
    <2>8. Len(wq'.items) <= QueueCap
      BY <2>5, NoneWaiting, LifecycleAssumption DEF LifecycleAssumption
    <2> QED BY <1>28, <2>2, <2>3, <2>4, <2>5, <2>6, <2>7, <2>8, LifecycleAssumption DEF LifecycleAssumption, Reboot
  <1>29. CASE UNCHANGED vars
    BY <1>29 DEF vars
  <1>30. CASE AppStep
    BY <1>30, <1>1, <1>2, <1>3, <1>4, <1>5, <1>6, <1>7, <1>8, <1>9, <1>10, <1>11, <1>12, <1>13, <1>14, <1>15, <1>16, <1>17, <1>18, <1>19
       DEF AppStep, EnableStep, DisableStep, Calls, Pcs, EnablePcs, DisablePcs, InitPcs
  <1> QED BY <1>20, <1>21, <1>22, <1>23, <1>24, <1>25, <1>26, <1>27, <1>28, <1>29, <1>30 DEF Next, Worker, TimerTask

-----------------------------------------------------------------------------
(* The commands of the timer task                                           *)

KeepsCommands ==
  (NoCommand' <=> NoCommand) /\ (StartCommand' <=> StartCommand) /\ (EndCommands' <=> EndCommands)

LEMMA CommandsKept == ASSUME tmr'.cmds = tmr.cmds PROVE KeepsCommands
  BY DEF KeepsCommands, NoCommand, StartCommand, EndCommands

LEMMA CommandsDiffer == ~(NoCommand /\ StartCommand) /\ (EndCommands => ~NoCommand /\ ~StartCommand)
  <1>1. /\ <<"start">> # <<>> /\ <<"stop", "delete">> # <<>> /\ <<"delete">> # <<>> /\ <<"start", "delete">> # <<>>
        /\ <<"stop", "delete">> # <<"start">> /\ <<"delete">> # <<"start">> /\ <<"start", "delete">> # <<"start">>
    OBVIOUS
  <1> QED BY <1>1 DEF NoCommand, StartCommand, EndCommands

LEMMA StartPosted ==
  ASSUME NoCommand, tmr'.cmds = Append(tmr.cmds, "start") PROVE StartCommand' /\ ~NoCommand'
  BY DEF NoCommand, StartCommand

LEMMA CommandObeyed ==
  ASSUME tmr'.cmds = Tail(tmr.cmds), tmr.cmds # <<>>
  PROVE  /\ ~NoCommand
         /\ StartCommand => Head(tmr.cmds) = "start" /\ NoCommand' /\ ~StartCommand'
         /\ EndCommands => NoCommand' \/ EndCommands'
  <1>1. CASE tmr.cmds = <<"start">>
    BY <1>1 DEF NoCommand, StartCommand, EndCommands
  <1>2. CASE tmr.cmds = <<"delete">>
    BY <1>2 DEF NoCommand, StartCommand, EndCommands
  <1>3. CASE tmr.cmds = <<"stop", "delete">>
    BY <1>3 DEF NoCommand, StartCommand, EndCommands
  <1>4. CASE tmr.cmds = <<"start", "delete">>
    BY <1>4 DEF NoCommand, StartCommand, EndCommands
  <1> QED BY <1>1, <1>2, <1>3, <1>4, Zenon DEF NoCommand, StartCommand, EndCommands

LEMMA Joined == ASSUME NEW S, NEW a \in S, NEW b \in S PROVE <<a>> \o <<b>> = <<a, b>>
  <1>1. PICK p \in Seq(S) : p = <<a>>
    BY <<a>> \in Seq(S)
  <1>2. p \o <<b>> = Append(p, b)
    OBVIOUS
  <1>3. PICK q : q = Append(p, b)
    OBVIOUS
  <1>4. q \in Seq(S) /\ Len(q) = 2 /\ q[1] = a /\ q[2] = b
    BY <1>1, <1>3
  <1>5. q = <<q[1], q[2]>>
    BY <1>4
  <1> QED BY <1>1, <1>2, <1>3, <1>4, <1>5, Zenon

LEMMA EndPosted ==
  ASSUME NoCommand \/ (StartCommand /\ entry.timer # "armed"),
         tmr'.cmds = tmr.cmds \o (IF entry.timer = "armed" THEN <<"stop", "delete">> ELSE <<"delete">>)
  PROVE  EndCommands'
  <1>1. CASE tmr.cmds = <<>>
    BY <1>1 DEF EndCommands
  <1>2. CASE tmr.cmds = <<"start">> /\ entry.timer # "armed"
    <2>1. tmr'.cmds = <<"start">> \o <<"delete">>
      BY <1>2
    <2>2. "start" \in Commands /\ "delete" \in Commands
      BY DEF Commands
    <2>3. <<"start">> \o <<"delete">> = <<"start", "delete">>
      BY <2>2, Joined, Zenon
    <2> QED BY <2>1, <2>3, Zenon DEF EndCommands
  <1> QED BY <1>1, <1>2 DEF NoCommand, StartCommand


-----------------------------------------------------------------------------
(* Every step keeps the parts of the invariant                              *)

\* Where a step of the application leads.
Failed ==
  \/ app.call = "init" /\ app'.pc = "initErr" /\ app'.call = "init"
  \/ app.call # "init" /\ app'.pc = "idle" /\ app'.call = "none"
Succeeded ==
  \/ app.call = "init" /\ app'.pc = "connect" /\ app'.call = "init"
  \/ app.call # "init" /\ app'.pc = "idle" /\ app'.call = "none"
Disabled ==
  \/ app.call = "disable" /\ app'.pc = "idle" /\ app'.call = "none"
  \/ app'.pc = "transportOff" /\ app'.call = app.call

LEMMA Ended ==
  ASSUME app \in AppRec
  PROVE  /\ Return => app'.pc = "idle" /\ app'.call = "none"
         /\ EnableFails => Failed
         /\ EnableReturnsOk => Succeeded
         /\ AfterDisable => Disabled
  <1>1. Return => app'.pc = "idle" /\ app'.call = "none"
    BY DEF Return
  <1>2. /\ Goto("initErr") => app'.pc = "initErr" /\ app'.call = app.call
        /\ Goto("connect") => app'.pc = "connect" /\ app'.call = app.call
        /\ Goto("transportOff") => app'.pc = "transportOff" /\ app'.call = app.call
    BY DEF AppRec, Goto
  <1> QED BY <1>1, <1>2, Zenon DEF EnableFails, EnableReturnsOk, AfterDisable, Failed, Succeeded, Disabled

LEMMA Going ==
  ASSUME app \in AppRec
  PROVE  /\ Goto("alloc") => app'.pc = "alloc" /\ app'.call = app.call
         /\ Goto("events") => app'.pc = "events" /\ app'.call = app.call
         /\ Goto("storeEvents") => app'.pc = "storeEvents" /\ app'.call = app.call
         /\ Goto("store") => app'.pc = "store" /\ app'.call = app.call
         /\ Goto("layout") => app'.pc = "layout" /\ app'.call = app.call
         /\ Goto("saveCrc") => app'.pc = "saveCrc" /\ app'.call = app.call
         /\ Goto("hook") => app'.pc = "hook" /\ app'.call = app.call
         /\ Goto("timer") => app'.pc = "timer" /\ app'.call = app.call
         /\ Goto("periodic") => app'.pc = "periodic" /\ app'.call = app.call
         /\ Goto("enabled") => app'.pc = "enabled" /\ app'.call = app.call
         /\ Goto("unregister") => app'.pc = "unregister" /\ app'.call = app.call
         /\ Goto("hookOff") => app'.pc = "hookOff" /\ app'.call = app.call
         /\ Goto("storeLocks") => app'.pc = "storeLocks" /\ app'.call = app.call
         /\ Goto("storeOff") => app'.pc = "storeOff" /\ app'.call = app.call
         /\ Goto("queueTeardown") => app'.pc = "queueTeardown" /\ app'.call = app.call
         /\ Goto("initErr") => app'.pc = "initErr" /\ app'.call = app.call
         /\ Goto("off") => app'.pc = "off" /\ app'.call = app.call
  BY DEF AppRec, Goto

\* What an update of a record leaves alone.
KeepsParts == /\ s'.lock = s.lock /\ s'.scratch = s.scratch /\ s'.read_buf = s.read_buf
              /\ s'.send_timer = s.send_timer
KeepsEntry == entry'.ptr = entry.ptr /\ entry'.timer = entry.timer

LEMMA SessionChanged ==
  ASSUME s \in SRec
  PROVE  /\ s' = [s EXCEPT !.enabled = TRUE] => KeepsParts /\ s'.enabled
         /\ s' = [s EXCEPT !.enabled = FALSE] => KeepsParts /\ ~s'.enabled
         /\ s' = [s EXCEPT !.data_sent = TRUE] => KeepsParts /\ s'.enabled = s.enabled
         /\ s' = [s EXCEPT !.data_sent = FALSE] => KeepsParts /\ s'.enabled = s.enabled
         /\ s' = [s EXCEPT !.node_id = "live"] => KeepsParts /\ s'.enabled = s.enabled
         /\ s' = [s EXCEPT !.node_id = "null"] => KeepsParts /\ s'.enabled = s.enabled
         /\ s' = s => KeepsParts /\ s'.enabled = s.enabled
  BY DEF SRec, Pointer, KeepsParts

LEMMA AllocatedParts ==
  ASSUME s \in SRec, NEW f, s' = Allocated(f)
  PROVE  /\ s'.enabled = s.enabled /\ s'.send_timer = s.send_timer
         /\ s'.lock \in {s.lock, "live"}
         /\ f = "none" => s'.lock = "live" /\ s'.scratch = "live" /\ s'.read_buf = "live"
  BY DEF SRec, Pointer, Allocated

\* A step that changes nothing the parts speak of.
LEMMA PartsKept ==
  ASSUME Parts, UNCHANGED <<s, up, entry, transport, wq, app, tmr, logger, nvs, fw, stored, crcLost, risky, lost>>
  PROVE  Parts'
  <1>1. KeepsFirst /\ KeepsRound /\ KeepsTeardown /\ KeepsCommands
    BY QueueKept, CommandsKept
  <1> QED BY <1>1 DEF Parts, PhaseInv, WholeInv, TimerInv, RiskInv, LayoutInv,
             EarlyPcs, TakingDown, Unhooked, Unregistered, Registered, Gone,
             KeepsFirst, KeepsRound, KeepsTeardown, KeepsCommands

LEMMA PartsNext ==
  ASSUME IInv, ~UsesDead, AppStep \/ Worker \/ TimerTask \/ Ack \/ SendFailed \/ LowMem \/ LogCheck \/ LogWrite \/ HostStart
  PROVE  Parts'
  <1> USE DEF memory
  <1>a. /\ Parts /\ Types /\ s \in SRec /\ entry \in EntryRec /\ app \in AppRec
        /\ tmr \in TmrRec /\ wq \in WqRec /\ transport \in TransportRec
    BY DEF IInv, Types
  <1>b. /\ s.lock \in {"null", "live"} /\ s.enabled \in BOOLEAN /\ wq.host \in BOOLEAN
        /\ ~(NoCommand /\ StartCommand) /\ (EndCommands => ~NoCommand /\ ~StartCommand)
    BY <1>a, CommandsDiffer DEF SRec, WqRec
  <1>q. wq' = wq => KeepsFirst /\ KeepsRound /\ KeepsTeardown /\ KeepsState
    BY QueueKept DEF KeepsState
  <1>t. tmr' = tmr => KeepsCommands /\ tmr'.pc = tmr.pc
    BY CommandsKept
  <1>1. CASE EnableAlloc
    <2>1. app.pc = "alloc" /\ UNCHANGED <<up, entry, transport, wq, tmr, logger, nvs, fw, stored, crcLost, risky, lost>>
      BY <1>1 DEF EnableAlloc
    <2>2. KeepsFirst /\ KeepsRound /\ KeepsTeardown /\ KeepsState /\ KeepsCommands
      BY <2>1, <1>q, <1>t
    <2>3. app.call = "init" => s.lock = "null"
      BY <1>a, <2>1 DEF Parts, PhaseInv
    <2>4. \/ s.lock # "null" /\ EnableReturnsOk /\ s' = s
          \/ s.lock = "null" /\ Goto("events") /\ s' = Allocated("none")
          \/ s.lock = "null" /\ EnableFails /\ \E f : s' = Allocated(f)
      BY <1>1, Zenon DEF EnableAlloc
    <2>5. \/ s.lock # "null" /\ Succeeded /\ s' = s
          \/ s.lock = "null" /\ app'.pc = "events" /\ app'.call = app.call /\ s'.lock = "live" /\ s'.scratch = "live" /\ s'.read_buf = "live"
          \/ s.lock = "null" /\ Failed
      BY <1>a, <2>4, Ended, Going, AllocatedParts, Zenon
    <2>6. s'.enabled = s.enabled /\ s'.lock \in {s.lock, "live"} /\ s'.send_timer = s.send_timer
      BY <1>a, <2>4, AllocatedParts, Zenon
    <2> USE <1>a, <1>b DEF Parts, PhaseInv, WholeInv, TimerInv, RiskInv, LayoutInv,
               EarlyPcs, TakingDown, Unhooked, Unregistered, Registered, Gone,
               KeepsFirst, KeepsRound, KeepsTeardown, KeepsState, KeepsCommands, KeepsParts, KeepsEntry, Failed, Succeeded, Disabled
    <2>7. PhaseInv'
      BY <2>1, <2>2, <2>3, <2>5, <2>6
    <2>8. WholeInv'
      BY <2>1, <2>2, <2>3, <2>5, <2>6
    <2>9. TimerInv'
      BY <2>1, <2>2, <2>3, <2>5, <2>6
    <2>10. RiskInv'
      BY <2>1, <2>2, <2>3, <2>5, <2>6
    <2>11. LayoutInv'
      BY <2>1, <2>2, <2>3, <2>5, <2>6
    <2> QED BY <2>7, <2>8, <2>9, <2>10, <2>11
  <1>2. CASE EnableEvents
    <2>1. app.pc = "events" /\ UNCHANGED <<s, entry, transport, wq, tmr, logger, nvs, fw, stored, crcLost, risky, lost>>
      BY <1>2 DEF EnableEvents, EnablePart
    <2>2. KeepsFirst /\ KeepsRound /\ KeepsTeardown /\ KeepsState /\ KeepsCommands
      BY <2>1, <1>q, <1>t
    <2>3. \/ up' = up \cup {"events"} /\ app'.pc = "storeEvents" /\ app'.call = app.call
          \/ up' = up /\ Failed
      BY <1>2, <1>a, Ended, Going, Zenon DEF EnableEvents, EnablePart
    <2> USE <1>a, <1>b DEF Parts, PhaseInv, WholeInv, TimerInv, RiskInv, LayoutInv,
               EarlyPcs, TakingDown, Unhooked, Unregistered, Registered, Gone,
               KeepsFirst, KeepsRound, KeepsTeardown, KeepsState, KeepsCommands, KeepsParts, KeepsEntry, Failed, Succeeded, Disabled
    <2>4. PhaseInv'
      BY <2>1, <2>2, <2>3
    <2>5. WholeInv'
      BY <2>1, <2>2, <2>3
    <2>6. TimerInv'
      BY <2>1, <2>2, <2>3
    <2>7. RiskInv'
      BY <2>1, <2>2, <2>3
    <2>8. LayoutInv'
      BY <2>1, <2>2, <2>3
    <2> QED BY <2>4, <2>5, <2>6, <2>7, <2>8
  <1>2a. CASE EnableStoreEvents
    <2>1. app.pc = "storeEvents" /\ UNCHANGED <<s, entry, transport, wq, tmr, logger, nvs, fw, stored, crcLost, risky, lost>>
      BY <1>2a DEF EnableStoreEvents, EnablePart
    <2>2. KeepsFirst /\ KeepsRound /\ KeepsTeardown /\ KeepsState /\ KeepsCommands
      BY <2>1, <1>q, <1>t
    <2>3. \/ up' = up \cup {"storeEvents"} /\ app'.pc = "store" /\ app'.call = app.call
          \/ up' = up /\ Failed
      BY <1>2a, <1>a, Ended, Going, Zenon DEF EnableStoreEvents, EnablePart
    <2> USE <1>a, <1>b DEF Parts, PhaseInv, WholeInv, TimerInv, RiskInv, LayoutInv,
               EarlyPcs, TakingDown, Unhooked, Unregistered, Registered, Gone,
               KeepsFirst, KeepsRound, KeepsTeardown, KeepsState, KeepsCommands, KeepsParts, KeepsEntry, Failed, Succeeded, Disabled
    <2>4. PhaseInv'
      BY <2>1, <2>2, <2>3
    <2>5. WholeInv'
      BY <2>1, <2>2, <2>3
    <2>6. TimerInv'
      BY <2>1, <2>2, <2>3
    <2>7. RiskInv'
      BY <2>1, <2>2, <2>3
    <2>8. LayoutInv'
      BY <2>1, <2>2, <2>3
    <2> QED BY <2>4, <2>5, <2>6, <2>7, <2>8
  <1>3. CASE EnableStore
    <2>1. app.pc = "store" /\ UNCHANGED <<s, entry, transport, wq, tmr, logger, nvs, fw, stored, crcLost, risky, lost>>
      BY <1>3 DEF EnableStore, EnablePart
    <2>2. KeepsFirst /\ KeepsRound /\ KeepsTeardown /\ KeepsState /\ KeepsCommands
      BY <2>1, <1>q, <1>t
    <2>3. \/ up' = up \cup {"store", "storeLock"} /\ app'.pc = "layout" /\ app'.call = app.call
          \/ up' = up /\ Failed
      BY <1>3, <1>a, Ended, Going, Zenon DEF EnableStore, EnablePart
    <2> USE <1>a, <1>b DEF Parts, PhaseInv, WholeInv, TimerInv, RiskInv, LayoutInv,
               EarlyPcs, TakingDown, Unhooked, Unregistered, Registered, Gone,
               KeepsFirst, KeepsRound, KeepsTeardown, KeepsState, KeepsCommands, KeepsParts, KeepsEntry, Failed, Succeeded, Disabled
    <2>4. PhaseInv'
      BY <2>1, <2>2, <2>3
    <2>5. WholeInv'
      BY <2>1, <2>2, <2>3
    <2>6. TimerInv'
      BY <2>1, <2>2, <2>3
    <2>7. RiskInv'
      BY <2>1, <2>2, <2>3
    <2>8. LayoutInv'
      BY <2>1, <2>2, <2>3
    <2> QED BY <2>4, <2>5, <2>6, <2>7, <2>8
  <1>4. CASE CheckLayout
    <2>1. app.pc = "layout" /\ UNCHANGED <<s, up, entry, transport, wq, tmr, logger, nvs, fw, crcLost, risky, lost>>
      BY <1>4 DEF CheckLayout
    <2>2. KeepsFirst /\ KeepsRound /\ KeepsTeardown /\ KeepsState /\ KeepsCommands
      BY <2>1, <1>q, <1>t
    <2>3. \/ nvs = fw /\ app'.pc = "hook" /\ app'.call = app.call /\ stored' = stored
          \/ app'.pc = "saveCrc" /\ app'.call = app.call /\ stored' = {}
      BY <1>4, <1>a, Ended, Going, Zenon DEF CheckLayout
    <2> USE <1>a, <1>b DEF Parts, PhaseInv, WholeInv, TimerInv, RiskInv, LayoutInv,
               EarlyPcs, TakingDown, Unhooked, Unregistered, Registered, Gone,
               KeepsFirst, KeepsRound, KeepsTeardown, KeepsState, KeepsCommands, KeepsParts, KeepsEntry, Failed, Succeeded, Disabled
    <2>4. PhaseInv'
      BY <2>1, <2>2, <2>3
    <2>5. WholeInv'
      BY <2>1, <2>2, <2>3
    <2>6. TimerInv'
      BY <2>1, <2>2, <2>3
    <2>7. RiskInv'
      BY <2>1, <2>2, <2>3
    <2>8. LayoutInv'
      BY <2>1, <2>2, <2>3
    <2> QED BY <2>4, <2>5, <2>6, <2>7, <2>8
  <1>5. CASE SaveCrc
    <2>1. app.pc = "saveCrc" /\ UNCHANGED <<s, up, entry, transport, wq, tmr, logger, fw, stored, risky, lost>>
      BY <1>5 DEF SaveCrc
    <2>2. KeepsFirst /\ KeepsRound /\ KeepsTeardown /\ KeepsState /\ KeepsCommands
      BY <2>1, <1>q, <1>t
    <2>3. (nvs' = fw /\ crcLost' = crcLost) \/ (nvs' = nvs /\ crcLost')
      BY <1>5 DEF SaveCrc
    <2>4. app'.pc = "hook" /\ app'.call = app.call
      BY <1>5, <1>a, Ended, Going, Zenon DEF SaveCrc
    <2> USE <1>a, <1>b DEF Parts, PhaseInv, WholeInv, TimerInv, RiskInv, LayoutInv,
               EarlyPcs, TakingDown, Unhooked, Unregistered, Registered, Gone,
               KeepsFirst, KeepsRound, KeepsTeardown, KeepsState, KeepsCommands, KeepsParts, KeepsEntry, Failed, Succeeded, Disabled
    <2>5. PhaseInv'
      BY <2>1, <2>2, <2>3, <2>4
    <2>6. WholeInv'
      BY <2>1, <2>2, <2>3, <2>4
    <2>7. TimerInv'
      BY <2>1, <2>2, <2>3, <2>4
    <2>8. RiskInv'
      BY <2>1, <2>2, <2>3, <2>4
    <2>9. LayoutInv'
      BY <2>1, <2>2, <2>3, <2>4
    <2> QED BY <2>5, <2>6, <2>7, <2>8, <2>9
  <1>6. CASE EnableHook
    <2>1. app.pc = "hook" /\ UNCHANGED <<s, entry, transport, wq, tmr, logger, nvs, fw, stored, crcLost, risky, lost>>
      BY <1>6 DEF EnableHook
    <2>2. KeepsFirst /\ KeepsRound /\ KeepsTeardown /\ KeepsState /\ KeepsCommands
      BY <2>1, <1>q, <1>t
    <2>3. \/ "hookInit" \in up /\ up' = up /\ Failed
          \/ "hookInit" \notin up /\ up' = up \cup {"hookInit", "hook", "modules"} /\ app'.pc = "timer" /\ app'.call = app.call
      BY <1>6, <1>a, Ended, Going, Zenon DEF EnableHook
    <2> USE <1>a, <1>b DEF Parts, PhaseInv, WholeInv, TimerInv, RiskInv, LayoutInv,
               EarlyPcs, TakingDown, Unhooked, Unregistered, Registered, Gone,
               KeepsFirst, KeepsRound, KeepsTeardown, KeepsState, KeepsCommands, KeepsParts, KeepsEntry, Failed, Succeeded, Disabled
    <2>4. PhaseInv'
      BY <2>1, <2>2, <2>3
    <2>5. WholeInv'
      BY <2>1, <2>2, <2>3
    <2>6. TimerInv'
      BY <2>1, <2>2, <2>3
    <2>7. RiskInv'
      BY <2>1, <2>2, <2>3
    <2>8. LayoutInv'
      BY <2>1, <2>2, <2>3
    <2> QED BY <2>4, <2>5, <2>6, <2>7, <2>8
  <1>7. CASE EnableTimer
    <2>1. app.pc = "timer" /\ UNCHANGED <<up, entry, transport, wq, tmr, logger, nvs, fw, stored, crcLost, risky, lost>>
      BY <1>7 DEF EnableTimer
    <2>2. KeepsFirst /\ KeepsRound /\ KeepsTeardown /\ KeepsState /\ KeepsCommands
      BY <2>1, <1>q, <1>t
    <2>3. s' = [s EXCEPT !.send_timer = "live"] =>
            /\ s'.lock = s.lock /\ s'.scratch = s.scratch /\ s'.read_buf = s.read_buf
            /\ s'.enabled = s.enabled /\ s'.send_timer = "live"
      BY <1>a DEF SRec, Pointer
    <2>4. \/ /\ s'.lock = s.lock /\ s'.scratch = s.scratch /\ s'.read_buf = s.read_buf
             /\ s'.enabled = s.enabled /\ s'.send_timer = "live" /\ app'.pc = "periodic" /\ app'.call = app.call
          \/ s' = s /\ Failed
      BY <1>7, <1>a, <2>3, Ended, Going, Zenon DEF EnableTimer
    <2> USE <1>a, <1>b DEF Parts, PhaseInv, WholeInv, TimerInv, RiskInv, LayoutInv,
               EarlyPcs, TakingDown, Unhooked, Unregistered, Registered, Gone,
               KeepsFirst, KeepsRound, KeepsTeardown, KeepsState, KeepsCommands, KeepsParts, KeepsEntry, Failed, Succeeded, Disabled
    <2>5. PhaseInv'
      BY <2>1, <2>2, <2>4
    <2>6. WholeInv'
      BY <2>1, <2>2, <2>4
    <2>7. TimerInv'
      BY <2>1, <2>2, <2>4
    <2>8. RiskInv'
      BY <2>1, <2>2, <2>4
    <2>9. LayoutInv'
      BY <2>1, <2>2, <2>4
    <2> QED BY <2>5, <2>6, <2>7, <2>8, <2>9
  <1>8. CASE RegisterPeriodic
    <2>1. app.pc = "periodic" /\ UNCHANGED <<s, up, transport, tmr, logger, nvs, fw, stored, crcLost, risky, lost>>
      BY <1>8 DEF RegisterPeriodic
    <2>2. KeepsCommands /\ tmr'.pc = tmr.pc
      BY <2>1, <1>t
    <2>3. \/ entry.ptr # "null"
          \/ entry.ptr = "null" /\ EnableFails /\ wq' = wq /\ \E p \in {"null", "freed"} : entry' = [entry EXCEPT !.ptr = p]
          \/ /\ entry.ptr = "null" /\ wq' = AddTask("first")
             /\ entry' = [ptr |-> "live", timer |-> "dormant", cur |-> MinPeriod]
             /\ (Goto("enabled") /\ CanAdd) \/ EnableFails
      BY <1>8, Zenon DEF RegisterPeriodic
    <2>4. /\ \A p \in {"null", "freed"} : entry' = [entry EXCEPT !.ptr = p] => entry'.ptr # "live" /\ entry'.timer = entry.timer
          /\ entry' = [ptr |-> "live", timer |-> "dormant", cur |-> MinPeriod] =>
               entry'.ptr = "live" /\ entry'.timer = "dormant"
      BY <1>a DEF EntryRec, Pointer
    <2>5. entry.ptr = "null" /\ Unregistered /\ ~Unhooked /\ ~FirstQueued /\ FirstOnce
      BY <1>a, <2>1 DEF Parts, PhaseInv, TimerInv
    <2>6. \/ Failed /\ KeepsFirst /\ KeepsRound /\ KeepsTeardown /\ KeepsState /\ entry'.ptr # "live" /\ entry'.timer = entry.timer
          \/ /\ KeepsRound /\ KeepsTeardown /\ KeepsState /\ FirstOnce'
             /\ entry'.ptr = "live" /\ entry'.timer = "dormant"
             /\ (app'.pc = "enabled" /\ app'.call = app.call /\ FirstQueued') \/ Failed
      BY <1>a, <1>q, <2>3, <2>4, <2>5, Ended, Going, FirstAdded, Zenon
    <2> USE <1>a, <1>b DEF Parts, PhaseInv, WholeInv, TimerInv, RiskInv, LayoutInv,
               EarlyPcs, TakingDown, Unhooked, Unregistered, Registered, Gone,
               KeepsFirst, KeepsRound, KeepsTeardown, KeepsState, KeepsCommands, KeepsParts, KeepsEntry, Failed, Succeeded, Disabled
    <2>7. PhaseInv'
      BY <2>1, <2>2, <2>5, <2>6
    <2>8. WholeInv'
      BY <2>1, <2>2, <2>5, <2>6
    <2>9. TimerInv'
      BY <2>1, <2>2, <2>5, <2>6
    <2>10. RiskInv'
      BY <2>1, <2>2, <2>5, <2>6
    <2>11. LayoutInv'
      BY <2>1, <2>2, <2>5, <2>6
    <2> QED BY <2>7, <2>8, <2>9, <2>10, <2>11
  <1>9. CASE SetEnabled
    <2>1. app.pc = "enabled" /\ UNCHANGED <<up, entry, transport, wq, tmr, logger, nvs, fw, stored, crcLost, risky, lost>>
      BY <1>9 DEF SetEnabled
    <2>2. KeepsFirst /\ KeepsRound /\ KeepsTeardown /\ KeepsState /\ KeepsCommands
      BY <2>1, <1>q, <1>t
    <2>3. KeepsParts /\ s'.enabled
      BY <1>9, <1>a, SessionChanged, Zenon DEF SetEnabled
    <2>4. Succeeded
      BY <1>9, <1>a, Ended, Going, Zenon DEF SetEnabled
    <2> USE <1>a, <1>b DEF Parts, PhaseInv, WholeInv, TimerInv, RiskInv, LayoutInv,
               EarlyPcs, TakingDown, Unhooked, Unregistered, Registered, Gone,
               KeepsFirst, KeepsRound, KeepsTeardown, KeepsState, KeepsCommands, KeepsParts, KeepsEntry, Failed, Succeeded, Disabled
    <2>5. PhaseInv'
      BY <2>1, <2>2, <2>3, <2>4
    <2>6. WholeInv'
      BY <2>1, <2>2, <2>3, <2>4
    <2>7. TimerInv'
      BY <2>1, <2>2, <2>3, <2>4
    <2>8. RiskInv'
      BY <2>1, <2>2, <2>3, <2>4
    <2>9. LayoutInv'
      BY <2>1, <2>2, <2>3, <2>4
    <2> QED BY <2>5, <2>6, <2>7, <2>8, <2>9
  <1>10. CASE DisableOff
    <2>1. app.pc = "off" /\ UNCHANGED <<up, entry, transport, wq, tmr, logger, nvs, fw, stored, crcLost, lost>>
      BY <1>10 DEF DisableOff
    <2>2. KeepsFirst /\ KeepsRound /\ KeepsTeardown /\ KeepsState /\ KeepsCommands
      BY <2>1, <1>q, <1>t
    <2>3. \/ s.enabled /\ ~s'.enabled /\ KeepsParts /\ risky' /\ app'.pc = "unregister" /\ app'.call = app.call
          \/ ~s.enabled /\ s' = s /\ risky' = risky /\ Disabled
      BY <1>10, <1>a, SessionChanged, Ended, Going, Zenon DEF DisableOff
    <2> USE <1>a, <1>b DEF Parts, PhaseInv, WholeInv, TimerInv, RiskInv, LayoutInv,
               EarlyPcs, TakingDown, Unhooked, Unregistered, Registered, Gone,
               KeepsFirst, KeepsRound, KeepsTeardown, KeepsState, KeepsCommands, KeepsParts, KeepsEntry, Failed, Succeeded, Disabled
    <2>4. PhaseInv'
      BY <2>1, <2>2, <2>3
    <2>5. WholeInv'
      BY <2>1, <2>2, <2>3
    <2>6. TimerInv'
      BY <2>1, <2>2, <2>3
    <2>7. RiskInv'
      BY <2>1, <2>2, <2>3
    <2>8. LayoutInv'
      BY <2>1, <2>2, <2>3
    <2> QED BY <2>4, <2>5, <2>6, <2>7, <2>8
  <1>11. CASE UnregisterPeriodic
    <2>1. app.pc = "unregister" /\ UNCHANGED <<s, up, transport, wq, logger, nvs, fw, stored, crcLost, risky, lost>>
      BY <1>11 DEF UnregisterPeriodic
    <2>2. KeepsFirst /\ KeepsRound /\ KeepsTeardown /\ KeepsState
      BY <2>1, <1>q
    <2>3. app'.pc = "hookOff" /\ app'.call = app.call
      BY <1>11, <1>a, Ended, Going, Zenon DEF UnregisterPeriodic
    <2>4. entry'.ptr = "null" /\ entry'.timer = entry.timer
      BY <1>11, <1>a DEF UnregisterPeriodic, EntryRec, Pointer
    <2>5. NoCommand \/ (StartCommand /\ entry.timer # "armed")
      <3>1. Registered
        BY <1>a, <2>1, Zenon DEF Parts, PhaseInv
      <3>2. (NoCommand \/ StartCommand) /\ (StartCommand => entry.timer = "dormant")
        BY <1>a, <3>1, Zenon DEF Parts, TimerInv
      <3> QED BY <3>2
    <2>6. tmr'.cmds = tmr.cmds \o (IF entry.timer = "armed" THEN <<"stop", "delete">> ELSE <<"delete">>)
      BY <1>11, <1>a DEF UnregisterPeriodic, TmrRec
    <2>7. EndCommands'
      BY <2>5, <2>6, EndPosted
    <2> USE <1>a, <1>b DEF Parts, PhaseInv, WholeInv, TimerInv, RiskInv, LayoutInv,
               EarlyPcs, TakingDown, Unhooked, Unregistered, Registered, Gone,
               KeepsFirst, KeepsRound, KeepsTeardown, KeepsState, KeepsCommands, KeepsParts, KeepsEntry, Failed, Succeeded, Disabled
    <2>8. PhaseInv'
      BY <2>1, <2>2, <2>3, <2>4, <2>5, <2>7
    <2>9. WholeInv'
      BY <2>1, <2>2, <2>3, <2>4, <2>5, <2>7
    <2>10. TimerInv'
      BY <2>1, <2>2, <2>3, <2>4, <2>5, <2>7
    <2>11. RiskInv'
      BY <2>1, <2>2, <2>3, <2>4, <2>5, <2>7
    <2>12. LayoutInv'
      BY <2>1, <2>2, <2>3, <2>4, <2>5, <2>7
    <2> QED BY <2>8, <2>9, <2>10, <2>11, <2>12
  <1>12. CASE DisableHook
    <2>1. app.pc = "hookOff" /\ UNCHANGED <<s, entry, transport, wq, tmr, logger, nvs, fw, stored, crcLost, risky, lost>>
      BY <1>12 DEF DisableHook, DisablePart
    <2>2. KeepsFirst /\ KeepsRound /\ KeepsTeardown /\ KeepsState /\ KeepsCommands
      BY <2>1, <1>q, <1>t
    <2>3. up' = up \ {"modules", "hook"} /\ app'.pc = "storeLocks" /\ app'.call = app.call
      BY <1>12, <1>a, Ended, Going, Zenon DEF DisableHook, DisablePart
    <2> USE <1>a, <1>b DEF Parts, PhaseInv, WholeInv, TimerInv, RiskInv, LayoutInv,
               EarlyPcs, TakingDown, Unhooked, Unregistered, Registered, Gone,
               KeepsFirst, KeepsRound, KeepsTeardown, KeepsState, KeepsCommands, KeepsParts, KeepsEntry, Failed, Succeeded, Disabled
    <2>4. PhaseInv'
      BY <2>1, <2>2, <2>3
    <2>5. WholeInv'
      BY <2>1, <2>2, <2>3
    <2>6. TimerInv'
      BY <2>1, <2>2, <2>3
    <2>7. RiskInv'
      BY <2>1, <2>2, <2>3
    <2>8. LayoutInv'
      BY <2>1, <2>2, <2>3
    <2> QED BY <2>4, <2>5, <2>6, <2>7, <2>8
  <1>13. CASE DisableStoreLocks
    <2>1. app.pc = "storeLocks" /\ UNCHANGED <<s, entry, transport, wq, tmr, logger, nvs, fw, stored, crcLost, risky, lost>>
      BY <1>13 DEF DisableStoreLocks, DisablePart
    <2>2. KeepsFirst /\ KeepsRound /\ KeepsTeardown /\ KeepsState /\ KeepsCommands
      BY <2>1, <1>q, <1>t
    <2>3. up' = up \ {"storeLock"} /\ app'.pc = "storeOff" /\ app'.call = app.call
      BY <1>13, <1>a, Ended, Going, Zenon DEF DisableStoreLocks, DisablePart
    <2> USE <1>a, <1>b DEF Parts, PhaseInv, WholeInv, TimerInv, RiskInv, LayoutInv,
               EarlyPcs, TakingDown, Unhooked, Unregistered, Registered, Gone,
               KeepsFirst, KeepsRound, KeepsTeardown, KeepsState, KeepsCommands, KeepsParts, KeepsEntry, Failed, Succeeded, Disabled
    <2>4. PhaseInv'
      BY <2>1, <2>2, <2>3
    <2>5. WholeInv'
      BY <2>1, <2>2, <2>3
    <2>6. TimerInv'
      BY <2>1, <2>2, <2>3
    <2>7. RiskInv'
      BY <2>1, <2>2, <2>3
    <2>8. LayoutInv'
      BY <2>1, <2>2, <2>3
    <2> QED BY <2>4, <2>5, <2>6, <2>7, <2>8
  <1>14. CASE DisableStore
    <2>1. app.pc = "storeOff" /\ UNCHANGED <<s, entry, transport, wq, tmr, logger, nvs, fw, stored, crcLost, risky, lost>>
      BY <1>14 DEF DisableStore, DisablePart
    <2>2. KeepsFirst /\ KeepsRound /\ KeepsTeardown /\ KeepsState /\ KeepsCommands
      BY <2>1, <1>q, <1>t
    <2>3. up' = up \ {"store", "events", "storeEvents"} /\ app'.pc = "queueTeardown" /\ app'.call = app.call
      BY <1>14, <1>a, Ended, Going, Zenon DEF DisableStore, DisablePart
    <2> USE <1>a, <1>b DEF Parts, PhaseInv, WholeInv, TimerInv, RiskInv, LayoutInv,
               EarlyPcs, TakingDown, Unhooked, Unregistered, Registered, Gone,
               KeepsFirst, KeepsRound, KeepsTeardown, KeepsState, KeepsCommands, KeepsParts, KeepsEntry, Failed, Succeeded, Disabled
    <2>4. PhaseInv'
      BY <2>1, <2>2, <2>3
    <2>5. WholeInv'
      BY <2>1, <2>2, <2>3
    <2>6. TimerInv'
      BY <2>1, <2>2, <2>3
    <2>7. RiskInv'
      BY <2>1, <2>2, <2>3
    <2>8. LayoutInv'
      BY <2>1, <2>2, <2>3
    <2> QED BY <2>4, <2>5, <2>6, <2>7, <2>8
  <1>15. CASE QueueTeardown
    <2>1. app.pc = "queueTeardown" /\ UNCHANGED <<s, up, entry, transport, tmr, logger, nvs, fw, stored, crcLost, risky, lost>>
      BY <1>15 DEF QueueTeardown
    <2>2. KeepsCommands /\ tmr'.pc = tmr.pc
      BY <2>1, <1>t
    <2>3. ~TeardownQueued /\ TeardownOnce
      BY <1>a, <2>1 DEF Parts, WholeInv, TakingDown
    <2>4. KeepsState /\ KeepsFirst /\ KeepsRound /\ TeardownOnce'
      BY <1>15, <1>a, <2>3, TeardownAdded DEF QueueTeardown
    <2>5. Disabled
      BY <1>15, <1>a, Ended, Going, Zenon DEF QueueTeardown
    <2> USE <1>a, <1>b DEF Parts, PhaseInv, WholeInv, TimerInv, RiskInv, LayoutInv,
               EarlyPcs, TakingDown, Unhooked, Unregistered, Registered, Gone,
               KeepsFirst, KeepsRound, KeepsTeardown, KeepsState, KeepsCommands, KeepsParts, KeepsEntry, Failed, Succeeded, Disabled
    <2>6. PhaseInv'
      BY <2>1, <2>2, <2>3, <2>4, <2>5
    <2>7. WholeInv'
      BY <2>1, <2>2, <2>3, <2>4, <2>5
    <2>8. TimerInv'
      BY <2>1, <2>2, <2>3, <2>4, <2>5
    <2>9. RiskInv'
      BY <2>1, <2>2, <2>3, <2>4, <2>5
    <2>10. LayoutInv'
      BY <2>1, <2>2, <2>3, <2>4, <2>5
    <2> QED BY <2>6, <2>7, <2>8, <2>9, <2>10
  <1>16. CASE InitBegin
    <2>1. app.pc = "node" /\ UNCHANGED <<up, entry, tmr, logger, nvs, fw, stored, crcLost, risky, lost>>
      BY <1>16 DEF InitBegin
    <2>2. KeepsCommands /\ tmr'.pc = tmr.pc
      BY <2>1, <1>t
    <2>3. \/ Return /\ s' = s /\ transport' = transport /\ wq' = wq
          \/ /\ s.lock = "null" /\ s' = [s EXCEPT !.node_id = "live"]
             /\ \E n \in {"null", "live"} : transport' = IF transport.init THEN transport ELSE [init |-> TRUE, node |-> n]
             /\ \/ Goto("initErr") /\ wq' = wq
                \/ Goto("alloc") /\ wq' = IF wq.state = "none" THEN [wq EXCEPT !.state = "ready"] ELSE wq
      BY <1>16, Zenon DEF InitBegin
    <2>4. wq' = [wq EXCEPT !.state = "ready"] => KeepsFirst /\ KeepsRound /\ KeepsTeardown /\ wq'.host = wq.host /\ wq'.state = "ready"
      <3>1. wq' = [wq EXCEPT !.state = "ready"] => wq'.items = wq.items /\ wq'.host = wq.host /\ wq'.state = "ready"
        BY <1>a DEF WqRec
      <3> QED BY <3>1, QueueKept, Zenon
    <2>5. \A n \in {"null", "live"} : transport' = (IF transport.init THEN transport ELSE [init |-> TRUE, node |-> n]) =>
             transport'.node = transport.node \/ transport'.node # "freed"
      BY <1>a DEF TransportRec, Pointer
    <2>6. \/ /\ s' = s /\ transport' = transport /\ app'.pc = "idle" /\ app'.call = "none" /\ KeepsFirst /\ KeepsRound /\ KeepsTeardown /\ KeepsState
          \/ /\ s.lock = "null" /\ KeepsParts /\ s'.enabled = s.enabled
             /\ transport'.node = transport.node \/ transport'.node # "freed"
             /\ app'.pc \in {"initErr", "alloc"} /\ app'.call = app.call
             /\ KeepsFirst /\ KeepsRound /\ KeepsTeardown /\ wq'.host = wq.host
             /\ wq'.state = wq.state \/ wq'.state = "ready"
      <3>1. /\ Goto("initErr") => app'.pc \in {"initErr", "alloc"} /\ app'.call = app.call
            /\ Goto("alloc") => app'.pc \in {"initErr", "alloc"} /\ app'.call = app.call
        BY <1>a, Going, Zenon
      <3>2. wq' = wq \/ wq' = [wq EXCEPT !.state = "ready"] =>
               /\ KeepsFirst /\ KeepsRound /\ KeepsTeardown /\ wq'.host = wq.host
               /\ wq'.state = wq.state \/ wq'.state = "ready"
        BY <1>q, <2>4, Zenon DEF KeepsState
      <3> QED BY <1>a, <1>q, <2>3, <2>5, <3>1, <3>2, SessionChanged, Ended, Zenon
    <2> USE <1>a, <1>b DEF Parts, PhaseInv, WholeInv, TimerInv, RiskInv, LayoutInv,
               EarlyPcs, TakingDown, Unhooked, Unregistered, Registered, Gone,
               KeepsFirst, KeepsRound, KeepsTeardown, KeepsState, KeepsCommands, KeepsParts, KeepsEntry, Failed, Succeeded, Disabled
    <2>7. PhaseInv'
      BY <2>1, <2>2, <2>6
    <2>8. WholeInv'
      BY <2>1, <2>2, <2>6
    <2>9. TimerInv'
      BY <2>1, <2>2, <2>6
    <2>10. RiskInv'
      BY <2>1, <2>2, <2>6
    <2>11. LayoutInv'
      BY <2>1, <2>2, <2>6
    <2> QED BY <2>7, <2>8, <2>9, <2>10, <2>11
  <1>17. CASE InitEnd
    <2>1. app.pc = "connect" /\ UNCHANGED <<s, up, entry, transport, tmr, logger, nvs, fw, stored, crcLost, risky, lost>>
      BY <1>17 DEF InitEnd
    <2>2. KeepsCommands /\ tmr'.pc = tmr.pc
      BY <2>1, <1>t
    <2>3. wq' = [wq EXCEPT !.state = "running"] => KeepsFirst /\ KeepsRound /\ KeepsTeardown /\ wq'.host = wq.host /\ wq'.state = "running"
      <3>1. wq' = [wq EXCEPT !.state = "running"] => wq'.items = wq.items /\ wq'.host = wq.host /\ wq'.state = "running"
        BY <1>a DEF WqRec
      <3> QED BY <3>1, QueueKept, Zenon
    <2>4. \/ KeepsFirst /\ KeepsRound /\ KeepsTeardown /\ KeepsState /\ app'.pc = "initErr" /\ app'.call = app.call
          \/ /\ KeepsFirst /\ KeepsRound /\ KeepsTeardown /\ wq'.host = wq.host /\ wq'.state = "running"
             /\ app'.pc = "idle" /\ app'.call = "none"
      BY <1>17, <1>a, <1>q, <2>3, Ended, Going, Zenon DEF InitEnd
    <2> USE <1>a, <1>b DEF Parts, PhaseInv, WholeInv, TimerInv, RiskInv, LayoutInv,
               EarlyPcs, TakingDown, Unhooked, Unregistered, Registered, Gone,
               KeepsFirst, KeepsRound, KeepsTeardown, KeepsState, KeepsCommands, KeepsParts, KeepsEntry, Failed, Succeeded, Disabled
    <2>5. PhaseInv'
      BY <2>1, <2>2, <2>4
    <2>6. WholeInv'
      BY <2>1, <2>2, <2>4
    <2>7. TimerInv'
      BY <2>1, <2>2, <2>4
    <2>8. RiskInv'
      BY <2>1, <2>2, <2>4
    <2>9. LayoutInv'
      BY <2>1, <2>2, <2>4
    <2> QED BY <2>5, <2>6, <2>7, <2>8, <2>9
  <1>18. CASE InitErr
    <2>1. app.pc = "initErr" /\ UNCHANGED <<up, entry, wq, tmr, logger, nvs, fw, stored, crcLost, risky, lost>>
      BY <1>18 DEF InitErr
    <2>2. KeepsFirst /\ KeepsRound /\ KeepsTeardown /\ KeepsState /\ KeepsCommands
      BY <2>1, <1>q, <1>t
    <2>3. KeepsParts /\ s'.enabled = s.enabled
      BY <1>18, <1>a, SessionChanged, Zenon DEF InitErr
    <2>4. app'.pc = "off" /\ app'.call = app.call
      BY <1>18, <1>a, Ended, Going, Zenon DEF InitErr
    <2> USE <1>a, <1>b DEF Parts, PhaseInv, WholeInv, TimerInv, RiskInv, LayoutInv,
               EarlyPcs, TakingDown, Unhooked, Unregistered, Registered, Gone,
               KeepsFirst, KeepsRound, KeepsTeardown, KeepsState, KeepsCommands, KeepsParts, KeepsEntry, Failed, Succeeded, Disabled
    <2>5. PhaseInv'
      BY <2>1, <2>2, <2>3, <2>4
    <2>6. WholeInv'
      BY <2>1, <2>2, <2>3, <2>4
    <2>7. TimerInv'
      BY <2>1, <2>2, <2>3, <2>4
    <2>8. RiskInv'
      BY <2>1, <2>2, <2>3, <2>4
    <2>9. LayoutInv'
      BY <2>1, <2>2, <2>3, <2>4
    <2> QED BY <2>5, <2>6, <2>7, <2>8, <2>9
  <1>19. CASE TransportOff
    <2>1. app.pc = "transportOff" /\ UNCHANGED <<s, up, entry, tmr, logger, nvs, fw, stored, crcLost, risky, lost>>
      BY <1>19 DEF TransportOff
    <2>2. KeepsCommands /\ tmr'.pc = tmr.pc
      BY <2>1, <1>t
    <2>3. wq'.items = <<>> /\ wq'.state = "none" /\ wq'.host = wq.host /\ transport'.node = "null"
      BY <1>19, <1>a DEF TransportOff, WqRec
    <2>4. ~FirstQueued' /\ ~RoundQueued' /\ ~TeardownQueued' /\ FirstOnce' /\ TeardownOnce'
      BY <2>3, QueueEmptied
    <2>5. app'.pc = "idle" /\ app'.call = "none"
      BY <1>19, <1>a, Ended, Going, Zenon DEF TransportOff
    <2> USE <1>a, <1>b DEF Parts, PhaseInv, WholeInv, TimerInv, RiskInv, LayoutInv,
               EarlyPcs, TakingDown, Unhooked, Unregistered, Registered, Gone,
               KeepsFirst, KeepsRound, KeepsTeardown, KeepsState, KeepsCommands, KeepsParts, KeepsEntry, Failed, Succeeded, Disabled
    <2>6. PhaseInv'
      BY <2>1, <2>2, <2>3, <2>4, <2>5
    <2>7. WholeInv'
      BY <2>1, <2>2, <2>3, <2>4, <2>5
    <2>8. TimerInv'
      BY <2>1, <2>2, <2>3, <2>4, <2>5
    <2>9. RiskInv'
      BY <2>1, <2>2, <2>3, <2>4, <2>5
    <2>10. LayoutInv'
      BY <2>1, <2>2, <2>3, <2>4, <2>5
    <2> QED BY <2>6, <2>7, <2>8, <2>9, <2>10
  <1>20. CASE Call("init", "node") /\ ~wq.host
    <2>1. app.pc = "idle" /\ UNCHANGED <<s, up, entry, transport, wq, tmr, logger, nvs, fw, stored, crcLost, risky, lost>>
      BY <1>20 DEF Call
    <2>2. KeepsFirst /\ KeepsRound /\ KeepsTeardown /\ KeepsState /\ KeepsCommands
      BY <2>1, <1>q, <1>t
    <2>3. app'.pc = "node" /\ app'.call = "init"
      BY <1>20 DEF Call
    <2>4. ~wq.host
      BY <1>20
    <2> USE <1>a, <1>b DEF Parts, PhaseInv, WholeInv, TimerInv, RiskInv, LayoutInv,
               EarlyPcs, TakingDown, Unhooked, Unregistered, Registered, Gone,
               KeepsFirst, KeepsRound, KeepsTeardown, KeepsState, KeepsCommands, KeepsParts, KeepsEntry, Failed, Succeeded, Disabled
    <2>5. PhaseInv'
      BY <2>1, <2>2, <2>3, <2>4
    <2>6. WholeInv'
      BY <2>1, <2>2, <2>3, <2>4
    <2>7. TimerInv'
      BY <2>1, <2>2, <2>3, <2>4
    <2>8. RiskInv'
      BY <2>1, <2>2, <2>3, <2>4
    <2>9. LayoutInv'
      BY <2>1, <2>2, <2>3, <2>4
    <2> QED BY <2>5, <2>6, <2>7, <2>8, <2>9
  <1>21. CASE Call("deinit", "off") /\ ~wq.host
    <2>1. app.pc = "idle" /\ UNCHANGED <<s, up, entry, transport, wq, tmr, logger, nvs, fw, stored, crcLost, risky, lost>>
      BY <1>21 DEF Call
    <2>2. KeepsFirst /\ KeepsRound /\ KeepsTeardown /\ KeepsState /\ KeepsCommands
      BY <2>1, <1>q, <1>t
    <2>3. app'.pc = "off" /\ app'.call = "deinit"
      BY <1>21 DEF Call
    <2>4. ~wq.host
      BY <1>21
    <2> USE <1>a, <1>b DEF Parts, PhaseInv, WholeInv, TimerInv, RiskInv, LayoutInv,
               EarlyPcs, TakingDown, Unhooked, Unregistered, Registered, Gone,
               KeepsFirst, KeepsRound, KeepsTeardown, KeepsState, KeepsCommands, KeepsParts, KeepsEntry, Failed, Succeeded, Disabled
    <2>5. PhaseInv'
      BY <2>1, <2>2, <2>3, <2>4
    <2>6. WholeInv'
      BY <2>1, <2>2, <2>3, <2>4
    <2>7. TimerInv'
      BY <2>1, <2>2, <2>3, <2>4
    <2>8. RiskInv'
      BY <2>1, <2>2, <2>3, <2>4
    <2>9. LayoutInv'
      BY <2>1, <2>2, <2>3, <2>4
    <2> QED BY <2>5, <2>6, <2>7, <2>8, <2>9
  <1>22. CASE Call("enable", "alloc")
    <2>1. app.pc = "idle" /\ UNCHANGED <<s, up, entry, transport, wq, tmr, logger, nvs, fw, stored, crcLost, risky, lost>>
      BY <1>22 DEF Call
    <2>2. KeepsFirst /\ KeepsRound /\ KeepsTeardown /\ KeepsState /\ KeepsCommands
      BY <2>1, <1>q, <1>t
    <2>3. app'.pc = "alloc" /\ app'.call = "enable"
      BY <1>22 DEF Call
    <2> USE <1>a, <1>b DEF Parts, PhaseInv, WholeInv, TimerInv, RiskInv, LayoutInv,
               EarlyPcs, TakingDown, Unhooked, Unregistered, Registered, Gone,
               KeepsFirst, KeepsRound, KeepsTeardown, KeepsState, KeepsCommands, KeepsParts, KeepsEntry, Failed, Succeeded, Disabled
    <2>4. PhaseInv'
      BY <2>1, <2>2, <2>3
    <2>5. WholeInv'
      BY <2>1, <2>2, <2>3
    <2>6. TimerInv'
      BY <2>1, <2>2, <2>3
    <2>7. RiskInv'
      BY <2>1, <2>2, <2>3
    <2>8. LayoutInv'
      BY <2>1, <2>2, <2>3
    <2> QED BY <2>4, <2>5, <2>6, <2>7, <2>8
  <1>23. CASE Call("disable", "off")
    <2>1. app.pc = "idle" /\ UNCHANGED <<s, up, entry, transport, wq, tmr, logger, nvs, fw, stored, crcLost, risky, lost>>
      BY <1>23 DEF Call
    <2>2. KeepsFirst /\ KeepsRound /\ KeepsTeardown /\ KeepsState /\ KeepsCommands
      BY <2>1, <1>q, <1>t
    <2>3. app'.pc = "off" /\ app'.call = "disable"
      BY <1>23 DEF Call
    <2> USE <1>a, <1>b DEF Parts, PhaseInv, WholeInv, TimerInv, RiskInv, LayoutInv,
               EarlyPcs, TakingDown, Unhooked, Unregistered, Registered, Gone,
               KeepsFirst, KeepsRound, KeepsTeardown, KeepsState, KeepsCommands, KeepsParts, KeepsEntry, Failed, Succeeded, Disabled
    <2>4. PhaseInv'
      BY <2>1, <2>2, <2>3
    <2>5. WholeInv'
      BY <2>1, <2>2, <2>3
    <2>6. TimerInv'
      BY <2>1, <2>2, <2>3
    <2>7. RiskInv'
      BY <2>1, <2>2, <2>3
    <2>8. LayoutInv'
      BY <2>1, <2>2, <2>3
    <2> QED BY <2>4, <2>5, <2>6, <2>7, <2>8
  <1>24. CASE SendData
    <2>1. UNCHANGED <<s, up, entry, transport, app, tmr, logger, nvs, fw, stored, crcLost, lost>>
      BY <1>24 DEF SendData
    <2>2. KeepsCommands /\ tmr'.pc = tmr.pc
      BY <2>1, <1>t
    <2>3. KeepsState /\ KeepsFirst /\ KeepsTeardown
      BY <1>24, <1>a, RoundAdded DEF SendData
    <2>4. risky' <=> (risky \/ ~s.enabled)
      BY <1>24 DEF SendData
    <2> USE <1>a, <1>b DEF Parts, PhaseInv, WholeInv, TimerInv, RiskInv, LayoutInv,
               EarlyPcs, TakingDown, Unhooked, Unregistered, Registered, Gone,
               KeepsFirst, KeepsRound, KeepsTeardown, KeepsState, KeepsCommands, KeepsParts, KeepsEntry, Failed, Succeeded, Disabled
    <2>5. PhaseInv'
      BY <2>1, <2>2, <2>3, <2>4
    <2>6. WholeInv'
      BY <2>1, <2>2, <2>3, <2>4
    <2>7. TimerInv'
      BY <2>1, <2>2, <2>3, <2>4
    <2>8. RiskInv'
      BY <2>1, <2>2, <2>3, <2>4
    <2>9. LayoutInv'
      BY <2>1, <2>2, <2>3, <2>4
    <2> QED BY <2>5, <2>6, <2>7, <2>8, <2>9
  <1>25. CASE FirstCall
    <2>1. UNCHANGED <<s, up, entry, transport, app, logger, nvs, fw, stored, crcLost, risky>>
      BY <1>25 DEF FirstCall
    <2>2. Running("first") /\ wq' = [wq EXCEPT !.items = Append(Tail(wq.items), "round")] /\ FirstOnce
      BY <1>25, <1>a DEF FirstCall, Parts, TimerInv
    <2>3. KeepsState /\ KeepsTeardown /\ FirstQueued /\ ~FirstQueued' /\ FirstOnce'
      BY <1>a, <2>2, FirstPopped
    <2>4. entry.ptr = "live"
      BY <2>2 DEF UsesDead
    <2>5. NoCommand
      BY <1>a, <2>3, <2>4 DEF Parts, PhaseInv, TimerInv, Registered, Unregistered, Gone
    <2>6. \/ tmr'.cmds = Append(tmr.cmds, "start") /\ tmr'.pc = tmr.pc /\ lost' = lost
          \/ tmr' = tmr /\ lost'
      BY <1>25, <1>a DEF FirstCall, Post, TmrRec
    <2>7. \/ StartCommand' /\ ~NoCommand' /\ tmr'.pc = tmr.pc /\ lost' = lost
          \/ KeepsCommands /\ tmr'.pc = tmr.pc /\ lost'
      BY <1>t, <2>5, <2>6, StartPosted, Zenon
    <2> USE <1>a, <1>b DEF Parts, PhaseInv, WholeInv, TimerInv, RiskInv, LayoutInv,
               EarlyPcs, TakingDown, Unhooked, Unregistered, Registered, Gone,
               KeepsFirst, KeepsRound, KeepsTeardown, KeepsState, KeepsCommands, KeepsParts, KeepsEntry, Failed, Succeeded, Disabled
    <2>8. PhaseInv'
      BY <2>1, <2>3, <2>4, <2>7
    <2>9. WholeInv'
      BY <2>1, <2>3, <2>4, <2>7
    <2>10. TimerInv'
      BY <2>1, <2>3, <2>4, <2>7
    <2>11. RiskInv'
      BY <2>1, <2>3, <2>4, <2>7
    <2>12. LayoutInv'
      BY <2>1, <2>3, <2>4, <2>7
    <2> QED BY <2>8, <2>9, <2>10, <2>11, <2>12
  <1>26. CASE Round
    <2>1. UNCHANGED <<up, entry, transport, app, tmr, logger, nvs, fw, stored, crcLost, risky, lost>>
      BY <1>26 DEF Round
    <2>2. KeepsCommands /\ tmr'.pc = tmr.pc
      BY <2>1, <1>t
    <2>3. KeepsState /\ KeepsFirst /\ KeepsTeardown /\ (RoundQueued' => RoundQueued)
      BY <1>26, <1>a, RoundPopped DEF Round
    <2>4. s' = s \/ s' = [s EXCEPT !.data_sent = TRUE]
      BY <1>26 DEF Round
    <2>5. KeepsParts /\ s'.enabled = s.enabled
      BY <1>a, <2>4, SessionChanged, Zenon
    <2> USE <1>a, <1>b DEF Parts, PhaseInv, WholeInv, TimerInv, RiskInv, LayoutInv,
               EarlyPcs, TakingDown, Unhooked, Unregistered, Registered, Gone,
               KeepsFirst, KeepsRound, KeepsTeardown, KeepsState, KeepsCommands, KeepsParts, KeepsEntry, Failed, Succeeded, Disabled
    <2>6. PhaseInv'
      BY <2>1, <2>2, <2>3, <2>5
    <2>7. WholeInv'
      BY <2>1, <2>2, <2>3, <2>5
    <2>8. TimerInv'
      BY <2>1, <2>2, <2>3, <2>5
    <2>9. RiskInv'
      BY <2>1, <2>2, <2>3, <2>5
    <2>10. LayoutInv'
      BY <2>1, <2>2, <2>3, <2>5
    <2> QED BY <2>6, <2>7, <2>8, <2>9, <2>10
  <1>27. CASE Teardown
    <2>1. UNCHANGED <<up, entry, app, tmr, logger, nvs, fw, stored, crcLost, risky, lost>>
      BY <1>27 DEF Teardown
    <2>2. KeepsCommands /\ tmr'.pc = tmr.pc
      BY <2>1, <1>t
    <2>3. TeardownOnce
      BY <1>a DEF Parts, WholeInv
    <2>4. KeepsState /\ KeepsFirst /\ KeepsRound /\ TeardownQueued /\ ~TeardownQueued' /\ TeardownOnce'
      BY <1>27, <1>a, <2>3, TeardownPopped DEF Teardown
    <2>5. s'.lock = "null" /\ s'.enabled = s.enabled
      BY <1>27, <1>a DEF Teardown, SRec, Pointer
    <2> USE <1>a, <1>b DEF Parts, PhaseInv, WholeInv, TimerInv, RiskInv, LayoutInv,
               EarlyPcs, TakingDown, Unhooked, Unregistered, Registered, Gone,
               KeepsFirst, KeepsRound, KeepsTeardown, KeepsState, KeepsCommands, KeepsParts, KeepsEntry, Failed, Succeeded, Disabled
    <2>6. PhaseInv'
      BY <2>1, <2>2, <2>4, <2>5
    <2>7. WholeInv'
      BY <2>1, <2>2, <2>4, <2>5
    <2>8. TimerInv'
      BY <2>1, <2>2, <2>4, <2>5
    <2>9. RiskInv'
      BY <2>1, <2>2, <2>4, <2>5
    <2>10. LayoutInv'
      BY <2>1, <2>2, <2>4, <2>5
    <2> QED BY <2>6, <2>7, <2>8, <2>9, <2>10
  <1>28. CASE CbRead
    <2>1. UNCHANGED <<up, transport, wq, app, logger, nvs, fw, stored, crcLost, risky, lost>>
      BY <1>28 DEF CbRead
    <2>2. KeepsFirst /\ KeepsRound /\ KeepsTeardown /\ KeepsState
      BY <2>1, <1>q
    <2>3. KeepsParts /\ s'.enabled = s.enabled
      BY <1>28, <1>a, SessionChanged, Zenon DEF CbRead
    <2>4. entry'.ptr = entry.ptr /\ entry.timer = "armed" /\ entry'.timer = "dormant"
      BY <1>28, <1>a DEF CbRead, EntryRec, Pointer
    <2>5. tmr'.cmds = tmr.cmds
      BY <1>28, <1>a DEF CbRead, TmrRec
    <2>6. tmr.pc = "idle" /\ tmr'.pc = "pace"
      BY <1>28, <1>a DEF CbRead, TmrRec
    <2>7. KeepsCommands
      BY <2>5, CommandsKept
    <2> USE <1>a, <1>b DEF Parts, PhaseInv, WholeInv, TimerInv, RiskInv, LayoutInv,
               EarlyPcs, TakingDown, Unhooked, Unregistered, Registered, Gone,
               KeepsFirst, KeepsRound, KeepsTeardown, KeepsState, KeepsCommands, KeepsParts, KeepsEntry, Failed, Succeeded, Disabled
    <2>8. PhaseInv'
      BY <2>1, <2>2, <2>3, <2>4, <2>6, <2>7
    <2>9. WholeInv'
      BY <2>1, <2>2, <2>3, <2>4, <2>6, <2>7
    <2>10. TimerInv'
      BY <2>1, <2>2, <2>3, <2>4, <2>6, <2>7
    <2>11. RiskInv'
      BY <2>1, <2>2, <2>3, <2>4, <2>6, <2>7
    <2>12. LayoutInv'
      BY <2>1, <2>2, <2>3, <2>4, <2>6, <2>7
    <2> QED BY <2>8, <2>9, <2>10, <2>11, <2>12
  <1>29. CASE CbRestart
    <2>1. UNCHANGED <<s, up, transport, app, logger, nvs, fw, stored, crcLost, risky>>
      BY <1>29 DEF CbRestart
    <2>2. KeepsState /\ KeepsFirst /\ KeepsTeardown
      BY <1>29, <1>a, <1>q, RoundAdded DEF CbRestart
    <2>3. entry.ptr = "live" /\ tmr.pc = "pace"
      BY <1>29 DEF CbRestart
    <2>4. KeepsEntry
      BY <1>29, <1>a DEF CbRestart, EntryRec, KeepsEntry
    <2>5. NoCommand
      BY <1>a, <2>3 DEF Parts, PhaseInv, TimerInv, Registered, Unregistered, Gone
    <2>6. \/ tmr' = [Post("start") EXCEPT !.pc = "idle"] /\ lost' = lost
          \/ tmr' = [tmr EXCEPT !.pc = "idle"] /\ lost'
      BY <1>29 DEF CbRestart
    <2>7. \/ tmr'.cmds = Append(tmr.cmds, "start") /\ tmr'.pc = "idle" /\ lost' = lost
          \/ tmr'.cmds = tmr.cmds /\ tmr'.pc = "idle" /\ lost'
      BY <1>a, <2>6 DEF Post, TmrRec
    <2>8. \/ StartCommand' /\ ~NoCommand' /\ tmr'.pc = "idle" /\ lost' = lost
          \/ KeepsCommands /\ tmr'.pc = "idle" /\ lost'
      BY <2>5, <2>7, StartPosted, CommandsKept, Zenon
    <2> USE <1>a, <1>b DEF Parts, PhaseInv, WholeInv, TimerInv, RiskInv, LayoutInv,
               EarlyPcs, TakingDown, Unhooked, Unregistered, Registered, Gone,
               KeepsFirst, KeepsRound, KeepsTeardown, KeepsState, KeepsCommands, KeepsParts, KeepsEntry, Failed, Succeeded, Disabled
    <2>9. PhaseInv'
      BY <2>1, <2>2, <2>3, <2>4, <2>5, <2>8
    <2>10. WholeInv'
      BY <2>1, <2>2, <2>3, <2>4, <2>5, <2>8
    <2>11. TimerInv'
      BY <2>1, <2>2, <2>3, <2>4, <2>5, <2>8
    <2>12. RiskInv'
      BY <2>1, <2>2, <2>3, <2>4, <2>5, <2>8
    <2>13. LayoutInv'
      BY <2>1, <2>2, <2>3, <2>4, <2>5, <2>8
    <2> QED BY <2>9, <2>10, <2>11, <2>12, <2>13
  <1>30. CASE Obey
    <2>1. UNCHANGED <<s, up, transport, wq, app, logger, nvs, fw, stored, crcLost, risky, lost>>
      BY <1>30 DEF Obey
    <2>2. KeepsFirst /\ KeepsRound /\ KeepsTeardown /\ KeepsState
      BY <2>1, <1>q
    <2>3. tmr'.cmds = Tail(tmr.cmds) /\ tmr.cmds # <<>>
      BY <1>30, <1>a DEF Obey, TmrRec
    <2>4. tmr.pc = "idle" /\ tmr'.pc = "idle" /\ entry'.ptr = entry.ptr
      BY <1>30, <1>a DEF Obey, TmrRec, EntryRec, Pointer
    <2>5. entry'.timer \in {"armed", "dormant", "deleted"}
      BY <1>30, <1>a DEF Obey, EntryRec, Pointer
    <2>6. /\ ~NoCommand /\ (EndCommands => NoCommand' \/ EndCommands')
          /\ StartCommand => entry'.timer = "armed" /\ NoCommand' /\ ~StartCommand'
      <3>1. Head(tmr.cmds) = "start" => entry'.timer = "armed"
        BY <1>30, <1>a DEF Obey, EntryRec, Pointer
      <3> QED BY <2>3, <3>1, CommandObeyed
    <2> USE <1>a, <1>b DEF Parts, PhaseInv, WholeInv, TimerInv, RiskInv, LayoutInv,
               EarlyPcs, TakingDown, Unhooked, Unregistered, Registered, Gone,
               KeepsFirst, KeepsRound, KeepsTeardown, KeepsState, KeepsCommands, KeepsParts, KeepsEntry, Failed, Succeeded, Disabled
    <2>7. PhaseInv'
      BY <2>1, <2>2, <2>4, <2>5, <2>6
    <2>8. WholeInv'
      BY <2>1, <2>2, <2>4, <2>5, <2>6
    <2>9. TimerInv'
      BY <2>1, <2>2, <2>4, <2>5, <2>6
    <2>10. RiskInv'
      BY <2>1, <2>2, <2>4, <2>5, <2>6
    <2>11. LayoutInv'
      BY <2>1, <2>2, <2>4, <2>5, <2>6
    <2> QED BY <2>7, <2>8, <2>9, <2>10, <2>11
  <1>31. CASE Ack
    <2>1. UNCHANGED <<up, entry, transport, wq, app, tmr, logger, nvs, fw, stored, crcLost, risky, lost>>
      BY <1>31 DEF Ack
    <2>2. KeepsFirst /\ KeepsRound /\ KeepsTeardown /\ KeepsState /\ KeepsCommands
      BY <2>1, <1>q, <1>t
    <2>3. KeepsParts /\ s'.enabled = s.enabled
      BY <1>31, <1>a, SessionChanged, Zenon DEF Ack
    <2> USE <1>a, <1>b DEF Parts, PhaseInv, WholeInv, TimerInv, RiskInv, LayoutInv,
               EarlyPcs, TakingDown, Unhooked, Unregistered, Registered, Gone,
               KeepsFirst, KeepsRound, KeepsTeardown, KeepsState, KeepsCommands, KeepsParts, KeepsEntry, Failed, Succeeded, Disabled
    <2>4. PhaseInv'
      BY <2>1, <2>2, <2>3
    <2>5. WholeInv'
      BY <2>1, <2>2, <2>3
    <2>6. TimerInv'
      BY <2>1, <2>2, <2>3
    <2>7. RiskInv'
      BY <2>1, <2>2, <2>3
    <2>8. LayoutInv'
      BY <2>1, <2>2, <2>3
    <2> QED BY <2>4, <2>5, <2>6, <2>7, <2>8
  <1>31a. CASE SendFailed
    <2>1. UNCHANGED <<s, up, entry, transport, wq, app, tmr, logger, nvs, fw, stored, crcLost, risky, lost>>
      BY <1>31a DEF SendFailed
    <2> QED BY <1>a, <2>1, PartsKept
  <1>32. CASE LowMem
    <2>1. UNCHANGED <<s, up, entry, transport, app, tmr, logger, nvs, fw, stored, crcLost, risky, lost>>
      BY <1>32 DEF LowMem
    <2>2. KeepsCommands /\ tmr'.pc = tmr.pc
      BY <2>1, <1>t
    <2>3. KeepsState /\ KeepsFirst /\ KeepsTeardown /\ s.enabled
      BY <1>32, <1>a, RoundAdded DEF LowMem
    <2> USE <1>a, <1>b DEF Parts, PhaseInv, WholeInv, TimerInv, RiskInv, LayoutInv,
               EarlyPcs, TakingDown, Unhooked, Unregistered, Registered, Gone,
               KeepsFirst, KeepsRound, KeepsTeardown, KeepsState, KeepsCommands, KeepsParts, KeepsEntry, Failed, Succeeded, Disabled
    <2>4. PhaseInv'
      BY <2>1, <2>2, <2>3
    <2>5. WholeInv'
      BY <2>1, <2>2, <2>3
    <2>6. TimerInv'
      BY <2>1, <2>2, <2>3
    <2>7. RiskInv'
      BY <2>1, <2>2, <2>3
    <2>8. LayoutInv'
      BY <2>1, <2>2, <2>3
    <2> QED BY <2>4, <2>5, <2>6, <2>7, <2>8
  <1>33. CASE LogCheck
    <2>1. UNCHANGED <<s, up, entry, transport, wq, app, tmr, nvs, fw, stored, crcLost, risky, lost>>
      BY <1>33 DEF LogCheck
    <2>2. KeepsFirst /\ KeepsRound /\ KeepsTeardown /\ KeepsState /\ KeepsCommands
      BY <2>1, <1>q, <1>t
    <2>3. {"hook", "store"} \subseteq up /\ logger' = "writing"
      BY <1>33 DEF LogCheck
    <2> USE <1>a, <1>b DEF Parts, PhaseInv, WholeInv, TimerInv, RiskInv, LayoutInv,
               EarlyPcs, TakingDown, Unhooked, Unregistered, Registered, Gone,
               KeepsFirst, KeepsRound, KeepsTeardown, KeepsState, KeepsCommands, KeepsParts, KeepsEntry, Failed, Succeeded, Disabled
    <2>4. PhaseInv'
      BY <2>1, <2>2, <2>3
    <2>5. WholeInv'
      BY <2>1, <2>2, <2>3
    <2>6. TimerInv'
      BY <2>1, <2>2, <2>3
    <2>7. RiskInv'
      BY <2>1, <2>2, <2>3
    <2>8. LayoutInv'
      BY <2>1, <2>2, <2>3
    <2> QED BY <2>4, <2>5, <2>6, <2>7, <2>8
  <1>34. CASE LogWrite
    <2>1. UNCHANGED <<s, up, entry, transport, wq, app, tmr, nvs, fw, crcLost, risky, lost>>
      BY <1>34 DEF LogWrite
    <2>2. KeepsFirst /\ KeepsRound /\ KeepsTeardown /\ KeepsState /\ KeepsCommands
      BY <2>1, <1>q, <1>t
    <2>3. logger = "writing" /\ logger' = "idle" /\ stored' = stored \cup {fw}
      BY <1>34 DEF LogWrite
    <2> USE <1>a, <1>b DEF Parts, PhaseInv, WholeInv, TimerInv, RiskInv, LayoutInv,
               EarlyPcs, TakingDown, Unhooked, Unregistered, Registered, Gone,
               KeepsFirst, KeepsRound, KeepsTeardown, KeepsState, KeepsCommands, KeepsParts, KeepsEntry, Failed, Succeeded, Disabled
    <2>4. PhaseInv'
      BY <2>1, <2>2, <2>3
    <2>5. WholeInv'
      BY <2>1, <2>2, <2>3
    <2>6. TimerInv'
      BY <2>1, <2>2, <2>3
    <2>7. RiskInv'
      BY <2>1, <2>2, <2>3
    <2>8. LayoutInv'
      BY <2>1, <2>2, <2>3
    <2> QED BY <2>4, <2>5, <2>6, <2>7, <2>8
  <1>35. CASE HostStart
    <2>1. UNCHANGED <<s, up, entry, transport, app, tmr, logger, nvs, fw, stored, crcLost, risky, lost>>
      BY <1>35 DEF HostStart
    <2>2. KeepsCommands /\ tmr'.pc = tmr.pc
      BY <2>1, <1>t
    <2>3. wq.host /\ wq'.items = wq.items /\ wq'.host = wq.host /\ wq'.state = "running"
      BY <1>35, <1>a DEF HostStart, WqRec
    <2>4. KeepsFirst /\ KeepsRound /\ KeepsTeardown
      BY <2>3, QueueKept
    <2> USE <1>a, <1>b DEF Parts, PhaseInv, WholeInv, TimerInv, RiskInv, LayoutInv,
               EarlyPcs, TakingDown, Unhooked, Unregistered, Registered, Gone,
               KeepsFirst, KeepsRound, KeepsTeardown, KeepsState, KeepsCommands, KeepsParts, KeepsEntry, Failed, Succeeded, Disabled
    <2>5. PhaseInv'
      BY <2>1, <2>2, <2>3, <2>4
    <2>6. WholeInv'
      BY <2>1, <2>2, <2>3, <2>4
    <2>7. TimerInv'
      BY <2>1, <2>2, <2>3, <2>4
    <2>8. RiskInv'
      BY <2>1, <2>2, <2>3, <2>4
    <2>9. LayoutInv'
      BY <2>1, <2>2, <2>3, <2>4
    <2> QED BY <2>5, <2>6, <2>7, <2>8, <2>9
  <1> QED BY <1>1, <1>2, <1>2a, <1>3, <1>4, <1>5, <1>6, <1>7, <1>8, <1>9, <1>10, <1>11, <1>12, <1>13, <1>14, <1>15, <1>16, <1>17, <1>18, <1>19, <1>20, <1>21, <1>22, <1>23, <1>24, <1>25, <1>26, <1>27, <1>28, <1>29, <1>30, <1>31, <1>31a, <1>32, <1>33, <1>34, <1>35
     DEF AppStep, EnableStep, DisableStep, Worker, TimerTask

LEMMA PartsStart == Init => Parts
  <1> SUFFICES ASSUME Init PROVE Parts
    OBVIOUS
  <1>1. /\ s.lock = "null" /\ s.enabled = FALSE /\ entry.ptr = "null" /\ entry.timer = "none"
        /\ transport.node = "null" /\ wq.state # "running" /\ app.call = "none" /\ app.pc = "idle"
        /\ tmr.pc = "idle"
    BY DEF Init, Fresh
  <1>2. wq.items = <<>> /\ tmr.cmds = <<>>
    BY DEF Init, Fresh
  <1>3. ~FirstQueued /\ ~RoundQueued /\ ~TeardownQueued /\ FirstOnce /\ TeardownOnce
    <2>1. \A j : ~Contains(<<>>, j) /\ OnceIn(<<>>, j)
      BY DEF Contains, OnceIn
    <2> QED BY <1>2, <2>1, Zenon DEF FirstQueued, RoundQueued, TeardownQueued, FirstOnce, TeardownOnce, Queued, Once
  <1>4. NoCommand
    BY <1>2 DEF NoCommand
  <1>5. up = {} /\ logger = "idle" /\ stored = {}
    BY DEF Init
  <1> QED BY <1>1, <1>3, <1>4, <1>5 DEF Parts, PhaseInv, WholeInv, TimerInv, RiskInv, LayoutInv,
             EarlyPcs, TakingDown, Unhooked, Unregistered, Registered, Gone

\* A reset leaves only NVS and the records.
LEMMA PartsReset == ASSUME IInv, Reboot PROVE Parts'
  <1>1. /\ s'.lock = "null" /\ s'.enabled = FALSE /\ entry'.ptr = "null" /\ entry'.timer = "none"
        /\ transport'.node = "null" /\ wq'.state # "running" /\ app'.call = "none" /\ app'.pc = "idle"
        /\ tmr'.pc = "idle"
    BY DEF Reboot, Fresh
  <1>2. wq'.items = <<>> /\ tmr'.cmds = <<>>
    BY DEF Reboot, Fresh
  <1>3. ~FirstQueued' /\ ~RoundQueued' /\ ~TeardownQueued' /\ FirstOnce' /\ TeardownOnce'
    BY <1>2, QueueEmptied
  <1>4. NoCommand'
    BY <1>2 DEF NoCommand
  <1>5. up' = {} /\ logger' = "idle" /\ UNCHANGED <<nvs, stored, crcLost>>
    BY DEF Reboot
  <1>6. LayoutInv
    BY DEF IInv, Parts
  <1> QED BY <1>1, <1>3, <1>4, <1>5, <1>6 DEF Parts, PhaseInv, WholeInv, TimerInv, RiskInv, LayoutInv,
             EarlyPcs, TakingDown, Unhooked, Unregistered, Registered, Gone

LEMMA PartsStutter == ASSUME IInv, UNCHANGED vars PROVE Parts'
  <1>1. UNCHANGED <<s, up, entry, transport, wq, app, tmr, logger, nvs, fw, stored, crcLost, risky, lost>>
    BY DEF vars, memory
  <1> QED BY <1>1, PartsKept DEF IInv

\* Once the timer has been missed only a reset follows.
LEMMA NoTimerNext == IInv /\ [Next]_vars => NoTimerInv'
  <1> SUFFICES ASSUME IInv, [Next]_vars PROVE NoTimerInv'
    OBVIOUS
  <1> USE DEF NoTimerInv
  <1>1. CASE Reboot
    BY <1>1 DEF Reboot
  <1>2. CASE UNCHANGED vars
    BY <1>2 DEF vars, IInv
  <1>3. CASE ~UsesDead /\ SendFailed
    <2>1. s.enabled => s.send_timer # "null"
      BY DEF IInv, Parts, WholeInv
    <2> QED BY <1>3, <2>1 DEF SendFailed
  <1>4. CASE ~UsesDead /\ (AppStep \/ Worker \/ TimerTask \/ Ack \/ LowMem \/ LogCheck \/ LogWrite \/ HostStart)
    <2>1. noTimer = FALSE
      BY <1>4 DEF UsesDead, IInv, Types
    <2>2. noTimer' = noTimer
      <3>1. EnableStep => noTimer' = noTimer
        BY DEF EnableStep, EnableAlloc, EnableEvents, EnableStoreEvents, EnableStore, EnablePart, CheckLayout,
           SaveCrc, EnableHook, EnableTimer, RegisterPeriodic, SetEnabled
      <3>2. DisableStep => noTimer' = noTimer
        BY DEF DisableStep, DisableOff, UnregisterPeriodic, DisableHook, DisableStoreLocks, DisableStore,
           DisablePart, QueueTeardown
      <3>3. AppStep => noTimer' = noTimer
        BY <3>1, <3>2 DEF AppStep, Call, SendData, InitBegin, InitEnd, InitErr, TransportOff
      <3> QED BY <1>4, <3>3 DEF Worker, FirstCall, Round, Teardown, TimerTask, CbRead, CbRestart, Obey,
                 Ack, LowMem, LogCheck, LogWrite, HostStart
    <2> QED BY <2>1, <2>2
  <1> QED BY <1>1, <1>2, <1>3, <1>4 DEF Next

LEMMA IInvStart == Init => IInv
  <1>1. Init => NoTimerInv
    BY DEF Init, NoTimerInv
  <1> QED BY <1>1, TypesStart, PartsStart DEF IInv

LEMMA IInvNext == IInv /\ [Next]_vars => IInv'
  <1> SUFFICES ASSUME IInv, [Next]_vars PROVE IInv'
    OBVIOUS
  <1>1. Types' /\ NoTimerInv'
    BY TypesNext, NoTimerNext DEF IInv
  <1>2. CASE UNCHANGED vars
    BY <1>1, <1>2, PartsStutter DEF IInv
  <1>3. CASE Reboot
    BY <1>1, <1>3, PartsReset DEF IInv
  <1>4. CASE ~UsesDead /\ (AppStep \/ Worker \/ TimerTask \/ Ack \/ SendFailed \/ LowMem \/ LogCheck \/ LogWrite \/ HostStart)
    BY <1>1, <1>4, PartsNext DEF IInv
  <1> QED BY <1>2, <1>3, <1>4 DEF Next

-----------------------------------------------------------------------------
(* Theorems                                                                 *)

\* The inductive invariant holds in every reachable state.
THEOREM LifecycleSafe == Spec => []IInv
  <1> QED BY IInvStart, IInvNext, PTL DEF Spec

\* Every variable keeps its type, the period stays between its limits, the
\* work queue within its length; at most two commands ever wait for the timer
\* task, which its queue has room for.
THEOREM TypesHold == Spec => []TypeOK
  <1>1. ASSUME IInv PROVE TypeOK
    <2>1. Types /\ PhaseInv /\ TimerInv
      BY <1>1 DEF IInv, Parts
    <2>2. s \in SRec /\ entry \in EntryRec /\ transport \in TransportRec /\ app \in AppRec
      BY <2>1 DEF Types
    <2>3. wq.host \in BOOLEAN /\ wq.state \in {"none", "ready", "running"} /\ wq.items \in Seq(Items)
      BY <2>1 DEF Types, WqRec
    <2>4. Len(wq.items) \in 0..QueueCap
      BY <2>1, <2>3, LifecycleAssumption DEF LifecycleAssumption, Types
    <2>5. wq.items \in BoundedSeq(Items, QueueCap)
      BY <2>3, <2>4, ShortSequence
    <2>6. tmr.pc \in {"idle", "pace"} /\ tmr.sent \in BOOLEAN /\ tmr.cmds \in Seq(Commands)
      BY <2>1 DEF Types, TmrRec
    <2>7. NoCommand \/ StartCommand \/ EndCommands
      BY <2>1, Zenon DEF PhaseInv, TimerInv
    <2>8. Len(tmr.cmds) \in 0..4
      <3>1. /\ Len(<<>>) = 0 /\ Len(<<"start">>) = 1 /\ Len(<<"delete">>) = 1
            /\ Len(<<"stop", "delete">>) = 2 /\ Len(<<"start", "delete">>) = 2
        OBVIOUS
      <3>2. Len(tmr.cmds) \in {0, 1, 2}
        BY <2>7, <3>1, Zenon DEF NoCommand, StartCommand, EndCommands
      <3> QED BY <3>2
    <2>9. tmr.cmds \in BoundedSeq(Commands, 4)
      BY <2>6, <2>8, ShortSequence
    <2> QED BY <2>1, <2>2, <2>3, <2>5, <2>6, <2>9, Zenon
            DEF TypeOK, Types, SRec, EntryRec, TransportRec, AppRec, Pcs, Commands
  <1> QED BY <1>1, LifecycleSafe, PTL

\* While enabled is set, everything that a round, a callback or an event
\* handler of esp_insights.c uses exists, and no teardown is queued.
THEOREM EnabledMeansWhole == Spec => []UpMeansWhole
  <1>1. ASSUME IInv PROVE UpMeansWhole
    <2>1. PhaseInv /\ WholeInv
      BY <1>1 DEF IInv, Parts
    <2>2. s.enabled => Registered /\ s.lock = "live" /\ s.scratch = "live" /\ s.read_buf = "live"
                       /\ s.send_timer = "live" /\ ~TeardownQueued
      BY <2>1 DEF PhaseInv, WholeInv
    <2>3. s.enabled => up = AllParts
      <3>1. up \subseteq AllParts
        BY <1>1 DEF IInv, Types
      <3> QED BY <2>1, <3>1 DEF WholeInv, AllParts
    <2>4. Registered => entry.ptr = "live" /\ entry.timer # "deleted"
      BY DEF Registered
    <2> QED BY <2>2, <2>3, <2>4, Zenon DEF UpMeansWhole, TeardownQueued, Queued
  <1> QED BY <1>1, LifecycleSafe, PTL

\* Nothing is used after it is gone, or before it is there, unless disable was
\* called or a round was asked for while Insights was down; the one exception is
\* the timer that the handler of a deleted message asks for, and that only while
\* enable has not come to its end.
THEOREM NothingDeadIsUsed == Spec => []DeadOnlyAfterDisable
  <1>1. ASSUME IInv PROVE DeadOnlyAfterDisable
    <2>0. noTimer => ~s.enabled
      BY <1>1 DEF IInv, NoTimerInv
    <2> SUFFICES ASSUME ~risky, ~noTimer PROVE ~UsesDead
      BY <2>0 DEF DeadOnlyAfterDisable
    <2>1. PhaseInv /\ WholeInv /\ TimerInv /\ RiskInv /\ s.lock \in {"null", "live"}
      BY <1>1 DEF IInv, Parts, Types, SRec
    <2>2. ~Gone /\ (Unregistered \/ Registered)
      BY <2>1, Zenon DEF PhaseInv, RiskInv
    <2>3. /\ Running("first") => FirstQueued
          /\ Running("round") => RoundQueued /\ wq.state = "running"
      <3>1. wq.items # <<>> => Contains(wq.items, Head(wq.items))
        BY <1>1, Shortened DEF IInv, Types, WqRec
      <3> QED BY <3>1, Zenon DEF Running, FirstQueued, RoundQueued, Queued
    <2>4. Running("first") => entry.ptr = "live"
      <3>1. FirstQueued => ~Unregistered
        BY <2>1 DEF TimerInv
      <3> QED BY <2>2, <2>3, <3>1, Zenon DEF Registered
    <2>5. tmr.pc = "pace" => entry.ptr = "live"
      <3>1. tmr.pc = "pace" => ~Unregistered
        BY <2>1 DEF TimerInv
      <3> QED BY <2>2, <3>1, Zenon DEF Registered
    <2>6. s.lock = "null" => up = {} /\ Unregistered /\ ~RoundQueued
      BY <2>1 DEF RiskInv
    <2>7. ~(Running("round") /\ ~HasLock)
      BY <2>1, <2>3, <2>6 DEF HasLock
    <2>8. RoundQueued /\ wq.state = "running" /\ s.enabled =>
            s.scratch = "live" /\ s.read_buf = "live" /\ s.send_timer = "live" /\ "store" \in up /\ transport.node # "freed"
      BY <2>1 DEF WholeInv, RiskInv
    <2>9. entry.timer = "armed" => HasLock
      BY <2>1, <2>6 DEF HasLock, Unregistered
    <2>10. entry.timer # "deleted"
      BY <2>2 DEF Unregistered, Registered
    <2>11. logger = "writing" => "storeLock" \in up
      BY <2>1 DEF PhaseInv, RiskInv, Unhooked
    <2>12. "events" \in up => HasLock
      BY <2>1, <2>6 DEF HasLock
    <2> QED BY <2>3, <2>4, <2>5, <2>7, <2>8, <2>9, <2>10, <2>11, <2>12 DEF UsesDead
  <1> QED BY <1>1, LifecycleSafe, PTL

\* The chain of one-shot timers goes on unless a command found no room.
THEOREM TheChainGoesOn == Spec => []ChainGoesOn
  <1>1. ASSUME IInv PROVE ChainGoesOn
    <2>1. TimerInv /\ tmr.pc \in {"idle", "pace"}
      BY <1>1 DEF IInv, Parts, Types, TmrRec
    <2>2. StartCommand => Contains(tmr.cmds, "start")
      <3>1. Contains(<<"start">>, "start")
        BY DEF Contains
      <3> QED BY <3>1, Zenon DEF StartCommand
    <2>3. s.enabled /\ ~lost /\ ~FirstQueued => entry.timer = "armed" \/ StartCommand \/ tmr.pc = "pace"
      BY <2>1, Zenon DEF TimerInv
    <2>4. tmr.pc = "pace" => tmr.pc # "idle"
      OBVIOUS
    <2> QED BY <2>2, <2>3, <2>4, Zenon DEF ChainGoesOn, FirstQueued, Queued
  <1> QED BY <1>1, LifecycleSafe, PTL

\* While records are collected the store holds only records of the running
\* firmware's layout, unless the layout CRC could not be written.
THEOREM OnlyOwnLayout == Spec => []ForeignOnlyAfterLostCrc
  <1>1. ASSUME IInv PROVE ForeignOnlyAfterLostCrc
    BY <1>1 DEF IInv, Parts, PhaseInv, LayoutInv, Unhooked, ForeignOnlyAfterLostCrc
  <1> QED BY <1>1, LifecycleSafe, PTL

=============================================================================
