--------------------------- MODULE RegistryProofs ---------------------------
(***************************************************************************)
(* Proofs about the tables of metrics and variables, for tables of every   *)
(* size, every set of tags and keys and any number of changes.             *)
(***************************************************************************)
EXTENDS Registry, DocumentsProofs

-----------------------------------------------------------------------------
(* The tables                                                               *)

TableTypes ==
  /\ task \in [pc : {"idle", "count", "clear", "shrink"}, kind : Kinds]
  /\ count \in [Kinds -> Nat]
  /\ DOMAIN slots = Kinds
  /\ \A k \in Kinds : slots[k] \in [1..MaxCount(k) -> Entries \cup {Empty}]

\* While an entry is added to table k, it is written but not counted; while one
\* is taken away, the last place is on its way out.
Adding(k) == task.pc = "count" /\ task.kind = k
Busy(k) == task.pc \in {"clear", "shrink"} /\ task.kind = k
Settled(k) == IF Adding(k) THEN count[k] + 1 ELSE IF Busy(k) THEN count[k] - 1 ELSE count[k]

\* The settled places are filled, the rest is clear but for the one on its way
\* out, and no settled entry is there twice.
Filled(k) == \A i \in 1..MaxCount(k) : i <= Settled(k) => slots[k][i] \in Entries
Cleared(k) ==
  \A i \in 1..MaxCount(k) :
    i > Settled(k) /\ ~(Busy(k) /\ task.pc = "clear" /\ i = count[k]) => slots[k][i] = Empty
Distinct(k) ==
  \A i, j \in 1..MaxCount(k) :
    /\ i <= Settled(k) /\ j <= Settled(k)
    /\ slots[k][i].tag = slots[k][j].tag /\ slots[k][i].key = slots[k][j].key
    => i = j

Sound(k) ==
  /\ count[k] <= MaxCount(k) /\ (Adding(k) => count[k] < MaxCount(k)) /\ (Busy(k) => count[k] > 0)
  /\ Filled(k) /\ Cleared(k) /\ Distinct(k)

TablesInv == TableTypes /\ \A k \in Kinds : Sound(k)

LEMMA Capacity == \A k \in Kinds : MaxCount(k) \in Nat \ {0}
  BY RegistryAssumption DEF RegistryAssumption, MaxCount, Kinds

LEMMA EmptyIsNone == Empty \notin Entries /\ \A e \in Entries : [e EXCEPT !.unit = ""] \in Entries
  BY RegistryAssumption DEF RegistryAssumption, Empty, Entries

LEMMA TablesStart == Init => TablesInv
  <1> SUFFICES ASSUME Init PROVE TablesInv
    OBVIOUS
  <1>1. TableTypes
    BY Capacity DEF Init, TableTypes, NoTable, Kinds
  <1>2. ASSUME NEW k \in Kinds PROVE Sound(k)
    BY <1>2, Capacity DEF Init, Sound, Filled, Cleared, Distinct, Settled, Adding, Busy, NoTable
  <1> QED BY <1>1, <1>2 DEF TablesInv

\* The CRC's view of a cleared entry is that entry.
LEMMA EmptyStays == [Empty EXCEPT !.unit = ""] = Empty
  <1>1. PICK S : S = [tag : {""}, key : {""}, unit : {""}]
    OBVIOUS
  <1>2. Empty \in S
    BY <1>1 DEF Empty
  <1>3. \A e \in S : [e EXCEPT !.unit = ""] \in S
    BY <1>1
  <1>4. ASSUME NEW e \in S PROVE e = Empty
    <2>1. e = [tag |-> e.tag, key |-> e.key, unit |-> e.unit]
      BY <1>1
    <2>2. e.tag = "" /\ e.key = "" /\ e.unit = ""
      BY <1>1
    <2> QED BY <2>1, <2>2 DEF Empty
  <1> QED BY <1>2, <1>3, <1>4

\* A step that leaves table k and the task's work on it as they are.
LEMMA Untouched ==
  ASSUME NEW k \in Kinds, Sound(k), slots'[k] = slots[k], count'[k] = count[k],
         Busy(k)' = Busy(k), Adding(k)' = Adding(k), Busy(k) => task' = task
  PROVE  Sound(k)'
  BY DEF Sound, Filled, Cleared, Distinct, Settled

LEMMA RegisterKeeps ==
  ASSUME TablesInv, NEW k \in Kinds, NEW tag \in Tags, NEW key \in Keys, Register(k, tag, key)
  PROVE  TablesInv'
  <1> DEFINE new == [tag |-> tag, key |-> key, unit |-> ""]
  <1>1. new \in Entries
    BY DEF Entries
  <1>2. /\ task' = [pc |-> "count", kind |-> k] /\ task.pc = "idle"
        /\ count[k] < MaxCount(k) /\ Find(k, tag, key) = {}
        /\ slots' = [slots EXCEPT ![k][count[k] + 1] = new] /\ count' = count
    BY DEF Register, Write
  <1>3. new.tag = tag /\ new.key = key
    OBVIOUS
  <1>m. MaxCount(k) \in Nat
    BY Capacity
  <1>4. count[k] \in Nat /\ MaxCount(k) \in Nat /\ count[k] + 1 \in 1..MaxCount(k)
    <2>1. count[k] \in Nat
      BY DEF TablesInv, TableTypes
    <2>2. count[k] < MaxCount(k)
      BY <1>2
    <2> QED BY <2>1, <2>2, <1>m
  <1> HIDE DEF new
  <1>5. TableTypes'
    BY <1>1, <1>2, <1>4 DEF TablesInv, TableTypes
  <1>6. \A l \in Kinds \ {k} : Sound(l)'
    BY <1>2, Untouched DEF TablesInv, TableTypes, Adding, Busy
  <1>7. /\ slots'[k] = [slots[k] EXCEPT ![count[k] + 1] = new]
        /\ count'[k] = count[k]
    BY <1>2 DEF TablesInv, TableTypes
  <1>8. \A i \in 1..count[k] : ~(slots[k][i].tag = tag /\ slots[k][i].key = key)
    BY <1>2 DEF Find
  <1>s. /\ slots[k] \in [1..MaxCount(k) -> Entries \cup {Empty}]
        /\ Filled(k) /\ Cleared(k) /\ Distinct(k) /\ count[k] <= MaxCount(k)
    BY DEF TablesInv, TableTypes, Sound
  <1>b. ~Busy(k) /\ ~Busy(k)' /\ Settled(k) = count[k] /\ Settled(k)' = count'[k] + 1
    BY <1>2, <1>7 DEF Adding, Busy, Settled
  <1>9. Sound(k)'
    <2>1. Filled(k)'
      BY <1>1, <1>4, <1>7, <1>s, <1>b DEF Filled
    <2>2. Cleared(k)'
      BY <1>1, <1>4, <1>7, <1>s, <1>b DEF Cleared
    <2>3. Distinct(k)'
      BY <1>3, <1>4, <1>7, <1>8, <1>s, <1>b DEF Distinct
    <2> QED BY <2>1, <2>2, <2>3, <1>2, <1>4, <1>7, <1>b DEF Sound
  <1> QED BY <1>5, <1>6, <1>9 DEF TablesInv

LEMMA CountKeeps ==
  ASSUME TablesInv, Count
  PROVE  TablesInv'
  <1>0. PICK k \in Kinds : k = task.kind
    BY DEF TablesInv, TableTypes
  <1>1. /\ task.pc = "count" /\ task' = [task EXCEPT !.pc = "idle"] /\ slots' = slots
        /\ count' = [count EXCEPT ![k] = @ + 1]
    BY <1>0 DEF Count
  <1>2. Adding(k) /\ task.kind = k /\ \A l \in Kinds : ~Busy(l) /\ ~Busy(l)' /\ ~Adding(l)'
    BY <1>0, <1>1 DEF Adding, Busy, TablesInv, TableTypes
  <1>3. count[k] \in Nat /\ count[k] < MaxCount(k) /\ MaxCount(k) \in Nat /\ count'[k] = count[k] + 1
    BY <1>1, <1>2, Capacity DEF TablesInv, TableTypes, Sound
  <1>4. TableTypes'
    <2>1. task' \in [pc : {"idle", "count", "clear", "shrink"}, kind : Kinds]
      BY <1>1 DEF TablesInv, TableTypes
    <2>2. count' \in [Kinds -> Nat]
      BY <1>1, <1>3 DEF TablesInv, TableTypes
    <2> QED BY <1>1, <2>1, <2>2 DEF TablesInv, TableTypes
  <1>e. ASSUME NEW l \in Kinds \ {k} PROVE Adding(l)' = Adding(l) /\ Busy(l)' = Busy(l)
    BY <1>0, <1>1 DEF Adding, Busy, TablesInv, TableTypes
  <1>5. \A l \in Kinds \ {k} : Sound(l)'
    <2> SUFFICES ASSUME NEW l \in Kinds \ {k} PROVE Sound(l)'
      OBVIOUS
    <2>1. slots'[l] = slots[l] /\ count'[l] = count[l] /\ Sound(l) /\ ~Busy(l)
      BY <1>1, <1>2 DEF TablesInv, TableTypes
    <2> QED BY <1>e, <2>1, Untouched
  <1>6. Settled(k) = count[k] + 1 /\ Settled(k)' = count[k] + 1
    BY <1>2, <1>3 DEF Settled
  <1>7. Sound(k)'
    BY <1>1, <1>2, <1>3, <1>6 DEF TablesInv, Sound, Filled, Cleared, Distinct
  <1> QED BY <1>4, <1>5, <1>7 DEF TablesInv

LEMMA AddUnitKeeps ==
  ASSUME TablesInv, NEW k \in Kinds, NEW tag \in Tags, NEW key \in Keys, AddUnit(k, tag, key)
  PROVE  TablesInv'
  <1>1. PICK i \in Find(k, tag, key) : slots' = [slots EXCEPT ![k][i].unit = "unit"]
    BY DEF AddUnit
  <1>2. task' = task /\ task.pc = "idle" /\ count' = count
    BY DEF AddUnit
  <1>3. i \in 1..count[k] /\ i \in 1..MaxCount(k) /\ slots[k][i] \in Entries
    BY <1>2, Capacity DEF Find, TablesInv, TableTypes, Sound, Filled, Settled, Adding, Busy
  <1> DEFINE e == [slots[k][i] EXCEPT !.unit = "unit"]
  <1>4. e \in Entries /\ e.tag = slots[k][i].tag /\ e.key = slots[k][i].key
    BY <1>3 DEF Entries
  <1>5. slots' = [slots EXCEPT ![k][i] = e]
    BY <1>1
  <1> HIDE DEF e
  <1>6. TableTypes'
    BY <1>2, <1>3, <1>4, <1>5 DEF TablesInv, TableTypes
  <1>7. \A l \in Kinds \ {k} : Sound(l)'
    BY <1>2, <1>5, Untouched DEF TablesInv, TableTypes, Adding, Busy
  <1>8. slots'[k] = [slots[k] EXCEPT ![i] = e]
    BY <1>5 DEF TablesInv, TableTypes
  <1>s. /\ slots[k] \in [1..MaxCount(k) -> Entries \cup {Empty}] /\ count[k] \in Nat /\ MaxCount(k) \in Nat
        /\ Filled(k) /\ Cleared(k) /\ Distinct(k) /\ count[k] <= MaxCount(k)
    BY Capacity DEF TablesInv, TableTypes, Sound
  <1>b. ~Busy(k) /\ ~Busy(k)' /\ ~Adding(k)' /\ Settled(k) = count[k] /\ Settled(k)' = count[k] /\ count'[k] = count[k]
    BY <1>2 DEF Adding, Busy, Settled
  <1>9. Sound(k)'
    <2>1. Filled(k)'
      BY <1>3, <1>4, <1>8, <1>s, <1>b DEF Filled
    <2>2. Cleared(k)'
      BY <1>3, <1>8, <1>s, <1>b DEF Cleared
    <2>3. Distinct(k)'
      BY <1>3, <1>4, <1>8, <1>s, <1>b DEF Distinct
    <2> QED BY <2>1, <2>2, <2>3, <1>s, <1>b DEF Sound
  <1> QED BY <1>6, <1>7, <1>9 DEF TablesInv

LEMMA UnregisterKeeps ==
  ASSUME TablesInv, NEW k \in Kinds, NEW tag \in Tags, NEW key \in Keys, Unregister(k, tag, key)
  PROVE  TablesInv'
  <1>1. PICK i \in Find(k, tag, key) : slots' = [slots EXCEPT ![k][i] = slots[k][count[k]]]
    BY DEF Unregister
  <1>2. task' = [pc |-> "clear", kind |-> k] /\ task.pc = "idle" /\ count' = count
    BY DEF Unregister
  <1>3. /\ count[k] \in Nat /\ count[k] \in 1..MaxCount(k) /\ MaxCount(k) \in Nat
        /\ i \in 1..count[k] /\ i \in 1..MaxCount(k) /\ slots[k][count[k]] \in Entries
    BY <1>2, Capacity DEF Find, TablesInv, TableTypes, Sound, Filled, Settled, Adding, Busy
  <1>4. TableTypes'
    BY <1>1, <1>2, <1>3 DEF TablesInv, TableTypes
  <1>5. \A l \in Kinds \ {k} : Sound(l)'
    BY <1>1, <1>2, Untouched DEF TablesInv, TableTypes, Adding, Busy
  <1>6. slots'[k] = [slots[k] EXCEPT ![i] = slots[k][count[k]]]
    BY <1>1 DEF TablesInv, TableTypes
  <1>7. ~Busy(k) /\ Busy(k)' /\ ~Adding(k)' /\ Settled(k) = count[k] /\ Settled(k)' = count[k] - 1
    BY <1>2 DEF Adding, Busy, Settled
  <1>s. /\ slots[k] \in [1..MaxCount(k) -> Entries \cup {Empty}] /\ task'.pc = "clear"
        /\ Filled(k) /\ Cleared(k) /\ Distinct(k) /\ count[k] <= MaxCount(k)
    BY <1>2 DEF TablesInv, TableTypes, Sound
  <1>f. Filled(k)'
    BY <1>3, <1>6, <1>7, <1>s DEF Filled
  <1>8. Cleared(k)'
    BY <1>2, <1>3, <1>6, <1>7, <1>s DEF Cleared
  <1>9. Distinct(k)'
    \* What is now in place a was in place from(a), places apart from each other.
    <2> DEFINE from(a) == IF a = i THEN count[k] ELSE a
    <2>1. ASSUME NEW a \in 1..MaxCount(k), a <= count[k] - 1
          PROVE  /\ slots'[k][a] = slots[k][from(a)]
                 /\ from(a) \in 1..MaxCount(k) /\ from(a) <= count[k]
      BY <1>3, <1>6, <1>s, <2>1
    <2>2. ASSUME NEW a \in 1..MaxCount(k), NEW b \in 1..MaxCount(k), a <= count[k] - 1, b <= count[k] - 1,
                 slots'[k][a].tag = slots'[k][b].tag, slots'[k][a].key = slots'[k][b].key
          PROVE  a = b
      <3>1. from(a) = from(b)
        <4> HIDE DEF from
        <4> QED BY <1>7, <1>s, <2>1, <2>2 DEF Distinct
      <3> QED BY <1>3, <2>2, <3>1
    <2> QED BY <1>7, <2>2 DEF Distinct
  <1>10. Sound(k)'
    BY <1>2, <1>3, <1>7, <1>f, <1>8, <1>9 DEF Sound
  <1> QED BY <1>4, <1>5, <1>10 DEF TablesInv

LEMMA ClearLastKeeps ==
  ASSUME TablesInv, ClearLast
  PROVE  TablesInv'
  <1>0. PICK k \in Kinds : k = task.kind
    BY DEF TablesInv, TableTypes
  <1>1. /\ k \in Kinds /\ task.pc = "clear" /\ task' = [task EXCEPT !.pc = "shrink"] /\ count' = count
        /\ slots' = [slots EXCEPT ![k][count[k]] = Empty]
    BY <1>0 DEF ClearLast
  <1>2. Busy(k) /\ Busy(k)' /\ task'.kind = k /\ task.kind = k /\ task'.pc = "shrink"
    BY <1>0, <1>1 DEF Busy, TablesInv, TableTypes
  <1>3. count[k] \in 1..MaxCount(k) /\ MaxCount(k) \in Nat
    BY <1>1, <1>2, Capacity DEF TablesInv, TableTypes, Sound
  <1>4. TableTypes'
    BY <1>1, <1>3 DEF TablesInv, TableTypes
  <1>5. \A l \in Kinds \ {k} : Sound(l)'
    BY <1>1, <1>2, Untouched DEF TablesInv, TableTypes, Adding, Busy
  <1>6. slots'[k] = [slots[k] EXCEPT ![count[k]] = Empty]
    BY <1>1 DEF TablesInv, TableTypes
  <1>s. /\ slots[k] \in [1..MaxCount(k) -> Entries \cup {Empty}] /\ count[k] <= MaxCount(k)
        /\ Filled(k) /\ Cleared(k) /\ Distinct(k) 
        /\ Settled(k) = count[k] - 1 /\ Settled(k)' = count[k] - 1 /\ ~Adding(k)'
    BY <1>1, <1>2 DEF TablesInv, TableTypes, Sound, Settled, Adding
  <1>f. Filled(k)'
    BY <1>3, <1>6, <1>s DEF Filled
  <1>c. Cleared(k)'
    BY <1>1, <1>2, <1>3, <1>6, <1>s DEF Cleared
  <1>d. Distinct(k)'
    BY <1>3, <1>6, <1>s DEF Distinct
  <1>7. Sound(k)'
    BY <1>1, <1>3, <1>s, <1>f, <1>c, <1>d DEF Sound
  <1> QED BY <1>1, <1>4, <1>5, <1>7 DEF TablesInv

LEMMA ShrinkKeeps ==
  ASSUME TablesInv, Shrink
  PROVE  TablesInv'
  <1>0. PICK k \in Kinds : k = task.kind
    BY DEF TablesInv, TableTypes
  <1>1. /\ k \in Kinds /\ task.pc = "shrink" /\ task' = [task EXCEPT !.pc = "idle"] /\ slots' = slots
        /\ count' = [count EXCEPT ![k] = @ - 1]
    BY <1>0 DEF Shrink
  <1>2. Busy(k) /\ task.kind = k /\ \A l \in Kinds : ~Busy(l)'
    BY <1>0, <1>1 DEF Busy, TablesInv, TableTypes
  <1>3. count[k] \in 1..MaxCount(k) /\ MaxCount(k) \in Nat /\ count'[k] = count[k] - 1
    BY <1>1, <1>2, Capacity DEF TablesInv, TableTypes, Sound
  <1>4. TableTypes'
    <2>1. task \in [pc : {"idle", "count", "clear", "shrink"}, kind : Kinds] /\ task' = [task EXCEPT !.pc = "idle"]
      BY <1>1 DEF TablesInv, TableTypes
    <2>2. task' \in [pc : {"idle", "count", "clear", "shrink"}, kind : Kinds]
      BY <2>1
    <2>3. count' \in [Kinds -> Nat]
      <3>1. count \in [Kinds -> Nat] /\ count[k] - 1 \in Nat
        BY <1>3 DEF TablesInv, TableTypes
      <3> QED BY <1>1, <3>1
    <2> QED BY <1>1, <2>2, <2>3 DEF TablesInv, TableTypes
  <1>5. \A l \in Kinds \ {k} : Sound(l)'
    BY <1>1, <1>2, Untouched DEF TablesInv, TableTypes, Adding, Busy
  <1>s. /\ slots[k] \in [1..MaxCount(k) -> Entries \cup {Empty}] /\ count[k] <= MaxCount(k)
        /\ Filled(k) /\ Cleared(k) /\ Distinct(k) 
        /\ Settled(k) = count[k] - 1 /\ Settled(k)' = count[k] - 1 /\ ~Adding(k)'
    BY <1>1, <1>2, <1>3 DEF TablesInv, TableTypes, Sound, Settled, Adding
  <1>f. Filled(k)'
    BY <1>1, <1>3, <1>s DEF Filled
  <1>c. Cleared(k)'
    BY <1>1, <1>2, <1>3, <1>s DEF Cleared
  <1>d. Distinct(k)'
    BY <1>1, <1>3, <1>s DEF Distinct
  <1>6. Sound(k)'
    BY <1>2, <1>3, <1>s, <1>f, <1>c, <1>d DEF Sound
  <1> QED BY <1>1, <1>4, <1>5, <1>6 DEF TablesInv

LEMMA ClearTableKeeps ==
  ASSUME TablesInv, NEW k \in Kinds, NEW b \in BOOLEAN, ClearTable(k, b)
  PROVE  TablesInv'
  <1>1. /\ task' = task /\ task.pc = "idle"
        /\ slots' = [slots EXCEPT ![k] = NoTable(k)] /\ count' = [count EXCEPT ![k] = 0]
    BY DEF ClearTable
  <1>2. NoTable(k) \in [1..MaxCount(k) -> Entries \cup {Empty}]
    BY DEF NoTable
  <1>3. TableTypes'
    BY <1>1, <1>2 DEF TablesInv, TableTypes
  <1>4. \A l \in Kinds \ {k} : Sound(l)'
    BY <1>1, Untouched DEF TablesInv, TableTypes, Adding, Busy
  <1>5. slots'[k] = NoTable(k) /\ count'[k] = 0
    BY <1>1 DEF TablesInv, TableTypes
  <1>6. Sound(k)'
    BY <1>1, <1>5, Capacity DEF Sound, Filled, Cleared, Distinct, Settled, Adding, Busy, NoTable
  <1> QED BY <1>3, <1>4, <1>6 DEF TablesInv

LEMMA TablesUnchanged == TablesInv /\ UNCHANGED <<task, count, slots>> => TablesInv'
  BY DEF TablesInv, TableTypes, Sound, Filled, Cleared, Distinct, Settled, Adding, Busy

LEMMA TablesNext == TablesInv /\ [Next]_vars => TablesInv'
  <1> SUFFICES ASSUME TablesInv, [Next]_vars PROVE TablesInv'
    OBVIOUS
  <1>1. ASSUME NEW k \in Kinds, InitTable(k) PROVE TablesInv'
    BY <1>1, TablesUnchanged DEF InitTable
  <1>2. ASSUME NEW k \in Kinds, UnregisterAll(k) \/ DeinitTable(k) PROVE TablesInv'
    BY <1>2, ClearTableKeeps DEF UnregisterAll, DeinitTable
  <1>3. ASSUME NEW tag \in Tags, NEW key \in Keys, MetricsStep(tag, key) \/ VariablesStep(tag, key)
        PROVE  TablesInv'
    BY <1>3, RegisterKeeps, UnregisterKeeps, AddUnitKeeps DEF MetricsStep, VariablesStep, Kinds
  <1>4. CASE Count \/ ClearLast \/ Shrink
    BY <1>4, CountKeeps, ClearLastKeeps, ShrinkKeeps
  <1>5. CASE StartRound \/ ReadEntry \/ ReadVariables \/ Compare \/ SendMeta \/ AckMeta
    BY <1>5, TablesUnchanged DEF StartRound, ReadEntry, ReadVariables, Compare, SendMeta, AckMeta, tables
  <1>6. CASE Reboot
    <2>1. TableTypes'
      BY <1>6, Capacity DEF Reboot, TableTypes, NoTable, Kinds
    <2>2. ASSUME NEW k \in Kinds PROVE Sound(k)'
      BY <1>6, <2>2, Capacity DEF Reboot, Sound, Filled, Cleared, Distinct, Settled, Adding, Busy, NoTable
    <2> QED BY <2>1, <2>2 DEF TablesInv
  <1>7. CASE UNCHANGED vars
    BY <1>7, TablesUnchanged DEF vars, tables
  <1> QED BY <1>1, <1>2, <1>3, <1>4, <1>5, <1>6, <1>7 DEF Next, TaskStep

\* Between two calls every counted entry is written, none is there twice, and
\* what is not counted is clear, for tables of any size.
THEOREM TablesAreWhole == Spec => []TablesWhole
  <1>1. TablesInv => TablesWhole
    <2> SUFFICES ASSUME TablesInv, task.pc = "idle", NEW k \in Kinds
                 PROVE  /\ count[k] \in 0..MaxCount(k)
                        /\ \A i \in 1..MaxCount(k) : (slots[k][i] = Empty) = (i > count[k])
                        /\ \A i, j \in 1..count[k] :
                             slots[k][i].tag = slots[k][j].tag /\ slots[k][i].key = slots[k][j].key => i = j
      BY DEF TablesWhole
    <2>1. /\ count[k] \in Nat /\ MaxCount(k) \in Nat /\ count[k] <= MaxCount(k) /\ ~Busy(k) /\ Settled(k) = count[k]
          /\ Filled(k) /\ Cleared(k) /\ Distinct(k)
      BY Capacity DEF TablesInv, TableTypes, Sound, Settled, Adding, Busy
    <2>2. ASSUME NEW i \in 1..MaxCount(k) PROVE (slots[k][i] = Empty) = (i > count[k])
      <3>1. CASE i > count[k]
        BY <2>1, <3>1 DEF Cleared
      <3>2. CASE ~(i > count[k])
        <4>1. slots[k][i] \in Entries
          BY <2>1, <3>2 DEF Filled
        <4>2. slots[k][i] # Empty
          BY <4>1, EmptyIsNone
        <4> QED BY <3>2, <4>2
      <3> QED BY <3>1, <3>2
    <2>3. \A i, j \in 1..count[k] :
            slots[k][i].tag = slots[k][j].tag /\ slots[k][i].key = slots[k][j].key => i = j
      BY <2>1 DEF Distinct
    <2> QED BY <2>1, <2>2, <2>3
  <1> QED BY <1>1, TablesStart, TablesNext, PTL DEF Spec

-----------------------------------------------------------------------------
(* The worker's walk                                                        *)

WorkerRec ==
  [pc : {"idle", "crc", "encode"}, kind : Kinds, len : Nat, null : BOOLEAN,
   read : [Kinds -> Seq(Entries \cup {Empty})]]

\* If nothing was taken away since the round began, no call is under way that
\* takes something away, the walk ends within the counted entries, and what
\* it has read is entries.
Undisturbed ==
  /\ task.pc \in {"idle", "count"}
  /\ worker.len <= count[worker.kind]
  /\ \A k \in Kinds : \A i \in 1..Len(worker.read[k]) : worker.read[k][i] \in Entries

WalkInv ==
  /\ worker \in WorkerRec
  /\ worker.len <= MaxCount(worker.kind)
  /\ ~unrest /\ worker.pc # "idle" => Undisturbed

LEMMA IdleRec == Idle \in WorkerRec /\ Idle.pc = "idle" /\ Idle.len <= MaxCount(Idle.kind)
  BY Capacity DEF Idle, WorkerRec, Kinds

\* What Latch gives for worker w: the entries read of table k are forgotten.
IsLatched(r, w, pc, k) ==
  /\ r \in WorkerRec /\ r.pc = pc /\ r.kind = k
  /\ r.len <= count[k] /\ r.len <= MaxCount(k)
  /\ r.read = [w.read EXCEPT ![k] = <<>>]
  /\ init = Kinds /\ ~w.null => r.len = count[k] /\ ~r.null

LEMMA Latched ==
  ASSUME TablesInv, NEW w \in WorkerRec, NEW pc \in {"crc", "encode"}, NEW k \in Kinds
  PROVE  IsLatched(Latch(w, pc, k), w, pc, k)
  <1>1. PICK null \in BOOLEAN : null = (k \notin init \/ (pc = "encode" /\ k = "variables" /\ w.null))
    OBVIOUS
  <1>2. PICK len \in Nat : len = (IF null THEN 0 ELSE count[k]) /\ len <= count[k] /\ len <= MaxCount(k)
    <2>1. count[k] \in Nat /\ count[k] <= MaxCount(k) /\ MaxCount(k) \in Nat
      BY Capacity DEF TablesInv, TableTypes, Sound
    <2> QED BY <2>1
  <1>3. PICK w1 : w1 = [w EXCEPT !.pc = pc, !.kind = k, !.null = null, !.len = len]
    OBVIOUS
  <1>4. Latch(w, pc, k) = [w1 EXCEPT !.read[k] = <<>>]
    BY <1>1, <1>2, <1>3, Zenon DEF Latch
  <1>5. /\ w1 \in WorkerRec /\ w1.pc = pc /\ w1.kind = k /\ w1.len = len /\ w1.read = w.read
        /\ w1.null = null
    BY <1>1, <1>2, <1>3 DEF WorkerRec
  <1>6. PICK read : read = [w.read EXCEPT ![k] = <<>>]
    OBVIOUS
  <1>7. read \in [Kinds -> Seq(Entries \cup {Empty})]
    <2>1. w.read \in [Kinds -> Seq(Entries \cup {Empty})]
      BY DEF WorkerRec
    <2> QED BY <1>6, <2>1
  <1>8. Latch(w, pc, k) = [w1 EXCEPT !.read = read]
    BY <1>4, <1>5, <1>6
  <1>9. [w1 EXCEPT !.read = read] \in WorkerRec
    BY <1>5, <1>7 DEF WorkerRec
  <1>10. /\ [w1 EXCEPT !.read = read].pc = pc /\ [w1 EXCEPT !.read = read].kind = k
         /\ [w1 EXCEPT !.read = read].len = len /\ [w1 EXCEPT !.read = read].read = read
         /\ [w1 EXCEPT !.read = read].null = null
    BY <1>5 DEF WorkerRec
  <1>11. init = Kinds /\ ~w.null => ~null /\ len = count[k]
    BY <1>1, <1>2
  <1> QED BY <1>2, <1>6, <1>8, <1>9, <1>10, <1>11 DEF IsLatched

\* A function on 1..n is a sequence.
LEMMA SeqDef == ASSUME NEW S, NEW n \in Nat, NEW s \in [1..n -> S] PROVE s \in Seq(S)
  OBVIOUS

LEMMA WalkNext == TablesInv /\ WalkInv /\ [Next]_vars => WalkInv'
  <1> SUFFICES ASSUME TablesInv, WalkInv, [Next]_vars PROVE WalkInv'
    OBVIOUS
  <1>0. /\ worker \in WorkerRec /\ count \in [Kinds -> Nat] /\ "metrics" \in Kinds /\ "variables" \in Kinds
        /\ worker.kind \in Kinds /\ worker.len \in Nat
    BY DEF WalkInv, TablesInv, TableTypes, Kinds, WorkerRec
  <1>1. CASE UNCHANGED worker /\ unrest' = (unrest \/ worker.pc # "idle")
    BY <1>1 DEF WalkInv
  <1>2. CASE /\ UNCHANGED <<worker, unrest>> /\ (task' = task \/ task'.pc \in {"idle", "count"})
             /\ count' = count \/ \E k \in Kinds : count' = [count EXCEPT ![k] = @ + 1]
    <2>1. count'[worker.kind] \in Nat /\ count[worker.kind] \in Nat /\ count[worker.kind] <= count'[worker.kind]
      BY <1>0, <1>2
    <2> QED BY <1>0, <1>2, <2>1 DEF WalkInv, Undisturbed
  <1>3. CASE worker' = Idle
    BY <1>3, IdleRec DEF WalkInv
  <1>4. CASE StartRound
    <2>1. worker' = Latch(Idle, "crc", "metrics") /\ unrest' = (task.pc \in {"clear", "shrink"}) /\ task' = task /\ count' = count
         /\ task.pc \in {"idle", "count", "clear", "shrink"}
      BY <1>4 DEF StartRound, tables, TablesInv, TableTypes
    <2>2. /\ worker' \in WorkerRec /\ worker'.kind = "metrics" /\ worker'.len <= count["metrics"] /\ worker'.len <= MaxCount("metrics")
          /\ worker'.read = [Idle.read EXCEPT !["metrics"] = <<>>]
      <3>1. IsLatched(worker', Idle, "crc", "metrics")
        BY <2>1, <1>0, IdleRec, Latched
      <3> QED BY <3>1 DEF IsLatched
    <2>3. \A k \in Kinds : worker'.read[k] = <<>>
      BY <2>2 DEF Idle, Kinds
    <2>4. worker'.kind \in Kinds /\ worker'.len <= MaxCount(worker'.kind) /\ worker'.len <= count'[worker'.kind]
      BY <2>1, <2>2, <1>0
    <2>5. \A k \in Kinds : \A i \in 1..Len(worker'.read[k]) : worker'.read[k][i] \in Entries
      BY <2>3
    <2> QED BY <2>1, <2>2, <2>4, <2>5 DEF WalkInv, Undisturbed
  <1>5. CASE ReadEntry
    <2>1. PICK k \in Kinds : k = worker.kind
      BY <1>0
    <2>2. PICK n : n = Next1(worker)
      OBVIOUS
    <2>3. PICK seen : seen = IF worker.pc = "crc" THEN [slots[k][n] EXCEPT !.unit = ""] ELSE slots[k][n]
      OBVIOUS
    <2>4. /\ worker' = [worker EXCEPT !.read[k] = Append(@, seen)]
          /\ unrest' = unrest /\ task' = task /\ count' = count
          /\ worker.pc # "idle" /\ n <= worker.len
      BY <1>5, <2>1, <2>2, <2>3 DEF ReadEntry, Walking, tables
    <2>5. /\ worker.read \in [Kinds -> Seq(Entries \cup {Empty})]
          /\ worker.read[k] \in Seq(Entries \cup {Empty}) /\ count[k] \in Nat /\ MaxCount(k) \in Nat
          /\ worker.len <= MaxCount(k)
      BY <1>0, <2>1, Capacity DEF WorkerRec, WalkInv
    <2>6. n \in 1..MaxCount(k)
      BY <1>0, <2>1, <2>2, <2>4, <2>5 DEF Next1
    <2>7. ~unrest => Undisturbed
      BY <2>4 DEF WalkInv
    <2>8. slots[k][n] \in Entries \cup {Empty}
      BY <2>6 DEF TablesInv, TableTypes
    <2>9. seen \in Entries \cup {Empty}
      <3>1. CASE slots[k][n] \in Entries
        BY <2>3, <3>1, EmptyIsNone
      <3>2. CASE slots[k][n] = Empty
        BY <2>3, <3>2, EmptyStays
      <3> QED BY <2>8, <3>1, <3>2
    <2>10. ~unrest => seen \in Entries
      <3>1. ~unrest => n <= Settled(k) /\ Filled(k)
        BY <1>0, <2>1, <2>4, <2>5, <2>6, <2>7 DEF Undisturbed, TablesInv, Sound, Settled, Adding, Busy
      <3>2. ~unrest => slots[k][n] \in Entries
        BY <2>6, <3>1 DEF Filled
      <3> QED BY <2>3, <3>2 DEF Entries
    <2>11. /\ worker'.read = [worker.read EXCEPT ![k] = Append(@, seen)] /\ worker'.pc = worker.pc
           /\ worker'.kind = worker.kind /\ worker'.len = worker.len
           /\ worker'.null = worker.null
           /\ worker' = [pc |-> worker'.pc, kind |-> worker'.kind, len |-> worker'.len, null |-> worker'.null,
                         read |-> worker'.read]
      BY <1>0, <2>4 DEF WorkerRec
    <2>12. Append(worker.read[k], seen) \in Seq(Entries \cup {Empty})
      BY <2>5, <2>9
    <2>13. worker'.read \in [Kinds -> Seq(Entries \cup {Empty})]
      BY <2>5, <2>11, <2>12
    <2>14. worker' \in WorkerRec
      BY <1>0, <2>11, <2>13 DEF WorkerRec
    <2>15. ASSUME ~unrest, NEW t \in Kinds, NEW i \in 1..Len(worker'.read[t]) PROVE worker'.read[t][i] \in Entries
      <3>1. CASE t = k
        <4>1. worker'.read[k] = Append(worker.read[k], seen)
          BY <2>5, <2>11
        <4>2. \A j \in 1..Len(worker.read[k]) : worker.read[k][j] \in Entries
          BY <2>7, <2>15 DEF Undisturbed
        <4> QED BY <2>5, <2>9, <2>10, <2>15, <3>1, <4>1, <4>2
      <3>2. CASE t # k
        <4>1. worker'.read[t] = worker.read[t]
          BY <2>5, <2>11, <3>2
        <4> QED BY <2>7, <2>15, <4>1 DEF Undisturbed
      <3> QED BY <3>1, <3>2
    <2>16. ~unrest => Undisturbed'
      BY <2>4, <2>7, <2>11, <2>15 DEF Undisturbed
    <2> QED BY <2>4, <2>5, <2>1, <2>11, <2>14, <2>16 DEF WalkInv
  <1>6. CASE ReadVariables
    <2>1. worker' = Latch(worker, worker.pc, "variables") /\ UNCHANGED <<unrest, task, count>> /\ worker.pc \in {"crc", "encode"}
      BY <1>6 DEF ReadVariables, Walking, tables
    <2>2. /\ worker' \in WorkerRec /\ worker'.kind = "variables" /\ worker'.len <= count["variables"] /\ worker'.len <= MaxCount("variables")
          /\ worker'.read = [worker.read EXCEPT !["variables"] = <<>>] /\ worker'.pc = worker.pc
      <3>1. PICK w \in WorkerRec : w = worker
        BY <1>0
      <3>2. PICK pc \in {"crc", "encode"} : pc = worker.pc
        BY <2>1
      <3>3. PICK k \in Kinds : k = "variables"
        BY <1>0
      <3>4. worker' = Latch(w, pc, k)
        BY <2>1, <3>1, <3>2, <3>3
      <3>5. IsLatched(Latch(w, pc, k), w, pc, k)
        BY Latched, Zenon
      <3> QED BY <3>1, <3>2, <3>3, <3>4, <3>5, Zenon DEF IsLatched
    <2>3. \A k \in Kinds : worker'.read[k] = worker.read[k] \/ worker'.read[k] = <<>>
      BY <2>2, <1>0 DEF WorkerRec
    <2> QED BY <2>1, <2>2, <2>3 DEF WalkInv, Undisturbed
  <1>7. CASE Compare
    <2>1. worker' = Idle \/ worker' = Latch(worker, "encode", "metrics")
      BY <1>7 DEF Compare
    <2>2. UNCHANGED <<unrest, task, count>> /\ worker.pc # "idle"
      BY <1>7 DEF Compare, WalkedAll, tables
    <2>3. CASE worker' = Latch(worker, "encode", "metrics")
      <3>1. /\ worker' \in WorkerRec /\ worker'.kind = "metrics" /\ worker'.len <= count["metrics"] /\ worker'.len <= MaxCount("metrics")
            /\ worker'.read = [worker.read EXCEPT !["metrics"] = <<>>]
        <4>1. PICK w \in WorkerRec : w = worker
          BY <1>0
        <4>2. PICK e \in {"crc", "encode"}, k \in Kinds : e = "encode" /\ k = "metrics"
          BY <1>0
        <4>3. worker' = Latch(w, e, k)
          BY <2>3, <4>1, <4>2
        <4>4. IsLatched(Latch(w, e, k), w, e, k)
          BY Latched, Zenon
        <4> QED BY <4>1, <4>2, <4>3, <4>4, Zenon DEF IsLatched
      <3>2. \A k \in Kinds : worker'.read[k] = worker.read[k] \/ worker'.read[k] = <<>>
        BY <3>1, <1>0 DEF WorkerRec
      <3> QED BY <2>2, <3>1, <3>2 DEF WalkInv, Undisturbed
    <2> QED BY <2>1, <2>3, <1>3
  <1>8. ASSUME NEW k \in Kinds, InitTable(k) PROVE WalkInv'
    BY <1>8, <1>2 DEF InitTable, Quiet
  <1>9. ASSUME NEW k \in Kinds, UnregisterAll(k) \/ DeinitTable(k) PROVE WalkInv'
    BY <1>9, <1>1 DEF UnregisterAll, DeinitTable, ClearTable, Unsettle, Quiet
  <1>10. ASSUME NEW k \in Kinds, NEW tag \in Tags, NEW key \in Keys,
                Register(k, tag, key) \/ AddUnit(k, tag, key) \/ Unregister(k, tag, key)
         PROVE  WalkInv'
    <2>1. CASE Register(k, tag, key)
      BY <2>1, <1>2 DEF Register, Write, Quiet
    <2>2. CASE AddUnit(k, tag, key)
      BY <2>2, <1>2 DEF AddUnit, Quiet
    <2>3. CASE Unregister(k, tag, key)
      BY <2>3, <1>1 DEF Unregister, Unsettle, Quiet
    <2> QED BY <1>10, <2>1, <2>2, <2>3
  <1>11. CASE Count \/ ClearLast \/ Shrink
    <2>1. CASE Count
      <3>1. task'.pc = "idle" /\ \E k \in Kinds : count' = [count EXCEPT ![k] = @ + 1]
        BY <2>1 DEF Count, TablesInv, TableTypes
      <3> QED BY <2>1, <3>1, <1>2 DEF Count, Quiet
    <2>2. CASE ClearLast \/ Shrink
      BY <2>2, <1>1 DEF ClearLast, Shrink, Unsettle, Quiet
    <2> QED BY <1>11, <2>1, <2>2
  <1>12. CASE SendMeta \/ Reboot
    BY <1>12, <1>3 DEF SendMeta, Reboot
  <1>13. CASE AckMeta \/ UNCHANGED vars
    BY <1>13, <1>2 DEF AckMeta, vars, tables
  <1> QED BY <1>4, <1>5, <1>6, <1>7, <1>8, <1>9, <1>10, <1>11, <1>12, <1>13, <1>0
          DEF Next, TaskStep, MetricsStep, VariablesStep

\* Registering while the worker goes through the tables is safe: it comes upon
\* an empty entry only if one was taken away in the same round.
THEOREM WalksAreSafe == Spec => []WalkIsSafe
  <1>1. WalkInv => WalkIsSafe
    <2> SUFFICES ASSUME WalkInv, ReadsEmpty, ~unrest PROVE FALSE
      BY DEF WalkIsSafe
    <2>1. PICK k \in Kinds : Contains(worker.read[k], Empty)
      BY DEF ReadsEmpty
    <2>2. PICK i \in 1..Len(worker.read[k]) : worker.read[k][i] = Empty
      BY <2>1 DEF Contains
    <2>3. Undisturbed
      BY DEF WalkInv, ReadsEmpty, Walking
    <2> QED BY <2>2, <2>3, EmptyIsNone DEF Undisturbed
  <1>2. Init => WalkInv
    BY IdleRec DEF Init, WalkInv
  <1> QED BY <1>1, <1>2, TablesStart, TablesNext, WalkNext, PTL DEF Spec

-----------------------------------------------------------------------------
(* What the cloud was told                                                  *)

Strings(e) == <<e.tag, e.key>>

\* How far table k is read into the document, if the worker has still to come
\* to it, goes through it or is done with it.
Reach(k) ==
  IF worker.pc # "encode" \/ (k = "variables" /\ worker.kind = "metrics") THEN count[k]
  ELSE IF k = worker.kind THEN worker.len
  ELSE Len(worker.read[k])

\* What is read of table k is still there at the same place, but for its unit.
Faithful(k) ==
  /\ Len(worker.read[k]) <= count[k]
  /\ \A j \in 1..Len(worker.read[k]) : Strings(worker.read[k][j]) = Strings(slots[k][j])

\* An entry of the CRC is read into the document, or will be.
Covered(c) == \E k \in Kinds : \E j \in 1..Reach(k) : c = Strings(slots[k][j])

RoundInv ==
  ~unrest /\ worker.pc # "idle" =>
    /\ init = Kinds /\ ~worker.null
    /\ \A k \in Kinds : Faithful(k)
    /\ worker.pc = "encode" => \A n \in 1..Len(meta_crc) : Covered(meta_crc[n])

\* The entries told include all that a CRC covers.
Told(crc, entries) == \A n \in 1..Len(crc) : \E k \in Kinds : <<k, crc[n][1], crc[n][2]>> \in entries

\* The cloud was told of what the CRC in NVS covers, and of what that of the
\* document awaiting its answer does.
CloudInv ==
  /\ nvs # <<>> /\ ~nvsUnrest /\ ~nvsMoved => Told(nvs[1], cloud.entries)
  /\ pending.on /\ ~pending.unrest => Told(pending.crc, cloud.entries)

\* The CRC of two tables is that of their entries, one after the other.
IsCrc(c, m, v) ==
  /\ Len(c) = Len(m) + Len(v)
  /\ \A i \in 1..Len(m) : c[i] = Strings(m[i])
  /\ \A i \in 1..Len(v) : c[Len(m) + i] = Strings(v[i])

LEMMA CrcParts ==
  ASSUME NEW m \in Seq(Entries \cup {Empty}), NEW v \in Seq(Entries \cup {Empty})
  PROVE  IsCrc(Crc(m, v), m, v)
  <1> DEFINE strings(s) == [i \in 1..Len(s) |-> <<s[i].tag, s[i].key>>]
  <1>1. PICK P : \A e \in Entries \cup {Empty} : Strings(e) \in P
    <2>1. \A e \in Entries \cup {Empty} : Strings(e) \in {Strings(d) : d \in Entries \cup {Empty}}
      OBVIOUS
    <2> QED BY <2>1
  <1>2. ASSUME NEW s \in Seq(Entries \cup {Empty})
        PROVE  /\ strings(s) \in Seq(P) /\ Len(strings(s)) = Len(s)
               /\ \A i \in 1..Len(s) : strings(s)[i] = Strings(s[i])
    <2>1. \A i \in 1..Len(s) : strings(s)[i] = Strings(s[i]) /\ Strings(s[i]) \in P
      BY <1>1 DEF Strings
    <2>2. strings(s) \in [1..Len(s) -> P] /\ Len(s) \in Nat
      <3>1. \A i \in 1..Len(s) : <<s[i].tag, s[i].key>> \in P
        BY <2>1 DEF Strings
      <3> QED BY <3>1
    <2>3. strings(s) \in Seq(P) /\ DOMAIN strings(s) = 1..Len(s)
      <3> HIDE DEF strings
      <3> QED BY <2>2, SeqDef
    <2>4. Len(strings(s)) = Len(s)
      <3> HIDE DEF strings
      <3> QED BY <2>2, <2>3
    <2> HIDE DEF strings
    <2> QED BY <2>1, <2>3, <2>4
  <1>3. Crc(m, v) = strings(m) \o strings(v)
    BY DEF Crc
  <1> HIDE DEF strings
  <1>4. PICK a \in Seq(P), b \in Seq(P) : a = strings(m) /\ b = strings(v)
    BY <1>2
  <1>5. /\ Len(a) = Len(m) /\ Len(b) = Len(v) /\ Crc(m, v) = a \o b
        /\ \A i \in 1..Len(m) : a[i] = Strings(m[i])
        /\ \A i \in 1..Len(v) : b[i] = Strings(v[i])
    BY <1>2, <1>3, <1>4
  <1>6. Len(a \o b) = Len(a) + Len(b) /\ Len(a) \in Nat /\ Len(b) \in Nat
    OBVIOUS
  <1>7. \A i \in 1..Len(a) : (a \o b)[i] = a[i]
    OBVIOUS
  <1>8. \A i \in 1..Len(b) : (a \o b)[Len(a) + i] = b[i]
    OBVIOUS
  <1>9. Len(Crc(m, v)) = Len(m) + Len(v)
    BY <1>5, <1>6
  <1>10. \A i \in 1..Len(m) : Crc(m, v)[i] = Strings(m[i])
    BY <1>5, <1>7
  <1>11. \A i \in 1..Len(v) : Crc(m, v)[Len(m) + i] = Strings(v[i])
    BY <1>5, <1>8
  <1> QED BY <1>9, <1>10, <1>11 DEF IsCrc

\* A step that leaves the worker alone and takes no entry away.
LEMMA RoundKeeps ==
  ASSUME TablesInv, WalkInv, RoundInv, UNCHANGED <<worker, unrest, meta_crc>>, init = Kinds => init' = Kinds,
         \A k \in Kinds : /\ count'[k] \in Nat /\ count[k] <= count'[k]
                          /\ \A j \in 1..count[k] : Strings(slots'[k][j]) = Strings(slots[k][j])
  PROVE  RoundInv'
  <1> SUFFICES ASSUME ~unrest, worker.pc # "idle" PROVE RoundInv'
    BY DEF RoundInv
  <1>1. /\ init = Kinds /\ ~worker.null /\ \A k \in Kinds : Faithful(k)
        /\ worker.pc = "encode" => \A n \in 1..Len(meta_crc) : Covered(meta_crc[n])
    BY DEF RoundInv
  <1>2. /\ worker.kind \in Kinds /\ worker.len \in Nat /\ worker.len <= count[worker.kind]
        /\ \A k \in Kinds : count[k] \in Nat /\ Len(worker.read[k]) \in Nat
    <2>1. worker \in WorkerRec /\ Undisturbed
      BY DEF WalkInv
    <2>2. \A k \in Kinds : worker.read[k] \in Seq(Entries \cup {Empty})
      BY <2>1 DEF WorkerRec
    <2>3. \A k \in Kinds : Len(worker.read[k]) \in Nat
      BY <2>2
    <2> QED BY <2>1, <2>3 DEF WorkerRec, Undisturbed, TablesInv, TableTypes
  <1>3. ASSUME NEW k \in Kinds PROVE Faithful(k)'
    BY <1>1, <1>2 DEF Faithful
  <1>4. ASSUME NEW k \in Kinds
        PROVE  Reach(k) \in Nat /\ Reach(k)' \in Nat /\ Reach(k) <= count[k] /\ Reach(k) <= Reach(k)'
    BY <1>1, <1>2 DEF Reach, Faithful
  <1>5. ASSUME NEW c, Covered(c) PROVE Covered(c)'
    <2>1. PICK k \in Kinds : \E j \in 1..Reach(k) : c = Strings(slots[k][j])
      BY <1>5 DEF Covered
    <2>2. PICK j \in 1..Reach(k) : c = Strings(slots[k][j])
      BY <2>1
    <2>3. j \in 1..count[k] /\ j \in 1..Reach(k)'
      BY <1>2, <1>4
    <2>4. c = Strings(slots'[k][j])
      BY <2>2, <2>3
    <2> QED BY <2>3, <2>4 DEF Covered
  <1> QED BY <1>1, <1>3, <1>5 DEF RoundInv

LEMMA RegisterRound ==
  ASSUME TablesInv, WalkInv, RoundInv, NEW k \in Kinds, NEW tag \in Tags, NEW key \in Keys, Register(k, tag, key)
  PROVE  RoundInv'
  <1>e. PICK e : e = [tag |-> tag, key |-> key, unit |-> ""]
    OBVIOUS
  <1>1. /\ slots' = [slots EXCEPT ![k][count[k] + 1] = e]
        /\ UNCHANGED <<count, worker, unrest, init, meta_crc>>
    BY <1>e DEF Register, Write, Quiet
  <1>2. count \in [Kinds -> Nat] /\ DOMAIN slots = Kinds
    BY DEF TablesInv, TableTypes
  <1>3. ASSUME NEW t \in Kinds
        PROVE  /\ count'[t] \in Nat /\ count[t] <= count'[t]
               /\ \A j \in 1..count[t] : slots'[t][j] = slots[t][j]
    <2>1. CASE t = k
      <3>1. slots'[t] = [slots[t] EXCEPT ![count[t] + 1] = e]
        BY <1>1, <1>2, <2>1
      <3>2. count'[t] = count[t] /\ count[t] \in Nat
        BY <1>1, <1>2, <2>1
      <3>3. \A j \in 1..count[t] : j # count[t] + 1
        BY <3>2
      <3>4. \A j \in 1..count[t] : slots'[t][j] = slots[t][j]
        <4>1. PICK f : f = slots[t]
          OBVIOUS
        <4>2. PICK n \in Nat : n = count[t]
          BY <3>2
        <4>3. \A j \in 1..n : [f EXCEPT ![n + 1] = e][j] = f[j]
          <5>1. f \in [1..MaxCount(t) -> Entries \cup {Empty}] /\ MaxCount(t) \in Nat /\ n <= MaxCount(t)
            BY <4>1, <4>2, Capacity DEF TablesInv, TableTypes, Sound
          <5> QED BY <5>1
        <4> QED BY <3>1, <4>1, <4>2, <4>3
      <3> QED BY <3>2, <3>4
    <2>2. CASE t # k
      <3>1. slots'[t] = slots[t] /\ count'[t] = count[t] /\ count[t] \in Nat
        BY <1>1, <1>2, <2>2
      <3> QED BY <3>1
    <2> QED BY <2>1, <2>2
  <1> QED BY <1>1, <1>3, RoundKeeps

LEMMA AddUnitRound ==
  ASSUME TablesInv, WalkInv, RoundInv, NEW k \in Kinds, NEW tag \in Tags, NEW key \in Keys, AddUnit(k, tag, key)
  PROVE  RoundInv'
  <1>1. PICK i \in Find(k, tag, key) : slots' = [slots EXCEPT ![k][i].unit = "unit"]
    BY DEF AddUnit
  <1>2. UNCHANGED <<count, worker, unrest, init, meta_crc>> /\ task.pc = "idle"
    BY DEF AddUnit, Quiet
  <1>3. count \in [Kinds -> Nat] /\ slots[k] \in [1..MaxCount(k) -> Entries \cup {Empty}] /\ DOMAIN slots = Kinds
    BY DEF TablesInv, TableTypes
  <1>4. i \in 1..count[k] /\ i \in 1..MaxCount(k) /\ slots[k][i] \in Entries
    BY <1>2, Capacity DEF Find, TablesInv, TableTypes, Sound, Filled, Settled, Adding, Busy
  <1> DEFINE e == [slots[k][i] EXCEPT !.unit = "unit"]
  <1>5. Strings(e) = Strings(slots[k][i])
    BY <1>4 DEF Entries, Strings
  <1>6. slots' = [slots EXCEPT ![k][i] = e]
    BY <1>1
  <1> HIDE DEF e
  <1>7. ASSUME NEW t \in Kinds, NEW j \in 1..count[t] PROVE Strings(slots'[t][j]) = Strings(slots[t][j])
    <2>1. CASE t = k
      <3>1. slots'[t] = [slots[k] EXCEPT ![i] = e] /\ slots[t] = slots[k]
        BY <1>3, <1>6, <2>1
      <3>2. j = i => slots'[t][j] = e
        BY <1>3, <1>4, <3>1
      <3>3. j # i => slots'[t][j] = slots[t][j]
        <4>1. j \in 1..MaxCount(k)
          BY <2>1, Capacity DEF TablesInv, TableTypes, Sound
        <4> QED BY <1>3, <3>1, <4>1
      <3> QED BY <1>5, <2>1, <3>2, <3>3
    <2>2. CASE t # k
      <3>1. slots'[t] = slots[t]
        BY <1>3, <1>6, <2>2
      <3> QED BY <3>1
    <2> QED BY <2>1, <2>2
  <1>8. \A t \in Kinds : count'[t] \in Nat /\ count[t] <= count'[t]
    BY <1>2, <1>3
  <1> QED BY <1>2, <1>7, <1>8, RoundKeeps

LEMMA RoundNext == TablesInv /\ WalkInv /\ RoundInv /\ [Next]_vars => RoundInv'
  <1> SUFFICES ASSUME TablesInv, WalkInv, RoundInv, [Next]_vars PROVE RoundInv'
    OBVIOUS
  <1>0. /\ worker \in WorkerRec /\ count \in [Kinds -> Nat] /\ "metrics" \in Kinds /\ "variables" \in Kinds
        /\ worker.kind \in Kinds /\ worker.len \in Nat
        /\ \A k \in Kinds : worker.read[k] \in Seq(Entries \cup {Empty})
    BY DEF WalkInv, TablesInv, TableTypes, Kinds, WorkerRec
  <1>1. CASE unrest' = (unrest \/ worker.pc # "idle") /\ worker' = worker
    BY <1>1 DEF RoundInv
  <1>2. CASE worker' = Idle
    BY <1>2 DEF RoundInv, Idle
  <1>3. CASE UNCHANGED <<worker, unrest, meta_crc, count, slots>> /\ (init = Kinds => init' = Kinds)
    BY <1>0, <1>3, RoundKeeps
  <1>4. CASE StartRound
    <2>1. /\ worker' = Latch(Idle, "crc", "metrics") /\ UNCHANGED <<init, count, slots>> /\ init = Kinds
      BY <1>4 DEF StartRound, tables
    <2>2. IsLatched(worker', Idle, "crc", "metrics")
      BY <2>1, <1>0, IdleRec, Latched
    <2>3. worker'.pc = "crc" /\ ~worker'.null /\ worker'.read = [Idle.read EXCEPT !["metrics"] = <<>>]
      BY <2>1, <2>2 DEF IsLatched, Idle
    <2>4. \A k \in Kinds : worker'.read[k] = <<>>
      BY <2>3 DEF Idle, Kinds
    <2>5. \A k \in Kinds : Faithful(k)'
      BY <1>0, <2>1, <2>4 DEF Faithful
    <2> QED BY <2>1, <2>3, <2>5 DEF RoundInv
  <1>5. CASE ReadEntry
    <2>1. PICK k \in Kinds : k = worker.kind
      BY <1>0
    <2>2. PICK n : n = Next1(worker)
      OBVIOUS
    <2>3. PICK seen : seen = IF worker.pc = "crc" THEN [slots[k][n] EXCEPT !.unit = ""] ELSE slots[k][n]
      OBVIOUS
    <2>4. /\ worker' = [worker EXCEPT !.read[k] = Append(@, seen)]
          /\ UNCHANGED <<init, count, slots, unrest, meta_crc>>
          /\ worker.pc # "idle" /\ n <= worker.len
      BY <1>5, <2>1, <2>2, <2>3 DEF ReadEntry, Walking, tables
    <2>5. /\ worker'.read = [worker.read EXCEPT ![k] = Append(@, seen)] /\ worker'.pc = worker.pc
          /\ worker'.kind = worker.kind /\ worker'.len = worker.len
          /\ worker'.null = worker.null
      BY <1>0, <2>4 DEF WorkerRec
    <2> SUFFICES ASSUME ~unrest PROVE RoundInv'
      BY <2>4 DEF RoundInv
    <2>6. /\ init = Kinds /\ ~worker.null /\ \A t \in Kinds : Faithful(t)
          /\ worker.pc = "encode" => \A i \in 1..Len(meta_crc) : Covered(meta_crc[i])
      BY <2>4 DEF RoundInv
    <2>7. worker.len <= count[k] /\ count[k] \in Nat /\ count[k] <= MaxCount(k) /\ MaxCount(k) \in Nat
      BY <1>0, <2>1, <2>4, Capacity DEF WalkInv, Undisturbed, TablesInv, Sound
    <2>8. n = Len(worker.read[k]) + 1 /\ Len(worker.read[k]) \in Nat /\ n \in 1..count[k] /\ n \in 1..MaxCount(k)
      <3>1. n = Len(worker.read[k]) + 1
        BY <2>1, <2>2 DEF Next1
      <3>2. Len(worker.read[k]) \in Nat
        BY <1>0
      <3> QED BY <1>0, <2>4, <2>7, <3>1, <3>2
    <2>9. Strings(seen) = Strings(slots[k][n])
      <3>1. slots[k][n] \in Entries \cup {Empty}
        BY <2>8 DEF TablesInv, TableTypes
      <3>2. CASE slots[k][n] \in Entries
        BY <2>3, <3>2 DEF Strings, Entries
      <3>3. CASE slots[k][n] = Empty
        BY <2>3, <3>3, EmptyStays
      <3> QED BY <3>1, <3>2, <3>3
    <2>10. seen \in {seen} \cup Entries \cup {Empty}
      OBVIOUS
    <2>11. ASSUME NEW t \in Kinds PROVE Faithful(t)'
      <3>1. CASE t = k
        <4>1. worker'.read[t] = Append(worker.read[t], seen)
          BY <1>0, <2>5, <3>1 DEF WorkerRec
        <4>2. Len(worker'.read[t]) = n /\ worker'.read[t][n] = seen
          BY <1>0, <2>8, <3>1, <4>1
        <4>3. \A j \in 1..n-1 : worker'.read[t][j] = worker.read[t][j]
          BY <1>0, <2>8, <3>1, <4>1
        <4>4. \A j \in 1..n-1 : Strings(worker.read[t][j]) = Strings(slots[t][j])
          BY <2>6, <2>8, <3>1 DEF Faithful
        <4>5. ASSUME NEW j \in 1..n PROVE Strings(worker'.read[t][j]) = Strings(slots[t][j])
          <5>1. j = n \/ j \in 1..n-1
            BY <2>8
          <5> QED BY <2>9, <3>1, <4>2, <4>3, <4>4, <5>1
        <4> QED BY <2>4, <2>8, <3>1, <4>2, <4>5 DEF Faithful
      <3>2. CASE t # k
        <4>1. worker'.read[t] = worker.read[t]
          BY <1>0, <2>5, <3>2 DEF WorkerRec
        <4> QED BY <2>4, <2>6, <4>1 DEF Faithful
      <3> QED BY <3>1, <3>2
    <2>12. ASSUME NEW t \in Kinds PROVE Reach(t)' = Reach(t)
      <3>1. t # k => worker'.read[t] = worker.read[t]
        BY <1>0, <2>5 DEF WorkerRec
      <3> QED BY <2>1, <2>4, <2>5, <3>1 DEF Reach
    <2>13. ASSUME NEW c, Covered(c) PROVE Covered(c)'
      BY <2>4, <2>12, <2>13 DEF Covered
    <2> QED BY <2>4, <2>5, <2>6, <2>11, <2>13 DEF RoundInv
  <1>6. CASE ReadVariables
    <2>1. /\ worker' = Latch(worker, worker.pc, "variables") /\ UNCHANGED <<unrest, meta_crc, init, count, slots>>
          /\ worker.pc \in {"crc", "encode"} /\ worker.kind = "metrics" /\ Next1(worker) > worker.len
      BY <1>6 DEF ReadVariables, Walking, tables
    <2> SUFFICES ASSUME ~unrest PROVE RoundInv'
      BY <2>1 DEF RoundInv
    <2>2. /\ init = Kinds /\ ~worker.null /\ \A t \in Kinds : Faithful(t)
          /\ worker.pc = "encode" => \A i \in 1..Len(meta_crc) : Covered(meta_crc[i])
      BY <2>1 DEF RoundInv
    <2>3. /\ worker'.kind = "variables" /\ worker'.len = count["variables"]
          /\ worker'.read = [worker.read EXCEPT !["variables"] = <<>>] /\ worker'.pc = worker.pc /\ ~worker'.null
      <3>1. PICK w \in WorkerRec : w = worker
        BY <1>0
      <3>2. PICK pc \in {"crc", "encode"} : pc = worker.pc
        BY <2>1
      <3>3. PICK k \in Kinds : k = "variables"
        BY <1>0
      <3>4. worker' = Latch(w, pc, k)
        BY <2>1, <3>1, <3>2, <3>3
      <3>5. IsLatched(Latch(w, pc, k), w, pc, k)
        BY Latched, Zenon
      <3> QED BY <2>2, <3>1, <3>2, <3>3, <3>4, <3>5, Zenon DEF IsLatched
    <2>4. worker'.read["variables"] = <<>> /\ worker'.read["metrics"] = worker.read["metrics"]
      BY <1>0, <2>3 DEF WorkerRec
    <2>5. ASSUME NEW t \in Kinds PROVE Faithful(t)'
      <3>1. CASE t = "variables"
        BY <1>0, <2>1, <2>4, <3>1 DEF Faithful
      <3>2. CASE t = "metrics"
        BY <2>1, <2>2, <2>4, <3>2 DEF Faithful
      <3> QED BY <3>1, <3>2 DEF Kinds
    <2>6. ASSUME worker.pc = "encode", NEW t \in Kinds
          PROVE  Reach(t) \in Nat /\ Reach(t)' \in Nat /\ Reach(t) <= Reach(t)'
      <3>1. CASE t = "variables"
        BY <1>0, <2>1, <2>3, <2>6, <3>1 DEF Reach
      <3>2. CASE t = "metrics"
        <4>1. Reach(t) = worker.len /\ Reach(t)' = Len(worker.read[t])
          BY <2>1, <2>3, <2>4, <2>6, <3>2 DEF Reach
        <4>2. Len(worker.read[t]) \in Nat /\ Len(worker.read[t]) + 1 > worker.len
          BY <1>0, <2>1, <3>2 DEF Next1
        <4> QED BY <1>0, <4>1, <4>2
      <3> QED BY <3>1, <3>2 DEF Kinds
    <2>7. ASSUME worker.pc = "encode", NEW c, Covered(c) PROVE Covered(c)'
      <3>1. PICK k \in Kinds : \E j \in 1..Reach(k) : c = Strings(slots[k][j])
        BY <2>7 DEF Covered
      <3>2. PICK j \in 1..Reach(k) : c = Strings(slots[k][j])
        BY <3>1
      <3>3. j \in 1..Reach(k)'
        BY <2>6, <2>7
      <3> QED BY <2>1, <3>2, <3>3 DEF Covered
    <2> QED BY <2>1, <2>2, <2>3, <2>5, <2>7 DEF RoundInv
  <1>7. CASE Compare
    <2>1. worker' = Idle \/ (worker' = Latch(worker, "encode", "metrics") /\ meta_crc' = CrcRead)
      BY <1>7 DEF Compare
    <2>2. UNCHANGED <<unrest, init, count, slots>> /\ worker.pc # "idle"
      BY <1>7 DEF Compare, WalkedAll, tables
    <2>3. PICK crc : crc = CrcRead
      OBVIOUS
    <2>5. CASE worker' = Latch(worker, "encode", "metrics") /\ meta_crc' = crc /\ ~unrest
      <3>1. init = Kinds /\ ~worker.null /\ \A t \in Kinds : Faithful(t)
        BY <2>2, <2>5 DEF RoundInv
      <3>2. /\ worker'.kind = "metrics" /\ worker'.len = count["metrics"] /\ worker'.pc = "encode" /\ ~worker'.null
            /\ worker'.read = [worker.read EXCEPT !["metrics"] = <<>>]
        <4>1. PICK v \in WorkerRec : v = worker
          BY <1>0
        <4>2. PICK e \in {"crc", "encode"}, k \in Kinds : e = "encode" /\ k = "metrics"
          BY <1>0
        <4>3. worker' = Latch(v, e, k)
          BY <2>5, <4>1, <4>2
        <4>4. IsLatched(Latch(v, e, k), v, e, k)
          BY Latched, Zenon
        <4> QED BY <3>1, <4>1, <4>2, <4>3, <4>4, Zenon DEF IsLatched
      <3>3. worker'.read["metrics"] = <<>> /\ worker'.read["variables"] = worker.read["variables"]
        BY <1>0, <3>2 DEF WorkerRec
      <3>4. ASSUME NEW t \in Kinds PROVE Faithful(t)'
        <4>1. CASE t = "metrics"
          BY <1>0, <2>2, <3>3, <4>1 DEF Faithful
        <4>2. CASE t = "variables"
          BY <2>2, <3>1, <3>3, <4>2 DEF Faithful
        <4> QED BY <4>1, <4>2 DEF Kinds
      <3>5. ASSUME NEW t \in Kinds PROVE Reach(t)' = count[t]
        <4>1. CASE t = "metrics"
          BY <2>2, <3>2, <4>1 DEF Reach
        <4>2. CASE t = "variables"
          BY <2>2, <3>2, <4>2 DEF Reach
        <4> QED BY <4>1, <4>2 DEF Kinds
      <3>6. ASSUME NEW t \in Kinds, NEW j \in 1..Len(worker.read[t]), NEW c, c = Strings(worker.read[t][j])
            PROVE  Covered(c)'
        <4>1. Strings(worker.read[t][j]) = Strings(slots[t][j]) /\ j \in 1..count[t]
          BY <1>0, <3>1, <3>6 DEF Faithful
        <4>2. j \in 1..Reach(t)' /\ c = Strings(slots'[t][j])
          BY <2>2, <3>5, <3>6, <4>1
        <4> QED BY <4>2 DEF Covered
      <3>7. ASSUME NEW n \in 1..Len(crc) PROVE Covered(crc[n])'
        <4>1. PICK m \in Seq(Entries \cup {Empty}), v \in Seq(Entries \cup {Empty}) :
                m = worker.read["metrics"] /\ v = worker.read["variables"]
          BY <1>0
        <4>2. /\ Len(crc) = Len(m) + Len(v)
              /\ \A i \in 1..Len(m) : crc[i] = Strings(m[i])
              /\ \A i \in 1..Len(v) : crc[Len(m) + i] = Strings(v[i])
          <5>1. IsCrc(Crc(m, v), m, v)
            BY CrcParts, Zenon
          <5>2. crc = Crc(m, v)
            BY <2>3, <4>1 DEF CrcRead
          <5>3. IsCrc(crc, m, v)
            BY <5>1, <5>2, Zenon
          <5> QED BY <5>3, Zenon DEF IsCrc
        <4>3. CASE n <= Len(m)
          <5>1. n \in 1..Len(m)
            BY <4>3
          <5>2. crc[n] = Strings(m[n])
            BY <4>2, <5>1
          <5>3. PICK t \in Kinds : m = worker.read[t]
            BY <1>0, <4>1
          <5> QED BY <3>6, <5>1, <5>2, <5>3
        <4>4. CASE n > Len(m)
          <5>1. n - Len(m) \in 1..Len(v) /\ Len(m) + (n - Len(m)) = n
            BY <4>2, <4>4
          <5>2. PICK i \in 1..Len(v) : i = n - Len(m)
            BY <5>1
          <5>3. crc[n] = Strings(v[i])
            BY <4>2, <5>1, <5>2
          <5>4. PICK t \in Kinds : v = worker.read[t]
            BY <1>0, <4>1
          <5> QED BY <3>6, <5>2, <5>3, <5>4
        <4> QED BY <4>1, <4>3, <4>4
      <3>8. ASSUME NEW n \in 1..Len(meta_crc') PROVE Covered(meta_crc[n])'
        BY <2>5, <3>7, <3>8 DEF Covered
      <3> QED BY <2>2, <3>1, <3>2, <3>4, <3>8 DEF RoundInv
    <2>6. CASE unrest
      BY <2>2, <2>6 DEF RoundInv
    <2> QED BY <1>2, <2>1, <2>3, <2>5, <2>6
  <1>8. ASSUME NEW k \in Kinds, InitTable(k) PROVE RoundInv'
    <2>1. UNCHANGED <<worker, unrest, meta_crc, count, slots>> /\ init' = init \cup {k}
      BY <1>8 DEF InitTable, Quiet
    <2>2. init = Kinds => init' = Kinds
      BY <2>1
    <2> QED BY <1>3, <2>1, <2>2
  <1>9. ASSUME NEW k \in Kinds, UnregisterAll(k) \/ DeinitTable(k) PROVE RoundInv'
    BY <1>9, <1>1 DEF UnregisterAll, DeinitTable, ClearTable, Unsettle, Quiet
  <1>10. ASSUME NEW k \in Kinds, NEW tag \in Tags, NEW key \in Keys,
                Register(k, tag, key) \/ AddUnit(k, tag, key) \/ Unregister(k, tag, key)
         PROVE  RoundInv'
    <2>1. CASE Unregister(k, tag, key)
      BY <2>1, <1>1 DEF Unregister, Unsettle, Quiet
    <2> QED BY <1>10, <2>1, RegisterRound, AddUnitRound
  <1>11. CASE Count \/ ClearLast \/ Shrink
    <2>1. CASE Count
      <3>1. /\ count' = [count EXCEPT ![task.kind] = @ + 1] /\ UNCHANGED <<slots, worker, unrest, meta_crc, init>>
            /\ task.kind \in Kinds
        BY <2>1 DEF Count, Quiet, TablesInv, TableTypes
      <3>2. \A k \in Kinds : count'[k] \in Nat /\ count[k] <= count'[k]
        BY <1>0, <3>1
      <3> QED BY <3>1, <3>2, RoundKeeps
    <2>2. CASE ClearLast \/ Shrink
      BY <2>2, <1>1 DEF ClearLast, Shrink, Unsettle, Quiet
    <2> QED BY <1>11, <2>1, <2>2
  <1>12. CASE SendMeta \/ Reboot
    BY <1>12, <1>2 DEF SendMeta, Reboot
  <1>13. CASE AckMeta \/ UNCHANGED vars
    BY <1>13, <1>3 DEF AckMeta, vars, tables
  <1> QED BY <1>4, <1>5, <1>6, <1>7, <1>8, <1>9, <1>10, <1>11, <1>12, <1>13, <1>0
          DEF Next, TaskStep, MetricsStep, VariablesStep

\* The document that the worker has made tells of all that the CRC kept covers.
LEMMA ArrivesTells ==
  ASSUME TablesInv, WalkInv, RoundInv, WalkedAll("encode"), Arrives, ~unrest
  PROVE  Told(meta_crc, cloud'.entries)
  <1>1. PICK m, v : m = worker.read["metrics"] /\ v = worker.read["variables"]
    OBVIOUS
  <1>2. PICK told_ : told_ = {<<"metrics", m[i].tag, m[i].key>> : i \in DOMAIN m} \cup
                             {<<"variables", v[i].tag, v[i].key>> : i \in DOMAIN v}
    OBVIOUS
  <1>3. /\ worker.pc = "encode" /\ Next1(worker) > worker.len /\ worker.kind = "variables"
        /\ told_ \subseteq cloud'.entries
    BY <1>1, <1>2 DEF Arrives, WalkedAll
  <1> SUFFICES ASSUME NEW n \in 1..Len(meta_crc)
               PROVE  \E k \in Kinds : <<k, meta_crc[n][1], meta_crc[n][2]>> \in told_
    BY <1>3 DEF Told
  <1>4. /\ m \in Seq(Entries \cup {Empty}) /\ v \in Seq(Entries \cup {Empty}) /\ worker.len \in Nat
    BY <1>1 DEF WalkInv, WorkerRec, Kinds
  <1>5. Covered(meta_crc[n]) /\ \A k \in Kinds : Faithful(k)
    BY <1>3 DEF RoundInv
  <1>6. PICK k \in Kinds : \E j \in 1..Reach(k) : meta_crc[n] = Strings(slots[k][j])
    BY <1>5 DEF Covered
  <1>7. PICK j \in 1..Reach(k) : meta_crc[n] = Strings(slots[k][j])
    BY <1>6
  <1>8. meta_crc[n][1] = slots[k][j].tag /\ meta_crc[n][2] = slots[k][j].key
    BY <1>7 DEF Strings
  <1>9. CASE k = "metrics"
    <2>1. Reach(k) = Len(m)
      BY <1>1, <1>3, <1>9 DEF Reach
    <2>2. j \in 1..Len(m) /\ j \in DOMAIN m
      BY <1>4, <2>1
    <2>3. Strings(m[j]) = Strings(slots[k][j])
      BY <1>1, <1>5, <1>9, <2>2 DEF Faithful
    <2>4. m[j].tag = meta_crc[n][1] /\ m[j].key = meta_crc[n][2]
      BY <1>8, <2>3 DEF Strings
    <2> QED BY <1>2, <1>9, <2>2, <2>4
  <1>10. CASE k = "variables"
    <2>1. Reach(k) = worker.len /\ Len(v) + 1 > worker.len
      BY <1>1, <1>3, <1>10 DEF Reach, Next1
    <2>2. j \in 1..Len(v) /\ j \in DOMAIN v
      BY <1>4, <2>1
    <2>3. Strings(v[j]) = Strings(slots[k][j])
      BY <1>1, <1>5, <1>10, <2>2 DEF Faithful
    <2>4. v[j].tag = meta_crc[n][1] /\ v[j].key = meta_crc[n][2]
      BY <1>8, <2>3 DEF Strings
    <2> QED BY <1>2, <1>10, <2>2, <2>4
  <1> QED BY <1>9, <1>10 DEF Kinds

LEMMA CloudNext == TablesInv /\ WalkInv /\ RoundInv /\ CloudInv /\ [Next]_vars => CloudInv'
  <1> SUFFICES ASSUME TablesInv, WalkInv, RoundInv, CloudInv, [Next]_vars PROVE CloudInv'
    OBVIOUS
  <1>1. CASE UNCHANGED told
    BY <1>1 DEF CloudInv, told
  <1>2. CASE SendMeta
    <2>1. WalkedAll("encode") /\ (SendFails \/ SendAnswered \/ SendAccepted) /\ meta_crc' = meta_crc
      BY <1>2 DEF SendMeta
    <2>2. Arrives \/ UNCHANGED cloud
      BY <2>1 DEF SendFails, SendAnswered, SendAccepted
    <2>3. cloud.entries \subseteq cloud'.entries
      BY <2>2 DEF Arrives
    <2>4. \A crc : Told(crc, cloud.entries) => Told(crc, cloud'.entries)
      BY <2>3 DEF Told
    <2>5. Arrives /\ ~unrest => Told(meta_crc, cloud'.entries)
      BY <2>1, ArrivesTells
    <2>6. CASE SendFails
      BY <2>4, <2>6 DEF SendFails, CloudInv
    <2>7. CASE SendAnswered
      <3>1. CASE nvs' = <<meta_crc>> /\ nvsUnrest' = unrest
        BY <2>4, <2>5, <2>7, <3>1 DEF SendAnswered, CloudInv
      <3>2. CASE UNCHANGED <<nvs, nvsUnrest, nvsMoved>>
        BY <2>4, <2>7, <3>2 DEF SendAnswered, CloudInv
      <3> QED BY <2>7, <3>1, <3>2 DEF SendAnswered, Store
    <2>8. CASE SendAccepted
      <3>1. CASE Arrives /\ pending' = [on |-> TRUE, crc |-> meta_crc, unrest |-> unrest]
        BY <2>4, <2>5, <2>8, <3>1 DEF SendAccepted, CloudInv
      <3>2. CASE UNCHANGED cloud /\ pending' = NonePending
        BY <2>8, <3>2 DEF SendAccepted, CloudInv, NonePending
      <3> QED BY <2>8, <3>1, <3>2 DEF SendAccepted
    <2> QED BY <2>1, <2>6, <2>7, <2>8
  <1>3. CASE AckMeta
    <2>1. pending' = NonePending /\ cloud' = cloud /\ pending.on
      BY <1>3 DEF AckMeta
    <2>2. CASE nvs' = <<meta_crc>> /\ nvsUnrest' = pending.unrest /\ nvsMoved' = (pending.crc # meta_crc)
      BY <2>1, <2>2 DEF CloudInv, NonePending
    <2>3. CASE UNCHANGED <<nvs, nvsUnrest, nvsMoved>>
      BY <2>1, <2>3 DEF CloudInv, NonePending
    <2> QED BY <1>3, <2>2, <2>3 DEF AckMeta, Store
  <1>4. CASE Reboot
    BY <1>4 DEF Reboot, CloudInv, NonePending
  <1> QED BY <1>1, <1>2, <1>3, <1>4 DEF Next, TaskStep, MetricsStep, VariablesStep, InitTable, UnregisterAll,
             DeinitTable, ClearTable, Register, Unregister, AddUnit, Count, ClearLast, Shrink, StartRound, ReadEntry,
             ReadVariables, Compare, Quiet, vars

\* As long as NVS says that the cloud knows these tables, it was told of every
\* entry of them, whatever was registered while the worker read them, whenever
\* the answer came and however often the device was reset, for tables of any
\* size; but for the two cases the property names.
THEOREM TheCloudKnows == Spec => []CloudKnowsTables
  <1>1. TablesInv /\ CloudInv => CloudKnowsTables
    <2> SUFFICES ASSUME TablesInv, CloudInv, task.pc = "idle", ~nvsUnrest, ~nvsMoved,
                        nvs = <<Crc(Table("metrics"), Table("variables"))>>,
                        NEW k \in Kinds, NEW i \in 1..count[k]
                 PROVE  \E kind \in Kinds : <<kind, slots[k][i].tag, slots[k][i].key>> \in cloud.entries
      BY DEF CloudKnowsTables
    <2>1. ASSUME NEW t \in Kinds
          PROVE  /\ Table(t) \in Seq(Entries \cup {Empty}) /\ Len(Table(t)) = count[t] /\ count[t] \in Nat
                 /\ \A j \in 1..count[t] : Table(t)[j] = slots[t][j]
      <3>1. /\ slots[t] \in [1..MaxCount(t) -> Entries \cup {Empty}] /\ MaxCount(t) \in Nat
            /\ count[t] \in Nat /\ count[t] <= MaxCount(t)
        BY Capacity DEF TablesInv, TableTypes, Sound
      <3>2. PICK s \in Seq(Entries \cup {Empty}) : s = slots[t] /\ Len(s) = MaxCount(t)
        BY <3>1, SeqDef
      <3>3. Table(t) = SubSeq(s, 1, count[t])
        BY <3>2 DEF Table
      <3> QED BY <3>1, <3>2, <3>3
    <2>2. PICK m \in Seq(Entries \cup {Empty}), v \in Seq(Entries \cup {Empty}) :
            m = Table("metrics") /\ v = Table("variables")
      BY <2>1 DEF Kinds
    <2>c. PICK crc : crc = nvs[1] /\ nvs # <<>> /\ crc = Crc(Table("metrics"), Table("variables"))
      OBVIOUS
    <2>3. /\ Len(crc) = Len(m) + Len(v)
          /\ \A j \in 1..Len(m) : crc[j] = Strings(m[j])
          /\ \A j \in 1..Len(v) : crc[Len(m) + j] = Strings(v[j])
      <3>1. IsCrc(Crc(m, v), m, v)
        BY CrcParts, Zenon
      <3>2. crc = Crc(m, v)
        BY <2>2, <2>c
      <3>3. IsCrc(crc, m, v)
        BY <3>1, <3>2, Zenon
      <3> QED BY <3>3, Zenon DEF IsCrc
    <2>4. \E n \in 1..Len(crc) : crc[n] = Strings(slots[k][i])
      <3>1. CASE k = "metrics"
        <4>1. i \in 1..Len(m) /\ m[i] = slots[k][i]
          BY <2>1, <2>2, <3>1
        <4>2. i \in 1..Len(crc)
          BY <2>3, <4>1
        <4> QED BY <2>3, <4>1, <4>2
      <3>2. CASE k = "variables"
        <4>1. i \in 1..Len(v) /\ v[i] = slots[k][i]
          BY <2>1, <2>2, <3>2
        <4>2. Len(m) + i \in 1..Len(crc)
          BY <2>3, <4>1
        <4> QED BY <2>3, <4>1, <4>2
      <3> QED BY <3>1, <3>2 DEF Kinds
    <2>5. PICK n \in 1..Len(crc) : crc[n] = Strings(slots[k][i])
      BY <2>4
    <2>6. crc[n][1] = slots[k][i].tag /\ crc[n][2] = slots[k][i].key
      BY <2>5 DEF Strings
    <2> QED BY <2>5, <2>6, <2>c DEF CloudInv, Told
  <1>2. Init => WalkInv /\ RoundInv /\ CloudInv
    BY IdleRec DEF Init, WalkInv, RoundInv, CloudInv, NonePending
  <1> QED BY <1>1, <1>2, TablesStart, TablesNext, WalkNext, RoundNext, CloudNext, PTL DEF Spec

-----------------------------------------------------------------------------
(* The document that tells the cloud                                        *)

DocumentInv == ~cloud.unrest => cloud.wellFormed

\* If nothing was taken away in this round, no entry was read twice.
LEMMA ReadOnce ==
  ASSUME TablesInv, WalkInv, RoundInv, ~unrest, worker.pc # "idle", NEW k \in Kinds,
         NEW m, m = worker.read[k]
  PROVE  Len(m) \in Nat /\ NoneTwice(m)
  <1>1. /\ m \in Seq(Entries \cup {Empty}) /\ Len(m) \in Nat
        /\ count[k] \in Nat /\ MaxCount(k) \in Nat /\ count[k] <= MaxCount(k)
    <2>1. worker.read \in [Kinds -> Seq(Entries \cup {Empty})]
      BY DEF WalkInv, WorkerRec
    <2>2. m \in Seq(Entries \cup {Empty}) /\ Len(m) \in Nat
      BY <2>1
    <2>3. count \in [Kinds -> Nat] /\ count[k] <= MaxCount(k)
      BY DEF TablesInv, TableTypes, Sound
    <2>4. MaxCount(k) \in Nat
      BY Capacity
    <2> QED BY <2>2, <2>3, <2>4
  <1>2. /\ Len(m) <= count[k]
        /\ \A j \in 1..Len(m) : Strings(m[j]) = Strings(slots[k][j])
    BY DEF RoundInv, Faithful
  <1>3. Settled(k) >= count[k] /\ Distinct(k)
    BY <1>1 DEF WalkInv, Undisturbed, Settled, Adding, Busy, TablesInv, Sound
  <1>4. ASSUME NEW i \in 1..Len(m), NEW j \in 1..Len(m), m[i].tag = m[j].tag, m[i].key = m[j].key
        PROVE  i = j
    <2>1. i \in 1..MaxCount(k) /\ i <= count[k] /\ j \in 1..MaxCount(k) /\ j <= count[k]
      BY <1>1, <1>2
    <2>2. \A n \in 1..Len(m) : m[n].tag = slots[k][n].tag /\ m[n].key = slots[k][n].key
      BY <1>2 DEF Strings
    <2>3. slots[k][i].tag = slots[k][j].tag /\ slots[k][i].key = slots[k][j].key
      BY <1>4, <2>2
    <2>4. i <= Settled(k) /\ j <= Settled(k)
      BY <1>1, <1>3, <2>1 DEF Settled
    <2> QED BY <1>3, <2>1, <2>3, <2>4 DEF Distinct
  <1> QED BY <1>1, <1>4 DEF NoneTwice

LEMMA DocumentNext == TablesInv /\ WalkInv /\ RoundInv /\ DocumentInv /\ [Next]_vars => DocumentInv'
  <1> SUFFICES ASSUME TablesInv, WalkInv, RoundInv, DocumentInv, [Next]_vars PROVE DocumentInv'
    OBVIOUS
  <1>1. CASE UNCHANGED cloud
    BY <1>1 DEF DocumentInv
  <1>2. CASE SendMeta /\ Arrives
    <2>1. PICK m, v : m = worker.read["metrics"] /\ v = worker.read["variables"]
      OBVIOUS
    <2>2. PICK wf : wf = WellFormed(MetaDocument(m, v), "s_meta_encoder")
      OBVIOUS
    <2>3. worker.pc = "encode" /\ cloud'.unrest = unrest /\ cloud'.wellFormed = wf
      BY <1>2, <2>1, <2>2 DEF SendMeta, WalkedAll, Arrives
    <2>4. CASE ~unrest
      <3>1. "metrics" \in Kinds /\ "variables" \in Kinds /\ worker.pc # "idle"
        BY <2>3 DEF Kinds
      <3>2. Len(m) \in Nat /\ NoneTwice(m) /\ Len(v) \in Nat /\ NoneTwice(v)
        BY <2>1, <2>4, <3>1, ReadOnce
      <3>3. wf
        BY <2>2, <3>2, MetaDocumentWellFormed, Zenon
      <3> QED BY <2>3, <3>3 DEF DocumentInv
    <2>5. CASE unrest
      BY <2>3, <2>5 DEF DocumentInv
    <2> QED BY <2>4, <2>5
  <1>3. SendMeta => Arrives \/ UNCHANGED cloud
    BY DEF SendMeta, SendFails, SendAnswered, SendAccepted
  <1> QED BY <1>1, <1>2, <1>3 DEF Next, TaskStep, MetricsStep, VariablesStep, InitTable, UnregisterAll, DeinitTable,
             ClearTable, Register, Unregister, AddUnit, Count, ClearLast, Shrink, StartRound, ReadEntry,
             ReadVariables, Compare, AckMeta, Reboot, Quiet, told, vars

\* The document that tells of the entries is well-formed whatever was registered
\* while the worker read them, for tables of any size.
THEOREM TheDocumentIsWellFormed == Spec => []MetaWellFormed
  <1>1. DocumentInv => MetaWellFormed
    BY DEF DocumentInv, MetaWellFormed
  <1>2. Init => WalkInv /\ RoundInv /\ DocumentInv
    BY IdleRec DEF Init, WalkInv, RoundInv, DocumentInv
  <1> QED BY <1>1, <1>2, TablesStart, TablesNext, WalkNext, RoundNext, DocumentNext, PTL DEF Spec

=============================================================================
