--------------------------- MODULE DocumentsProofs ---------------------------
(***************************************************************************)
(* Proofs about the documents: whatever they are made of, the calls to the *)
(* CBOR encoder yield one complete item.                                   *)
(***************************************************************************)
EXTENDS Documents, TLAPS, WellFoundedInduction

-----------------------------------------------------------------------------
(* Induction over the places of a sequence                                  *)

Below == {r \in Nat \X Nat : r[1] < r[2]}

LEMMA BelowFounded == IsWellFoundedOn(Below, Nat)
  <1>1. OpToRel(<, Nat) = Below
    BY DEF OpToRel, Below
  <1> QED BY <1>1, NatLessThanWellFounded

LEMMA Least ==
  ASSUME NEW T, T \subseteq Nat, T # {}
  PROVE  \E m \in T : \A k \in T : m <= k
  <1>1. PICK m \in T : \A k \in T : <<k, m>> \notin Below
    BY BelowFounded, WFMin, Zenon
  <1>2. \A k \in T : k \in Nat /\ m \in Nat /\ ~(k < m)
    <2> SUFFICES ASSUME NEW k \in T PROVE k \in Nat /\ m \in Nat /\ ~(k < m)
      OBVIOUS
    <2>1. k \in Nat /\ m \in Nat /\ <<k, m>> \notin Below
      BY <1>1
    <2> QED BY <2>1 DEF Below
  <1>3. \A k \in T : m <= k
    BY <1>2
  <1> QED BY <1>3

\* From the end of a sequence to its beginning.
LEMMA FromTheEnd ==
  ASSUME NEW N \in Nat, NEW S,
         \A n \in 0..N : (\A m \in (n+1)..N : m \in S) => n \in S
  PROVE  \A n \in 0..N : n \in S
  <1> SUFFICES ASSUME NEW a \in 0..N, a \notin S PROVE FALSE
    OBVIOUS
  <1> DEFINE T == {N - n : n \in {b \in 0..N : b \notin S}}
  <1>1. T \subseteq Nat /\ T # {}
    OBVIOUS
  <1>2. PICK k \in T : \A t \in T : k <= t
    BY <1>1, Least
  <1>3. PICK n \in 0..N : n \notin S /\ k = N - n
    BY <1>2
  <1>4. PICK m \in (n+1)..N : m \notin S
    BY <1>3
  <1>5. m \in 0..N
    BY <1>4
  <1>6. N - m \in T
    BY <1>4, <1>5
  <1>7. k <= N - m
    BY <1>2, <1>6
  <1> QED BY <1>3, <1>4, <1>7

\* From the beginning to the end.
LEMMA ToTheEnd ==
  ASSUME NEW N \in Nat, NEW S, 0 \in S,
         \A n \in 0..N : n # N /\ n \in S => n + 1 \in S
  PROVE  \A n \in 0..N : n \in S
  <1> SUFFICES ASSUME NEW a \in 0..N, a \notin S PROVE FALSE
    OBVIOUS
  <1> DEFINE T == {b \in 0..N : b \notin S}
  <1>1. T \subseteq Nat /\ T # {}
    OBVIOUS
  <1>2. PICK k \in T : \A t \in T : k <= t
    BY <1>1, Least
  <1>3. k \in 0..N /\ k \notin S /\ k # 0
    BY <1>2
  <1>4. k - 1 \in 0..N /\ k - 1 # N
    BY <1>3
  <1>5. k - 1 \in S
    <2> SUFFICES ASSUME k - 1 \notin S PROVE FALSE
      OBVIOUS
    <2>1. k - 1 \in T
      BY <1>4
    <2>2. k <= k - 1
      BY <1>2, <2>1
    <2> QED BY <1>3, <2>2
  <1>6. k - 1 + 1 \in S
    BY <1>4, <1>5
  <1> QED BY <1>3, <1>6

-----------------------------------------------------------------------------
(* Calls, and the stacks they lead from and to                              *)

IsSeq(s) == \E S : s \in Seq(S)

\* The calls lead from stack s to stack t.
Runs(calls, s, t) ==
  /\ IsSeq(calls)
  /\ \E a : /\ a[0] = s /\ a[Len(calls)] = t
            /\ \A i \in 1..Len(calls) : a[i] = Step(a[i - 1], calls[i])

LEMMA Concatenated ==
  ASSUME NEW c, IsSeq(c), NEW d, IsSeq(d)
  PROVE  /\ IsSeq(c \o d) /\ Len(c) \in Nat /\ Len(d) \in Nat
         /\ Len(c \o d) = Len(c) + Len(d)
         /\ \A i \in 1..Len(c) : (c \o d)[i] = c[i]
         /\ \A i \in 1..Len(d) : (c \o d)[Len(c) + i] = d[i]
  <1>1. PICK C : c \in Seq(C)
    BY DEF IsSeq
  <1>2. PICK D : d \in Seq(D)
    BY DEF IsSeq
  <1>3. c \in Seq(C \cup D) /\ d \in Seq(C \cup D)
    BY <1>1, <1>2
  <1>4. c \o d \in Seq(C \cup D)
    BY <1>3
  <1> QED BY <1>3, <1>4 DEF IsSeq

LEMMA RunsNothing ==
  ASSUME NEW s
  PROVE  Runs(<<>>, s, s)
  <1>1. IsSeq(<<>>) /\ Len(<<>>) = 0
    BY DEF IsSeq
  <1> DEFINE a == [i \in {0} |-> s]
  <1>2. a[0] = s /\ a[Len(<<>>)] = s /\ \A i \in 1..Len(<<>>) : a[i] = Step(a[i - 1], <<>>[i])
    BY <1>1
  <1> HIDE DEF a
  <1> QED BY <1>1, <1>2 DEF Runs

LEMMA RunsOne ==
  ASSUME NEW c, NEW s
  PROVE  Runs(<<c>>, s, Step(s, c))
  <1>1. IsSeq(<<c>>) /\ Len(<<c>>) = 1 /\ <<c>>[1] = c
    <2>1. <<c>> \in Seq({c})
      OBVIOUS
    <2> QED BY <2>1 DEF IsSeq
  <1> DEFINE a == [i \in {0, 1} |-> IF i = 0 THEN s ELSE Step(s, c)]
  <1>2. a[0] = s /\ a[1] = Step(s, c)
    OBVIOUS
  <1>3. \A i \in 1..1 : a[i] = Step(a[i - 1], <<c>>[i])
    BY <1>1, <1>2
  <1> HIDE DEF a
  <1> QED BY <1>1, <1>2, <1>3 DEF Runs

LEMMA RunsThen ==
  ASSUME NEW c, NEW d, NEW s, NEW t, NEW u, Runs(c, s, t), Runs(d, t, u)
  PROVE  Runs(c \o d, s, u)
  <1>1. IsSeq(c) /\ IsSeq(d)
    BY DEF Runs
  <1>2. /\ IsSeq(c \o d) /\ Len(c) \in Nat /\ Len(d) \in Nat
        /\ Len(c \o d) = Len(c) + Len(d)
        /\ \A i \in 1..Len(c) : (c \o d)[i] = c[i]
        /\ \A i \in 1..Len(d) : (c \o d)[Len(c) + i] = d[i]
    BY <1>1, Concatenated
  <1>3. PICK a : a[0] = s /\ a[Len(c)] = t /\ \A i \in 1..Len(c) : a[i] = Step(a[i - 1], c[i])
    BY DEF Runs
  <1>4. PICK b : b[0] = t /\ b[Len(d)] = u /\ \A i \in 1..Len(d) : b[i] = Step(b[i - 1], d[i])
    BY DEF Runs
  <1> DEFINE e == [i \in 0..Len(c) + Len(d) |-> IF i <= Len(c) THEN a[i] ELSE b[i - Len(c)]]
  <1>5. e[0] = s /\ e[Len(c \o d)] = u
    BY <1>2, <1>3, <1>4
  <1>6. ASSUME NEW i \in 1..Len(c \o d) PROVE e[i] = Step(e[i - 1], (c \o d)[i])
    <2>1. CASE i <= Len(c)
      <3>1. e[i] = a[i] /\ e[i - 1] = a[i - 1] /\ i \in 1..Len(c)
        BY <1>2, <2>1
      <3>2. a[i] = Step(a[i - 1], c[i]) /\ (c \o d)[i] = c[i]
        BY <1>2, <1>3, <3>1
      <3> HIDE DEF e
      <3> QED BY <3>1, <3>2
    <2>2. CASE i > Len(c)
      <3>1. PICK j \in 1..Len(d) : i = Len(c) + j
        <4>1. i - Len(c) \in 1..Len(d) /\ i = Len(c) + (i - Len(c))
          BY <1>2, <2>2
        <4> QED BY <4>1
      <3>2. e[i] = b[j]
        BY <1>2, <3>1
      <3>3. e[i - 1] = b[j - 1]
        BY <1>2, <1>3, <1>4, <3>1
      <3>4. b[j] = Step(b[j - 1], d[j]) /\ (c \o d)[i] = d[j]
        BY <1>2, <1>4, <3>1
      <3> HIDE DEF e
      <3> QED BY <3>2, <3>3, <3>4
    <2> QED BY <1>2, <2>1, <2>2
  <1> HIDE DEF e
  <1> QED BY <1>2, <1>5, <1>6 DEF Runs

\* Where the calls lead decides whether they are well-formed.
LEMMA RunsWellFormed ==
  ASSUME NEW calls, NEW root, NEW t, Runs(calls, <<Level(root, "array")>>, t),
         Len(t) = 1, t[1].n = 1
  PROVE  WellFormed(calls, root)
  <1> DEFINE N == Len(calls)
             s == <<Level(root, "array")>>
             after == CHOOSE f : f = [i \in 0..N |-> IF i = 0 THEN s ELSE Step(f[i - 1], calls[i])]
  <1>1. N \in Nat
    BY DEF Runs, IsSeq
  <1>2. PICK a : a[0] = s /\ a[N] = t /\ \A i \in 1..N : a[i] = Step(a[i - 1], calls[i])
    BY DEF Runs
  <1> HIDE DEF s
  <1>3. \E f : f = [i \in 0..N |-> IF i = 0 THEN s ELSE Step(f[i - 1], calls[i])]
    <2> DEFINE f == [i \in 0..N |-> a[i]]
    <2>1. f = [i \in 0..N |-> IF i = 0 THEN s ELSE Step(f[i - 1], calls[i])]
      <3>1. ASSUME NEW i \in 0..N PROVE f[i] = IF i = 0 THEN s ELSE Step(f[i - 1], calls[i])
        <4>1. CASE i = 0
          BY <1>2, <4>1
        <4>2. CASE i # 0
          <5>1. i \in 1..N /\ i - 1 \in 0..N
            BY <1>1, <4>2
          <5> QED BY <1>2, <4>2, <5>1
        <4> QED BY <4>1, <4>2
      <3> QED BY <3>1
    <2> HIDE DEF f
    <2> QED BY <2>1
  <1>4. after = [i \in 0..N |-> IF i = 0 THEN s ELSE Step(after[i - 1], calls[i])]
    <2> HIDE DEF N
    <2> QED BY <1>3, Zenon
  <1>5. WellFormed(calls, root) <=> Len(after[N]) = 1 /\ after[N][1].n = 1
    BY DEF WellFormed, s
  <1> HIDE DEF after
  <1> DEFINE S == {i \in 0..N : after[i] = a[i]}
  <1>6. 0 \in S
    BY <1>1, <1>2, <1>4
  <1>7. ASSUME NEW i \in 0..N, i # N, i \in S PROVE i + 1 \in S
    <2>1. i + 1 \in 1..N /\ i + 1 \in 0..N /\ i + 1 # 0 /\ i + 1 - 1 = i
      BY <1>1, <1>7
    <2>2. after[i + 1] = Step(after[i], calls[i + 1])
      BY <1>4, <2>1
    <2>3. a[i + 1] = Step(a[i], calls[i + 1])
      BY <1>2, <2>1
    <2> QED BY <1>7, <2>1, <2>2, <2>3
  <1>8. \A i \in 0..N : i \in S
    <2> HIDE DEF S, N
    <2> QED BY <1>1, <1>6, <1>7, ToTheEnd
  <1>9. after[N] = t
    BY <1>1, <1>2, <1>8
  <1> QED BY <1>5, <1>9

-----------------------------------------------------------------------------
(* What single calls do to the encoder in use                               *)

Top(r, enc, kind, n, keys) == Append(r, [enc |-> enc, kind |-> kind, n |-> n, keys |-> keys])
OnMap(r, enc, n, keys) == Top(r, enc, "map", n, keys)
OnArray(r, enc, n) == Top(r, enc, "array", n, {})
Even == {n \in Nat : n % 2 = 0}
Odd == {n \in Nat : n % 2 # 0}

LEMMA Pushed ==
  ASSUME NEW r, IsSeq(r), NEW x
  PROVE  /\ IsSeq(Append(r, x)) /\ Append(r, x) # <<>>
         /\ Last(Append(r, x)) = x /\ Front(Append(r, x)) = r
         /\ Len(r) \in Nat /\ Len(Append(r, x)) = Len(r) + 1
         /\ \A i \in 1..Len(r) : Append(r, x)[i] = r[i]
  <1>1. PICK R : r \in Seq(R)
    BY DEF IsSeq
  <1>2. r \in Seq(R \cup {x}) /\ x \in R \cup {x}
    BY <1>1
  <1>3. Append(r, x) \in Seq(R \cup {x})
    BY <1>2
  <1>4. Last(Append(r, x)) = x
    BY <1>2 DEF Last
  <1>5. Front(Append(r, x)) = r
    BY <1>2 DEF Front
  <1> QED BY <1>2, <1>3, <1>4, <1>5 DEF IsSeq

LEMMA TopOf ==
  ASSUME NEW r, IsSeq(r), NEW enc, NEW kind, NEW n, NEW keys
  PROVE  /\ IsSeq(Top(r, enc, kind, n, keys)) /\ Top(r, enc, kind, n, keys) # <<>>
         /\ Front(Top(r, enc, kind, n, keys)) = r
         /\ Last(Top(r, enc, kind, n, keys)).enc = enc
         /\ Last(Top(r, enc, kind, n, keys)).kind = kind
         /\ Last(Top(r, enc, kind, n, keys)).n = n
         /\ Last(Top(r, enc, kind, n, keys)).keys = keys
         /\ Len(r) \in Nat /\ Len(Top(r, enc, kind, n, keys)) = Len(r) + 1
         /\ \A i \in 1..Len(r) : Top(r, enc, kind, n, keys)[i] = r[i]
  <1>1. PICK x : x = [enc |-> enc, kind |-> kind, n |-> n, keys |-> keys]
    OBVIOUS
  <1>2. Top(r, enc, kind, n, keys) = Append(r, x)
    BY <1>1 DEF Top
  <1>3. x.enc = enc /\ x.kind = kind /\ x.n = n /\ x.keys = keys
    BY <1>1
  <1> QED BY <1>2, <1>3, Pushed

\* More items on the level in use.
LEMMA ItemsOnTop ==
  ASSUME NEW r, IsSeq(r), NEW enc, NEW kind, NEW n, NEW keys, NEW m, NEW more, more \cap keys = {}
  PROVE  Items(Top(r, enc, kind, n, keys), m, more) = Top(r, enc, kind, n + m, keys \cup more)
  <1>1. PICK s : s = Top(r, enc, kind, n, keys)
    OBVIOUS
  <1>2. /\ Front(s) = r /\ Last(s).enc = enc /\ Last(s).kind = kind
        /\ Last(s).n = n /\ Last(s).keys = keys
    BY <1>1, TopOf
  <1>3. Items(s, m, more) = Append(Front(s), [enc |-> Last(s).enc, kind |-> Last(s).kind,
                                              n |-> Last(s).n + m, keys |-> Last(s).keys \cup more])
    BY <1>2 DEF Items
  <1> QED BY <1>1, <1>2, <1>3 DEF Top

LEMMA KeyRuns ==
  ASSUME NEW r, IsSeq(r), NEW enc, NEW n \in Even, NEW keys, NEW k, k \notin keys
  PROVE  Runs(Key(enc, k), OnMap(r, enc, n, keys), OnMap(r, enc, n + 1, keys \cup {k}))
  <1>1. PICK s : s = OnMap(r, enc, n, keys)
    OBVIOUS
  <1>2. PICK c : c = [op |-> "key", in |-> enc, key |-> k]
    OBVIOUS
  <1>3. s # <<>> /\ Last(s).enc = enc /\ Last(s).kind = "map" /\ Last(s).n = n
    BY <1>1, TopOf DEF OnMap
  <1>4. KeyNext(Last(s))
    BY <1>3 DEF KeyNext, Even
  <1>5. c.op = "key" /\ c.in = enc /\ c.key = k
    BY <1>2
  <1>6. Step(s, c) = Items(s, 1, {c.key})
    BY <1>3, <1>4, <1>5 DEF Step, Broken
  <1>7. {k} \cap keys = {}
    OBVIOUS
  <1>8. Items(s, 1, {k}) = OnMap(r, enc, n + 1, keys \cup {k})
    BY <1>1, <1>7, ItemsOnTop DEF OnMap
  <1>9. Runs(<<c>>, s, Step(s, c))
    BY RunsOne
  <1> QED BY <1>1, <1>2, <1>5, <1>6, <1>8, <1>9 DEF Key

LEMMA PairRuns ==
  ASSUME NEW r, IsSeq(r), NEW enc, NEW n \in Even, NEW keys, NEW k, k \notin keys, NEW v
  PROVE  Runs(Pair(enc, k, v), OnMap(r, enc, n, keys), OnMap(r, enc, n + 2, keys \cup {k}))
  <1>1. PICK s : s = OnMap(r, enc, n, keys)
    OBVIOUS
  <1>2. PICK c : c = [op |-> "pair", in |-> enc, key |-> k, val |-> v]
    OBVIOUS
  <1>3. s # <<>> /\ Last(s).enc = enc /\ Last(s).kind = "map" /\ Last(s).n = n
    BY <1>1, TopOf DEF OnMap
  <1>4. KeyNext(Last(s))
    BY <1>3 DEF KeyNext, Even
  <1>5. c.op = "pair" /\ c.in = enc /\ c.key = k
    BY <1>2
  <1>6. Step(s, c) = Items(s, 2, {c.key})
    BY <1>3, <1>4, <1>5 DEF Step, Broken
  <1>7. {k} \cap keys = {}
    OBVIOUS
  <1>8. Items(s, 2, {k}) = OnMap(r, enc, n + 2, keys \cup {k})
    BY <1>1, <1>7, ItemsOnTop DEF OnMap
  <1>9. Runs(<<c>>, s, Step(s, c))
    BY RunsOne
  <1> QED BY <1>1, <1>2, <1>5, <1>6, <1>8, <1>9 DEF Pair

LEMMA PutRuns ==
  ASSUME NEW r, IsSeq(r), NEW enc, NEW n \in Nat, NEW v
  PROVE  Runs(Put(enc, v), OnArray(r, enc, n), OnArray(r, enc, n + 1))
  <1>1. PICK s : s = OnArray(r, enc, n)
    OBVIOUS
  <1>2. PICK c : c = [op |-> "put", in |-> enc, val |-> v]
    OBVIOUS
  <1>3. s # <<>> /\ Last(s).enc = enc /\ Last(s).kind = "array"
    BY <1>1, TopOf DEF OnArray
  <1>4. ~KeyNext(Last(s))
    BY <1>3 DEF KeyNext
  <1>5. c.op = "put" /\ c.in = enc
    BY <1>2
  <1>6. Step(s, c) = Items(s, 1, {})
    BY <1>3, <1>4, <1>5 DEF Step, Broken
  <1>7. Items(s, 1, {}) = OnArray(r, enc, n + 1)
    <2>1. PICK keys : keys = {}
      OBVIOUS
    <2>2. PICK kind : kind = "array"
      OBVIOUS
    <2>3. keys \cap keys = {} /\ keys \cup keys = keys
      BY <2>1
    <2>4. Items(Top(r, enc, kind, n, keys), 1, keys) = Top(r, enc, kind, n + 1, keys)
      BY <2>3, ItemsOnTop
    <2> QED BY <1>1, <2>1, <2>2, <2>4 DEF OnArray
  <1>8. Runs(<<c>>, s, Step(s, c))
    BY RunsOne
  <1> QED BY <1>1, <1>2, <1>6, <1>7, <1>8 DEF Put

\* A container is opened where a value may stand.
LEMMA OpenRuns ==
  ASSUME NEW r, IsSeq(r), NEW in, NEW held \in {"map", "array"}, NEW n \in Nat, NEW keys,
         held = "map" => n \in Odd, NEW enc, NEW kind
  PROVE  Runs(Open(in, enc, kind), Top(r, in, held, n, keys),
              Top(Top(r, in, held, n + 1, keys), enc, kind, 0, {}))
  <1>1. PICK s : s = Top(r, in, held, n, keys)
    OBVIOUS
  <1>2. PICK c : c = [op |-> "open", in |-> in, enc |-> enc, kind |-> kind]
    OBVIOUS
  <1>3. s # <<>> /\ Last(s).enc = in /\ Last(s).kind = held /\ Last(s).n = n
    BY <1>1, TopOf
  <1>4. ~KeyNext(Last(s))
    BY <1>3 DEF KeyNext, Odd
  <1>5. c.op = "open" /\ c.in = in /\ c.enc = enc /\ c.kind = kind
    BY <1>2
  <1>6. Step(s, c) = Append(Items(s, 1, {}), Level(c.enc, c.kind))
    BY <1>3, <1>4, <1>5 DEF Step, Broken
  <1>7. Items(s, 1, {}) = Top(r, in, held, n + 1, keys)
    BY <1>1, ItemsOnTop
  <1>8. Step(s, c) = Top(Top(r, in, held, n + 1, keys), enc, kind, 0, {})
    BY <1>5, <1>6, <1>7 DEF Level, Top
  <1>9. Runs(<<c>>, s, Step(s, c))
    BY RunsOne
  <1> QED BY <1>1, <1>2, <1>8, <1>9 DEF Open

\* It is closed when it is the one in use, within the one it was opened in.
LEMMA CloseRuns ==
  ASSUME NEW r, IsSeq(r), NEW in, NEW held, NEW m, NEW held_keys,
         NEW enc, NEW kind, NEW n \in Nat, kind = "map" => n \in Even, NEW keys
  PROVE  Runs(Close(in, enc), Top(Top(r, in, held, m, held_keys), enc, kind, n, keys),
              Top(r, in, held, m, held_keys))
  <1>1. PICK q : q = Top(r, in, held, m, held_keys)
    OBVIOUS
  <1>2. PICK s : s = Top(q, enc, kind, n, keys)
    OBVIOUS
  <1>3. PICK c : c = [op |-> "close", in |-> in, enc |-> enc]
    OBVIOUS
  <1>4. IsSeq(q) /\ Len(r) \in Nat /\ Len(q) = Len(r) + 1 /\ Last(q).enc = in
    BY <1>1, TopOf
  <1>5. /\ s # <<>> /\ Last(s).enc = enc /\ Last(s).kind = kind /\ Last(s).n = n
        /\ Len(s) = Len(q) + 1 /\ Front(s) = q
        /\ \A i \in 1..Len(q) : s[i] = q[i]
    BY <1>2, <1>4, TopOf
  <1>6. Len(s) > 1 /\ s[Len(s) - 1].enc = in
    BY <1>4, <1>5 DEF Last
  <1>7. Last(s).kind = "map" => KeyNext(Last(s))
    BY <1>5 DEF KeyNext, Even
  <1>8. c.op = "close" /\ c.in = in /\ c.enc = enc
    BY <1>3
  <1>9. Step(s, c) = Front(s)
    BY <1>5, <1>6, <1>7, <1>8 DEF Step, Broken
  <1>10. Runs(<<c>>, s, Step(s, c))
    BY RunsOne
  <1> QED BY <1>1, <1>2, <1>3, <1>5, <1>9, <1>10 DEF Close

-----------------------------------------------------------------------------
(* What a sequence of calls does to a map or an array                       *)

\* The calls put pairs with these keys into a map of this encoder, whatever
\* other keys it has, and leave it the one in use.
Fills(calls, enc, ks) ==
  \A r, keys : \A n \in Even : IsSeq(r) /\ keys \cap ks = {} =>
    \E m \in Even : Runs(calls, OnMap(r, enc, n, keys), OnMap(r, enc, m, keys \cup ks))

\* The calls put values into an array of this encoder.
Lists(calls, enc) ==
  \A r : \A n \in Nat : IsSeq(r) =>
    \E m \in Nat : Runs(calls, OnArray(r, enc, n), OnArray(r, enc, m))

LEMMA FillsIsSeq ==
  ASSUME NEW c, NEW enc, NEW ks, Fills(c, enc, ks)
  PROVE  IsSeq(c)
  <1>1. 0 \in Even /\ {} \cap ks = {}
    BY DEF Even
  <1>2. IsSeq(<<>>)
    <2>1. <<>> \in Seq({})
      OBVIOUS
    <2> QED BY <2>1 DEF IsSeq
  <1>3. \E m \in Even : Runs(c, OnMap(<<>>, enc, 0, {}), OnMap(<<>>, enc, m, {} \cup ks))
    BY <1>1, <1>2 DEF Fills
  <1> QED BY <1>3 DEF Runs

LEMMA Associates ==
  ASSUME NEW a, IsSeq(a), NEW b, IsSeq(b), NEW c, IsSeq(c)
  PROVE  (a \o b) \o c = a \o (b \o c)
  <1>1. PICK A : a \in Seq(A)
    BY DEF IsSeq
  <1>2. PICK B : b \in Seq(B)
    BY DEF IsSeq
  <1>3. PICK C : c \in Seq(C)
    BY DEF IsSeq
  <1>4. a \in Seq(A \cup B \cup C) /\ b \in Seq(A \cup B \cup C) /\ c \in Seq(A \cup B \cup C)
    BY <1>1, <1>2, <1>3
  <1> QED BY <1>4

LEMMA FillsNothing ==
  ASSUME NEW enc
  PROVE  Fills(<<>>, enc, {})
  <1> SUFFICES ASSUME NEW r, NEW keys, NEW n \in Even, IsSeq(r)
               PROVE  \E m \in Even : Runs(<<>>, OnMap(r, enc, n, keys), OnMap(r, enc, m, keys \cup {}))
    BY DEF Fills
  <1>1. keys \cup {} = keys
    OBVIOUS
  <1>2. Runs(<<>>, OnMap(r, enc, n, keys), OnMap(r, enc, n, keys))
    BY RunsNothing
  <1> QED BY <1>1, <1>2

LEMMA ListsNothing ==
  ASSUME NEW enc
  PROVE  Lists(<<>>, enc)
  BY RunsNothing DEF Lists

LEMMA FillsThen ==
  ASSUME NEW enc, NEW c, NEW ks, Fills(c, enc, ks), NEW d, NEW js, Fills(d, enc, js), ks \cap js = {}
  PROVE  Fills(c \o d, enc, ks \cup js)
  <1> SUFFICES ASSUME NEW r, NEW keys, NEW n \in Even, IsSeq(r), keys \cap (ks \cup js) = {}
               PROVE  \E m \in Even : Runs(c \o d, OnMap(r, enc, n, keys), OnMap(r, enc, m, keys \cup (ks \cup js)))
    BY DEF Fills
  <1>1. keys \cap ks = {} /\ (keys \cup ks) \cap js = {} /\ (keys \cup ks) \cup js = keys \cup (ks \cup js)
    OBVIOUS
  <1>2. PICK l \in Even : Runs(c, OnMap(r, enc, n, keys), OnMap(r, enc, l, keys \cup ks))
    BY <1>1 DEF Fills
  <1>3. PICK m \in Even : Runs(d, OnMap(r, enc, l, keys \cup ks), OnMap(r, enc, m, (keys \cup ks) \cup js))
    BY <1>1 DEF Fills
  <1> QED BY <1>1, <1>2, <1>3, RunsThen

LEMMA ListsThen ==
  ASSUME NEW enc, NEW c, Lists(c, enc), NEW d, Lists(d, enc)
  PROVE  Lists(c \o d, enc)
  <1> SUFFICES ASSUME NEW r, NEW n \in Nat, IsSeq(r)
               PROVE  \E m \in Nat : Runs(c \o d, OnArray(r, enc, n), OnArray(r, enc, m))
    BY DEF Lists
  <1>1. PICK l \in Nat : Runs(c, OnArray(r, enc, n), OnArray(r, enc, l))
    BY DEF Lists
  <1>2. PICK m \in Nat : Runs(d, OnArray(r, enc, l), OnArray(r, enc, m))
    BY DEF Lists
  <1> QED BY <1>1, <1>2, RunsThen

LEMMA PairFills ==
  ASSUME NEW enc, NEW k, NEW v
  PROVE  Fills(Pair(enc, k, v), enc, {k})
  <1> SUFFICES ASSUME NEW r, NEW keys, NEW n \in Even, IsSeq(r), keys \cap {k} = {}
               PROVE  \E m \in Even : Runs(Pair(enc, k, v), OnMap(r, enc, n, keys), OnMap(r, enc, m, keys \cup {k}))
    BY DEF Fills
  <1>1. k \notin keys
    OBVIOUS
  <1>2. n + 2 \in Even
    BY DEF Even
  <1> QED BY <1>1, <1>2, PairRuns

LEMMA PutLists ==
  ASSUME NEW enc, NEW v
  PROVE  Lists(Put(enc, v), enc)
  <1> SUFFICES ASSUME NEW r, NEW n \in Nat, IsSeq(r)
               PROVE  \E m \in Nat : Runs(Put(enc, v), OnArray(r, enc, n), OnArray(r, enc, m))
    BY DEF Lists
  <1>1. n + 1 \in Nat
    OBVIOUS
  <1> QED BY <1>1, PutRuns

\* A container is one value, whatever is put into it.
LEMMA BodyRuns ==
  ASSUME NEW enc, NEW kind, NEW body, NEW s, IsSeq(s),
         \/ kind = "map" /\ \E ks : Fills(body, enc, ks)
         \/ kind = "array" /\ Lists(body, enc)
  PROVE  \E n, keys : /\ n \in Nat /\ (kind = "map" => n \in Even)
                      /\ Runs(body, Top(s, enc, kind, 0, {}), Top(s, enc, kind, n, keys))
  <1>1. CASE kind = "map" /\ \E ks : Fills(body, enc, ks)
    <2>1. PICK ks : Fills(body, enc, ks)
      BY <1>1
    <2>2. 0 \in Even /\ {} \cap ks = {} /\ Even \subseteq Nat
      BY DEF Even
    <2>3. PICK n \in Even : Runs(body, OnMap(s, enc, 0, {}), OnMap(s, enc, n, {} \cup ks))
      BY <2>1, <2>2 DEF Fills
    <2>4. Runs(body, Top(s, enc, kind, 0, {}), Top(s, enc, kind, n, {} \cup ks))
      BY <1>1, <2>3, Zenon DEF OnMap
    <2> QED BY <2>2, <2>4
  <1>2. CASE kind = "array" /\ Lists(body, enc)
    <2>1. PICK n \in Nat : Runs(body, OnArray(s, enc, 0), OnArray(s, enc, n))
      BY <1>2 DEF Lists
    <2>2. Runs(body, Top(s, enc, kind, 0, {}), Top(s, enc, kind, n, {}))
      BY <1>2, <2>1, Zenon DEF OnArray
    <2>3. kind # "map"
      BY <1>2
    <2> QED BY <2>2, <2>3
  <1> QED BY <1>1, <1>2

LEMMA ContainerFills ==
  ASSUME NEW in, NEW key, NEW enc, NEW kind, NEW body,
         \/ kind = "map" /\ \E ks : Fills(body, enc, ks)
         \/ kind = "array" /\ Lists(body, enc)
  PROVE  Fills(Container(in, key, enc, kind, body), in, {key})
  <1> SUFFICES ASSUME NEW r, NEW keys, NEW n \in Even, IsSeq(r), keys \cap {key} = {}
               PROVE  \E m \in Even : Runs(Container(in, key, enc, kind, body), OnMap(r, in, n, keys),
                                           OnMap(r, in, m, keys \cup {key}))
    BY DEF Fills
  <1>1. key \notin keys /\ n + 1 \in Odd /\ n + 1 \in Nat /\ n + 2 \in Even /\ n + 1 + 1 = n + 2
    BY DEF Even, Odd
  <1>2. PICK s : s = OnMap(r, in, n + 2, keys \cup {key})
    OBVIOUS
  <1>3. IsSeq(s)
    BY <1>2, TopOf DEF OnMap
  <1>4. PICK l, ks : l \in Nat /\ (kind = "map" => l \in Even) /\ Runs(body, Top(s, enc, kind, 0, {}), Top(s, enc, kind, l, ks))
    BY <1>3, BodyRuns
  <1>5. Runs(Key(in, key), OnMap(r, in, n, keys), OnMap(r, in, n + 1, keys \cup {key}))
    BY <1>1, KeyRuns
  <1>6. Runs(Open(in, enc, kind), OnMap(r, in, n + 1, keys \cup {key}), Top(s, enc, kind, 0, {}))
    BY <1>1, <1>2, OpenRuns DEF OnMap
  <1>7. Runs(Close(in, enc), Top(s, enc, kind, l, ks), s)
    BY <1>2, <1>4, CloseRuns DEF OnMap
  <1>8. Runs(Key(in, key) \o Open(in, enc, kind), OnMap(r, in, n, keys), Top(s, enc, kind, 0, {}))
    BY <1>5, <1>6, RunsThen
  <1>9. Runs(Key(in, key) \o Open(in, enc, kind) \o body, OnMap(r, in, n, keys), Top(s, enc, kind, l, ks))
    BY <1>4, <1>8, RunsThen
  <1>10. Runs(Key(in, key) \o Open(in, enc, kind) \o body \o Close(in, enc), OnMap(r, in, n, keys), s)
    BY <1>7, <1>9, RunsThen
  <1> QED BY <1>1, <1>2, <1>10 DEF Container

LEMMA ElementLists ==
  ASSUME NEW in, NEW enc, NEW body, NEW ks, Fills(body, enc, ks)
  PROVE  Lists(Element(in, enc, body), in)
  <1> SUFFICES ASSUME NEW r, NEW n \in Nat, IsSeq(r)
               PROVE  \E m \in Nat : Runs(Element(in, enc, body), OnArray(r, in, n), OnArray(r, in, m))
    BY DEF Lists
  <1>1. PICK s : s = OnArray(r, in, n + 1)
    OBVIOUS
  <1>2. IsSeq(s)
    BY <1>1, TopOf DEF OnArray
  <1>3. PICK l, js : l \in Nat /\ l \in Even /\ Runs(body, Top(s, enc, "map", 0, {}), Top(s, enc, "map", l, js))
    BY <1>2, BodyRuns, Zenon
  <1>4. Runs(Open(in, enc, "map"), OnArray(r, in, n), Top(s, enc, "map", 0, {}))
    BY <1>1, OpenRuns DEF OnArray
  <1>5. Runs(Close(in, enc), Top(s, enc, "map", l, js), s)
    BY <1>1, <1>3, CloseRuns, Zenon DEF OnArray
  <1>6. Runs(Open(in, enc, "map") \o body, OnArray(r, in, n), Top(s, enc, "map", l, js))
    BY <1>3, <1>4, RunsThen, Zenon
  <1>7. Runs(Open(in, enc, "map") \o body \o Close(in, enc), OnArray(r, in, n), s)
    BY <1>5, <1>6, RunsThen, Zenon
  <1>8. n + 1 \in Nat
    OBVIOUS
  <1> QED BY <1>1, <1>7, <1>8 DEF Element

-----------------------------------------------------------------------------
(* Sequences of calls put together                                          *)

Flat(seqs, f) == f = [i \in 1..Len(seqs) |-> IF i = 1 THEN seqs[i] ELSE f[i - 1] \o seqs[i]]

LEMMA FlattenDefined ==
  ASSUME NEW seqs, Len(seqs) \in Nat
  PROVE  \E f : Flat(seqs, f)
  <1> DEFINE N == Len(seqs)
             Follows(g, i) == g[i] = IF i = 1 THEN seqs[i] ELSE g[i - 1] \o seqs[i]
             S == {n \in 0..N : \E g : \A i \in 1..n : Follows(g, i)}
  <1>1. 0 \in S
    OBVIOUS
  <1>2. ASSUME NEW n \in 0..N, n # N, n \in S PROVE n + 1 \in S
    <2>1. PICK g : \A i \in 1..n : Follows(g, i)
      BY <1>2
    <2> DEFINE h == [i \in 1..n + 1 |-> IF i = n + 1 THEN (IF i = 1 THEN seqs[i] ELSE g[i - 1] \o seqs[i]) ELSE g[i]]
    <2>2. ASSUME NEW i \in 1..n + 1 PROVE Follows(h, i)
      <3>1. CASE i = n + 1
        <4>1. i # 1 => h[i - 1] = g[i - 1]
          BY <3>1
        <4> QED BY <3>1, <4>1
      <3>2. CASE i # n + 1
        <4>1. i \in 1..n /\ h[i] = g[i] /\ (i # 1 => h[i - 1] = g[i - 1])
          BY <3>2
        <4> QED BY <2>1, <4>1
      <3> QED BY <3>1, <3>2
    <2> HIDE DEF h
    <2>3. \E x : \A i \in 1..n + 1 : Follows(x, i)
      BY <2>2
    <2>4. n + 1 \in 0..N
      BY <1>2
    <2> QED BY <2>3, <2>4
  <1>3. N \in S
    <2> HIDE DEF S
    <2>1. \A n \in 0..N : n \in S
      BY <1>1, <1>2, ToTheEnd
    <2> QED BY <2>1
  <1>4. PICK g : \A i \in 1..N : Follows(g, i)
    BY <1>3
  <1> DEFINE f == [i \in 1..N |-> g[i]]
  <1>5. Flat(seqs, f)
    BY <1>4 DEF Flat
  <1> QED BY <1>5

LEMMA FlattenFlat ==
  ASSUME NEW seqs, Len(seqs) \in Nat, Len(seqs) # 0
  PROVE  \E f : Flat(seqs, f) /\ FlattenSeq(seqs) = f[Len(seqs)]
  <1> DEFINE f == CHOOSE g : g = [i \in 1..Len(seqs) |-> IF i = 1 THEN seqs[i] ELSE g[i - 1] \o seqs[i]]
  <1>1. PICK g : g = [i \in 1..Len(seqs) |-> IF i = 1 THEN seqs[i] ELSE g[i - 1] \o seqs[i]]
    BY FlattenDefined DEF Flat
  <1>2. f = [i \in 1..Len(seqs) |-> IF i = 1 THEN seqs[i] ELSE f[i - 1] \o seqs[i]]
    BY <1>1, Zenon
  <1>3. FlattenSeq(seqs) = f[Len(seqs)]
    BY DEF FlattenSeq
  <1> HIDE DEF f
  <1> QED BY <1>2, <1>3 DEF Flat

\* What is left of a sequence's members put together, after each of them.
LEMMA FlattenRest ==
  ASSUME NEW seqs, IsSeq(seqs), \A i \in 1..Len(seqs) : IsSeq(seqs[i])
  PROVE  \E R : /\ R[0] = FlattenSeq(seqs)
                /\ \A k \in 0..Len(seqs) : IsSeq(R[k])
                /\ \A k \in 0..Len(seqs) : k # Len(seqs) => R[k] = seqs[k + 1] \o R[k + 1]
  <1>1. Len(seqs) \in Nat /\ (Len(seqs) = 0 => seqs = <<>>) /\ IsSeq(<<>>)
    BY DEF IsSeq
  <1>2. CASE Len(seqs) = 0
    <2> DEFINE R == [k \in {0} |-> <<>>]
    <2>1. FlattenSeq(seqs) = <<>>
      BY <1>1, <1>2 DEF FlattenSeq
    <2>2. R[0] = <<>> /\ \A k \in 0..Len(seqs) : k = 0
      BY <1>2
    <2> HIDE DEF R
    <2> QED BY <1>1, <1>2, <2>1, <2>2
  <1>3. CASE Len(seqs) # 0
    <2>1. PICK f : Flat(seqs, f) /\ FlattenSeq(seqs) = f[Len(seqs)]
      BY <1>1, <1>3, FlattenFlat
    <2>2. \A i \in 1..Len(seqs) : f[i] = IF i = 1 THEN seqs[i] ELSE f[i - 1] \o seqs[i]
      BY <2>1 DEF Flat
    <2> DEFINE Rest(R, n) == /\ n # 0 => R[0] = f[n] /\ R[n] = <<>>
                             /\ \A k \in 0..n : IsSeq(R[k])
                             /\ \A k \in 0..n : k # n => R[k] = seqs[k + 1] \o R[k + 1]
               S == {n \in 0..Len(seqs) : n # 0 => \E R : Rest(R, n)}
    <2>3. 0 \in S
      BY <1>1
    <2>4. ASSUME NEW n \in 0..Len(seqs), n # Len(seqs), n \in S PROVE n + 1 \in S
      <3>1. PICK m \in 1..Len(seqs) : m = n + 1 /\ m - 1 = n /\ IsSeq(seqs[m])
        BY <1>1, <2>4
      <3>2. CASE n = 0
        <4> DEFINE Q == [k \in 0..1 |-> IF k = 0 THEN seqs[1] ELSE <<>>]
        <4>1. m = 1 /\ f[1] = seqs[1] /\ IsSeq(seqs[1])
          BY <2>2, <3>1, <3>2
        <4>2. seqs[1] \o <<>> = seqs[1]
          BY <4>1 DEF IsSeq
        <4>3. Q[0] = seqs[1] /\ Q[1] = <<>>
          OBVIOUS
        <4> HIDE DEF Q
        <4>4. \A k \in 0..1 : IsSeq(Q[k])
          <5>1. \A k \in 0..1 : k = 0 \/ k = 1
            OBVIOUS
          <5> QED BY <1>1, <4>1, <4>3, <5>1
        <4>5. \A k \in 0..1 : k # 1 => Q[k] = seqs[k + 1] \o Q[k + 1]
          <5>1. \A k \in 0..1 : k # 1 => k = 0 /\ k + 1 = 1
            OBVIOUS
          <5> QED BY <4>2, <4>3, <5>1
        <4>6. Rest(Q, 1)
          BY <4>1, <4>3, <4>4, <4>5
        <4> HIDE DEF Rest
        <4>7. \E R : Rest(R, m)
          BY <4>1, <4>6
        <4> QED BY <3>1, <4>7
      <3>3. CASE n # 0
        <4>1. PICK R : Rest(R, n)
          BY <2>4, <3>3
        <4>2. f[m] = f[n] \o seqs[m]
          <5>1. m # 1
            BY <3>1, <3>3
          <5> QED BY <2>2, <3>1, <5>1, Zenon
        <4> DEFINE Q == [k \in 0..m |-> IF k = m THEN <<>> ELSE R[k] \o seqs[m]]
        <4>3. ASSUME NEW k \in 0..n PROVE Q[k] = R[k] \o seqs[m] /\ IsSeq(R[k])
          <5>1. k # m /\ k \in 0..m
            BY <3>1, <2>4
          <5>2. IsSeq(R[k])
            BY <4>1
          <5> QED BY <5>1, <5>2
        <4>t. R[0] = f[n] /\ R[n] = <<>>
          BY <3>3, <4>1
        <4>0. 0 \in 0..n /\ n \in 0..n
          BY <2>4
        <4>4. Q[m] = <<>> /\ Q[0] = f[m]
          <5>1. m \in 0..m
            BY <3>1
          <5>2. Q[m] = <<>>
            BY <5>1
          <5>3. Q[0] = R[0] \o seqs[m]
            BY <4>0, <4>3
          <5> HIDE DEF Q
          <5> QED BY <4>2, <4>t, <5>2, <5>3
        <4> HIDE DEF Q
        <4>5. ASSUME NEW k \in 0..m PROVE IsSeq(Q[k])
          <5>1. CASE k = m
            BY <1>1, <4>4, <5>1
          <5>2. CASE k # m
            <6>1. k \in 0..n
              BY <3>1, <5>2
            <6>2. Q[k] = R[k] \o seqs[m] /\ IsSeq(R[k])
              BY <4>3, <6>1
            <6> QED BY <3>1, <6>2, Concatenated
          <5> QED BY <5>1, <5>2
        <4>6. ASSUME NEW k \in 0..m, k # m PROVE Q[k] = seqs[k + 1] \o Q[k + 1]
          <5>1. k \in 0..n
            BY <3>1, <4>6
          <5>2. CASE k = n
            <6>1. Q[k] = <<>> \o seqs[m] /\ Q[k + 1] = <<>> /\ k + 1 = m
              BY <3>1, <4>0, <4>3, <4>4, <4>t, <5>2
            <6>2. <<>> \o seqs[m] = seqs[m] /\ seqs[m] \o <<>> = seqs[m]
              BY <3>1 DEF IsSeq
            <6> QED BY <6>1, <6>2
          <5>3. CASE k # n
            <6>1. k + 1 \in 0..n /\ k + 1 \in 1..Len(seqs)
              BY <3>1, <5>1, <5>3
            <6>2. R[k] = seqs[k + 1] \o R[k + 1]
              BY <4>1, <5>1, <5>3
            <6>3. IsSeq(seqs[k + 1]) /\ IsSeq(R[k + 1]) /\ IsSeq(seqs[m])
              BY <3>1, <4>3, <6>1
            <6>4. Q[k] = (seqs[k + 1] \o R[k + 1]) \o seqs[m] /\ Q[k + 1] = R[k + 1] \o seqs[m]
              BY <4>3, <5>1, <6>1, <6>2
            <6>5. PICK a, b, c : a = seqs[k + 1] /\ b = R[k + 1] /\ c = seqs[m]
              OBVIOUS
            <6>6. IsSeq(a) /\ IsSeq(b) /\ IsSeq(c)
              BY <6>3, <6>5
            <6>7. (a \o b) \o c = a \o (b \o c)
              BY <6>6, Associates, SMTT(60)
            <6> QED BY <6>4, <6>5, <6>7
          <5> QED BY <5>2, <5>3
        <4>7. Rest(Q, m)
          BY <4>4, <4>5, <4>6
        <4> HIDE DEF Rest
        <4>8. \E x : Rest(x, m)
          BY <4>7
        <4> QED BY <3>1, <4>8
      <3> QED BY <3>2, <3>3
    <2>5. \A n \in 0..Len(seqs) : n \in S
      <3> HIDE DEF S
      <3> QED BY <1>1, <2>3, <2>4, ToTheEnd
    <2>6. Len(seqs) \in S
      <3> HIDE DEF S
      <3> QED BY <1>1, <2>5
    <2>7. PICK R : Rest(R, Len(seqs))
      BY <1>3, <2>6
    <2> QED BY <1>3, <2>1, <2>7
  <1> QED BY <1>2, <1>3

LEMMA FlattenLists ==
  ASSUME NEW enc, NEW seqs, IsSeq(seqs), \A i \in 1..Len(seqs) : Lists(seqs[i], enc)
  PROVE  Lists(FlattenSeq(seqs), enc)
  <1>1. Len(seqs) \in Nat /\ (Len(seqs) = 0 => seqs = <<>>)
    BY DEF IsSeq
  <1>2. CASE Len(seqs) = 0
    <2>1. FlattenSeq(seqs) = <<>>
      BY <1>1, <1>2 DEF FlattenSeq
    <2> QED BY <2>1, ListsNothing
  <1>3. CASE Len(seqs) # 0
    <2>1. PICK f : Flat(seqs, f) /\ FlattenSeq(seqs) = f[Len(seqs)]
      BY <1>1, <1>3, FlattenFlat
    <2>2. \A i \in 1..Len(seqs) : f[i] = IF i = 1 THEN seqs[i] ELSE f[i - 1] \o seqs[i]
      BY <2>1 DEF Flat
    <2> DEFINE S == {i \in 0..Len(seqs) : i # 0 => Lists(f[i], enc)}
    <2>3. 0 \in S
      BY <1>1
    <2>4. ASSUME NEW n \in 0..Len(seqs), n # Len(seqs), n \in S PROVE n + 1 \in S
      <3>1. n + 1 \in 1..Len(seqs) /\ n + 1 - 1 = n
        BY <1>1, <2>4
      <3>2. CASE n = 0
        <4>1. f[n + 1] = seqs[n + 1]
          BY <2>2, <3>1, <3>2
        <4> QED BY <3>1, <4>1
      <3>3. CASE n # 0
        <4>1. f[n + 1] = f[n] \o seqs[n + 1]
          <5>1. PICK m : m = n + 1
            OBVIOUS
          <5>2. m \in 1..Len(seqs) /\ m # 1 /\ m - 1 = n
            BY <3>1, <3>3, <5>1
          <5> QED BY <2>2, <5>1, <5>2, Zenon
        <4>2. Lists(f[n] \o seqs[n + 1], enc)
          <5>1. Lists(f[n], enc) /\ Lists(seqs[n + 1], enc)
            BY <2>4, <3>1, <3>3
          <5> QED BY <5>1, ListsThen, Zenon
        <4>3. Lists(f[n + 1], enc)
          BY <4>1, <4>2, Zenon
        <4> QED BY <3>1, <4>3
      <3> QED BY <3>2, <3>3
    <2>5. \A n \in 0..Len(seqs) : n \in S
      <3> HIDE DEF S
      <3> QED BY <1>1, <2>3, <2>4, ToTheEnd
    <2> QED BY <1>1, <1>3, <2>1, <2>5
  <1> QED BY <1>2, <1>3

Before(K, n) == UNION {K[i] : i \in 1..n}

LEMMA FlattenFills ==
  ASSUME NEW enc, NEW seqs, IsSeq(seqs), NEW K,
         \A i \in 1..Len(seqs) : Fills(seqs[i], enc, K[i]),
         \A i, j \in 1..Len(seqs) : i # j => K[i] \cap K[j] = {}
  PROVE  Fills(FlattenSeq(seqs), enc, Before(K, Len(seqs)))
  <1>1. Len(seqs) \in Nat /\ (Len(seqs) = 0 => seqs = <<>>)
    BY DEF IsSeq
  <1>2. CASE Len(seqs) = 0
    <2>1. FlattenSeq(seqs) = <<>> /\ Before(K, Len(seqs)) = {}
      BY <1>1, <1>2 DEF FlattenSeq, Before
    <2> QED BY <2>1, FillsNothing
  <1>3. CASE Len(seqs) # 0
    <2>1. PICK f : Flat(seqs, f) /\ FlattenSeq(seqs) = f[Len(seqs)]
      BY <1>1, <1>3, FlattenFlat
    <2>2. \A i \in 1..Len(seqs) : f[i] = IF i = 1 THEN seqs[i] ELSE f[i - 1] \o seqs[i]
      BY <2>1 DEF Flat
    <2> DEFINE S == {i \in 0..Len(seqs) : i # 0 => Fills(f[i], enc, Before(K, i))}
    <2>3. 0 \in S
      BY <1>1
    <2>4. ASSUME NEW n \in 0..Len(seqs), n # Len(seqs), n \in S PROVE n + 1 \in S
      <3>1. n + 1 \in 1..Len(seqs) /\ n + 1 - 1 = n
        BY <1>1, <2>4
      <3>2. Before(K, n + 1) = Before(K, n) \cup K[n + 1]
        <4>1. 1..n + 1 = 1..n \cup {n + 1}
          BY <2>4
        <4> QED BY <4>1 DEF Before
      <3>3. Before(K, n) \cap K[n + 1] = {}
        <4>1. \A i \in 1..n : i \in 1..Len(seqs) /\ i # n + 1
          BY <1>1, <2>4
        <4>2. \A i \in 1..n : K[i] \cap K[n + 1] = {}
          BY <3>1, <4>1
        <4> QED BY <4>2 DEF Before
      <3>4. CASE n = 0
        <4>1. f[n + 1] = seqs[n + 1]
          BY <2>2, <3>1, <3>4
        <4>2. Before(K, n) = {}
          BY <3>4 DEF Before
        <4>3. Before(K, n + 1) = K[n + 1]
          BY <3>2, <4>2
        <4> QED BY <3>1, <4>1, <4>3
      <3>5. CASE n # 0
        <4>1. f[n + 1] = f[n] \o seqs[n + 1]
          <5>1. PICK m : m = n + 1
            OBVIOUS
          <5>2. m \in 1..Len(seqs) /\ m # 1 /\ m - 1 = n
            BY <3>1, <3>5, <5>1
          <5> QED BY <2>2, <5>1, <5>2, Zenon
        <4>2. Fills(f[n] \o seqs[n + 1], enc, Before(K, n) \cup K[n + 1])
          <5>1. Fills(f[n], enc, Before(K, n)) /\ Fills(seqs[n + 1], enc, K[n + 1])
            BY <2>4, <3>1, <3>5
          <5> QED BY <3>3, <5>1, FillsThen, Zenon
        <4>3. Fills(f[n + 1], enc, Before(K, n + 1))
          BY <3>2, <4>1, <4>2, Zenon
        <4> QED BY <3>1, <4>3
      <3> QED BY <3>4, <3>5
    <2>5. \A n \in 0..Len(seqs) : n \in S
      <3> HIDE DEF S
      <3> QED BY <1>1, <2>3, <2>4, ToTheEnd
    <2> QED BY <1>1, <1>3, <2>1, <2>5
  <1> QED BY <1>2, <1>3

LEMMA IsSeqOf ==
  ASSUME NEW n \in Nat, NEW f, f = [i \in 1..n |-> f[i]]
  PROVE  IsSeq(f) /\ Len(f) = n
  <1> DEFINE T == {f[i] : i \in 1..n}
  <1>1. \A i \in 1..n : f[i] \in T
    OBVIOUS
  <1> HIDE DEF T
  <1>2. f \in [1..n -> T]
    BY <1>1
  <1>3. f \in Seq(T) /\ Len(f) = n
    BY <1>2
  <1> QED BY <1>3 DEF IsSeq

KeySet(ks) == {ks[i] : i \in 1..Len(ks)}

\* A pair for every one of these keys.
LEMMA PairsFill ==
  ASSUME NEW enc, NEW ks, Len(ks) \in Nat, NEW v,
         \A i, j \in 1..Len(ks) : ks[i] = ks[j] => i = j
  PROVE  Fills(Pairs(enc, ks, v), enc, KeySet(ks))
  <1> DEFINE seqs == [i \in 1..Len(ks) |-> Pair(enc, ks[i], v)]
             K == [i \in 1..Len(ks) |-> {ks[i]}]
  <1>1. IsSeq(seqs) /\ Len(seqs) = Len(ks)
    BY IsSeqOf
  <1>2. \A i \in 1..Len(ks) : seqs[i] = Pair(enc, ks[i], v) /\ K[i] = {ks[i]}
    OBVIOUS
  <1>3. \A i \in 1..Len(ks) : Fills(Pair(enc, ks[i], v), enc, {ks[i]})
    BY PairFills
  <1>4. Before(K, Len(ks)) = KeySet(ks)
    BY DEF Before, KeySet
  <1>5. \A i, j \in 1..Len(ks) : i # j => K[i] \cap K[j] = {}
    OBVIOUS
  <1>6. Pairs(enc, ks, v) = FlattenSeq(seqs)
    BY DEF Pairs, Each
  <1> HIDE DEF seqs, K
  <1>7. \A i \in 1..Len(seqs) : Fills(seqs[i], enc, K[i])
    <2> SUFFICES ASSUME NEW i \in 1..Len(seqs) PROVE Fills(seqs[i], enc, K[i])
      OBVIOUS
    <2>1. i \in 1..Len(ks)
      BY <1>1
    <2>2. Fills(Pair(enc, ks[i], v), enc, {ks[i]}) /\ seqs[i] = Pair(enc, ks[i], v) /\ K[i] = {ks[i]}
      BY <1>2, <1>3, <2>1
    <2> QED BY <2>2, Zenon
  <1>8. \A i, j \in 1..Len(seqs) : i # j => K[i] \cap K[j] = {}
    BY <1>1, <1>5
  <1>9. Fills(FlattenSeq(seqs), enc, Before(K, Len(seqs)))
    BY <1>1, <1>7, <1>8, FlattenFills, Zenon
  <1> QED BY <1>1, <1>4, <1>6, <1>9, Zenon

\* A value for every one of these.
LEMMA PutsList ==
  ASSUME NEW enc, NEW vs, Len(vs) \in Nat
  PROVE  Lists(Puts(enc, vs), enc)
  <1> DEFINE seqs == [i \in 1..Len(vs) |-> Put(enc, vs[i])]
  <1>1. IsSeq(seqs) /\ Len(seqs) = Len(vs)
    BY IsSeqOf
  <1>2. \A i \in 1..Len(vs) : seqs[i] = Put(enc, vs[i])
    OBVIOUS
  <1>3. Puts(enc, vs) = FlattenSeq(seqs)
    BY DEF Puts, Each
  <1> HIDE DEF seqs
  <1>4. Lists(FlattenSeq(seqs), enc)
    BY <1>1, <1>2, PutLists, FlattenLists
  <1> QED BY <1>3, <1>4, Zenon

-----------------------------------------------------------------------------
(* The arguments of a message are a sequence                                *)

LEMMA ArgLens ==
  ASSUME NEW d \in Directives
  PROVE  ArgOf(d).len \in Nat
  <1>1. \A m \in Mods : SignedArg[m].len \in Nat
    BY DEF Mods, SignedArg, Entry, Skip
  <1>2. \A m \in Mods : UnsignedArg[m].len \in Nat
    BY DEF Mods, UnsignedArg, Entry, Skip
  <1>3. \A m : FloatArg(m).len \in Nat
    BY DEF FloatArg, Entry, Skip
  <1>4. d.mod \in Mods /\ d.strlen % 256 \in Nat
    BY DEF Directives
  <1>0. CASE d.stars > 0
    BY <1>0 DEF ArgOf, Skip
  <1>5. CASE ~(d.stars > 0) /\ d.conv \in Signed
    BY <1>1, <1>4, <1>5 DEF ArgOf, Signed, Unsigned, Floating
  <1>6. CASE ~(d.stars > 0) /\ d.conv \in Unsigned
    BY <1>2, <1>4, <1>6 DEF ArgOf, Signed, Unsigned, Floating
  <1>7. CASE ~(d.stars > 0) /\ d.conv \in Floating
    BY <1>3, <1>4, <1>7 DEF ArgOf, Signed, Unsigned, Floating
  <1>8. CASE ~(d.stars > 0) /\ d.conv \notin Signed \cup Unsigned \cup Floating
    BY <1>4, <1>8 DEF ArgOf, Entry, Skip, Signed, Unsigned, Floating
  <1> QED BY <1>0, <1>5, <1>6, <1>7, <1>8

LEMMA AppendArgIsSeq ==
  ASSUME NEW out, IsSeq(out), NEW a, a.len \in Nat, NEW words
  PROVE  IsSeq(AppendArg(out, a, words))
  <1>1. IsSeq(<<a.type, a.len>>)
    <2>1. <<a.type, a.len>> \in Seq({a.type, a.len})
      OBVIOUS
    <2> QED BY <2>1 DEF IsSeq
  <1>2. IsSeq(Value(a, words))
    BY IsSeqOf DEF Value
  <1>3. IsSeq(out \o <<a.type, a.len>>)
    BY <1>1, Concatenated
  <1>4. IsSeq(out \o <<a.type, a.len>> \o Value(a, words))
    BY <1>2, <1>3, Concatenated
  <1> QED BY <1>4 DEF AppendArg

LEMMA ParseKeepsSeq ==
  ASSUME NEW st, IsSeq(st.out), NEW d \in Directives
  PROVE  IsSeq(ParseDirective(st, d).out)
  <1>1. PICK a : a = ArgOf(d)
    OBVIOUS
  <1>2. a.len \in Nat
    BY <1>1, ArgLens
  <1>3. IsSeq(AppendArg(st.out, a, Take(st.ap, a.words)))
    BY <1>2, AppendArgIsSeq
  <1>4. ParseDirective(st, d) = ParseArg(st, a)
    BY <1>1 DEF ParseDirective
  <1>5. ParseArg(st, a).out \in {st.out, AppendArg(st.out, a, Take(st.ap, a.words))}
    BY DEF ParseArg, Parsed
  <1> QED BY <1>3, <1>4, <1>5

\* The recursions of get_tlv_from_ap and encode_msg_args define functions.
TlvStep(format, f, k) ==
  f[k] = IF k = 0 THEN [ap |-> VaList(format), out |-> <<>>, full |-> FALSE] ELSE ParseDirective(f[k - 1], format[k])

LEMMA TlvDefined ==
  ASSUME NEW format \in Seq(Directives)
  PROVE  \E f : (\A k \in 0..Len(format) : TlvStep(format, f, k)) /\ Tlv(format) = f[Len(format)].out
  <1> DEFINE N == Len(format)
             st0 == [ap |-> VaList(format), out |-> <<>>, full |-> FALSE]
             Follows(g, k) == g[k] = IF k = 0 THEN st0 ELSE ParseDirective(g[k - 1], format[k])
             f == CHOOSE g : g = [k \in 0..N |-> IF k = 0 THEN st0 ELSE ParseDirective(g[k - 1], format[k])]
             D == {n \in 0..N : \E g : \A k \in 0..n : Follows(g, k)}
  <1>1. N \in Nat
    OBVIOUS
  <1>2. Tlv(format) = f[N].out
    BY DEF Tlv
  <1> HIDE DEF st0
  <1>3. \A n \in 0..N : n \in D
    <2>1. 0 \in D
      <3>1. [k \in {0} |-> st0][0] = st0 /\ \A k \in 0..0 : k = 0
        OBVIOUS
      <3>2. \E g : \A k \in 0..0 : Follows(g, k)
        BY <3>1
      <3> QED BY <1>1, <3>2
    <2>2. ASSUME NEW n \in 0..N, n # N, n \in D PROVE n + 1 \in D
      <3>1. PICK g : \A k \in 0..n : Follows(g, k)
        BY <2>2
      <3> DEFINE h == [k \in 0..n + 1 |-> IF k = n + 1 THEN ParseDirective(g[n], format[k]) ELSE g[k]]
      <3>2. ASSUME NEW k \in 0..n + 1 PROVE Follows(h, k)
        <4>1. CASE k = n + 1
          <5>1. h[k - 1] = g[n] /\ k # 0
            BY <4>1
          <5>2. h[k] = ParseDirective(g[n], format[k])
            BY <4>1
          <5> HIDE DEF h
          <5> QED BY <5>1, <5>2
        <4>2. CASE k # n + 1
          <5>1. k \in 0..n /\ h[k] = g[k] /\ (k # 0 => h[k - 1] = g[k - 1])
            BY <4>2
          <5> HIDE DEF h
          <5> QED BY <3>1, <5>1
        <4> QED BY <4>1, <4>2
      <3> HIDE DEF h
      <3>3. \E x : \A k \in 0..n + 1 : Follows(x, k)
        BY <3>2
      <3>4. n + 1 \in 0..N
        BY <1>1, <2>2
      <3> QED BY <3>3, <3>4
    <2> HIDE DEF D
    <2> QED BY <1>1, <2>1, <2>2, ToTheEnd
  <1>4. PICK g : \A k \in 0..N : Follows(g, k)
    <2>1. N \in D
      <3> HIDE DEF D
      <3> QED BY <1>1, <1>3
    <2> QED BY <2>1
  <1>5. \E e : e = [k \in 0..N |-> IF k = 0 THEN st0 ELSE ParseDirective(e[k - 1], format[k])]
    <2> DEFINE e == [k \in 0..N |-> g[k]]
    <2>1. \A k \in 0..N : k # 0 => k - 1 \in 0..N
      BY <1>1
    <2>2. e = [k \in 0..N |-> IF k = 0 THEN st0 ELSE ParseDirective(e[k - 1], format[k])]
      BY <1>4, <2>1
    <2> HIDE DEF e
    <2> QED BY <2>2
  <1>6. f = [k \in 0..N |-> IF k = 0 THEN st0 ELSE ParseDirective(f[k - 1], format[k])]
    <2> HIDE DEF N
    <2> QED BY <1>5, Zenon
  <1> HIDE DEF f
  <1>7. ASSUME NEW k \in 0..N PROVE TlvStep(format, f, k)
    BY <1>6 DEF TlvStep, st0
  <1> QED BY <1>2, <1>7

LEMMA TlvIsSeq ==
  ASSUME NEW format \in Seq(Directives)
  PROVE  IsSeq(Tlv(format))
  <1>1. PICK f : (\A k \in 0..Len(format) : TlvStep(format, f, k)) /\ Tlv(format) = f[Len(format)].out
    BY TlvDefined
  <1> DEFINE N == Len(format)
             S == {k \in 0..N : IsSeq(f[k].out)}
  <1>2. N \in Nat /\ IsSeq(<<>>)
    BY DEF IsSeq
  <1>3. 0 \in S
    <2>1. f[0].out = <<>>
      BY <1>1, <1>2 DEF TlvStep
    <2> QED BY <1>2, <2>1
  <1>4. ASSUME NEW n \in 0..N, n # N, n \in S PROVE n + 1 \in S
    <2>1. n + 1 \in 1..N /\ n + 1 \in 0..N /\ n + 1 # 0 /\ n + 1 - 1 = n
      BY <1>2, <1>4
    <2>2. f[n + 1] = ParseDirective(f[n], format[n + 1])
      BY <1>1, <2>1 DEF TlvStep
    <2>3. format[n + 1] \in Directives
      BY <2>1
    <2>4. IsSeq(ParseDirective(f[n], format[n + 1]).out)
      BY <1>4, <2>3, ParseKeepsSeq
    <2> QED BY <2>1, <2>2, <2>4
  <1>5. \A n \in 0..N : n \in S
    <2> HIDE DEF S, N
    <2> QED BY <1>2, <1>3, <1>4, ToTheEnd
  <1> QED BY <1>1, <1>2, <1>5

LEMMA ReadKeepsSeq ==
  ASSUME NEW tlv, NEW st, IsSeq(st.args)
  PROVE  IsSeq(ReadArg(tlv, st).args)
  <1>1. PICK x : x = [type |-> tlv[st.i + 1], value |-> SubSeq(tlv, st.i + 3, st.i + 2 + tlv[st.i + 2])]
    OBVIOUS
  <1>2. ReadArg(tlv, st) = IF st.i >= Len(tlv) THEN st
                           ELSE [i |-> st.i + 2 + tlv[st.i + 2], args |-> Append(st.args, x)]
    BY <1>1 DEF ReadArg
  <1>3. ReadArg(tlv, st).args \in {st.args, Append(st.args, x)}
    BY <1>2
  <1>4. IsSeq(Append(st.args, x))
    BY Pushed
  <1> QED BY <1>3, <1>4

ArgsStep(tlv, f, k) ==
  f[k] = IF k = 0 THEN [i |-> 0, args |-> <<>>] ELSE ReadArg(tlv, f[k - 1])

LEMMA ArgsDefined ==
  ASSUME NEW tlv, Len(tlv) \in Nat
  PROVE  \E f : (\A k \in 0..Len(tlv) : ArgsStep(tlv, f, k)) /\ Args(tlv) = f[Len(tlv)].args
  <1> DEFINE N == Len(tlv)
             st0 == [i |-> 0, args |-> <<>>]
             Follows(g, k) == g[k] = IF k = 0 THEN st0 ELSE ReadArg(tlv, g[k - 1])
             f == CHOOSE g : g = [k \in 0..N |-> IF k = 0 THEN st0 ELSE ReadArg(tlv, g[k - 1])]
             D == {n \in 0..N : \E g : \A k \in 0..n : Follows(g, k)}
  <1>1. N \in Nat
    OBVIOUS
  <1>2. Args(tlv) = f[N].args
    BY DEF Args
  <1> HIDE DEF st0
  <1>3. \A n \in 0..N : n \in D
    <2>1. 0 \in D
      <3>1. [k \in {0} |-> st0][0] = st0 /\ \A k \in 0..0 : k = 0
        OBVIOUS
      <3>2. \E g : \A k \in 0..0 : Follows(g, k)
        BY <3>1
      <3> QED BY <1>1, <3>2
    <2>2. ASSUME NEW n \in 0..N, n # N, n \in D PROVE n + 1 \in D
      <3>1. PICK g : \A k \in 0..n : Follows(g, k)
        BY <2>2
      <3> DEFINE h == [k \in 0..n + 1 |-> IF k = n + 1 THEN ReadArg(tlv, g[n]) ELSE g[k]]
      <3>2. ASSUME NEW k \in 0..n + 1 PROVE Follows(h, k)
        <4>1. CASE k = n + 1
          <5>1. h[k - 1] = g[n] /\ k # 0
            BY <4>1
          <5>2. h[k] = ReadArg(tlv, g[n])
            BY <4>1
          <5> HIDE DEF h
          <5> QED BY <5>1, <5>2
        <4>2. CASE k # n + 1
          <5>1. k \in 0..n /\ h[k] = g[k] /\ (k # 0 => h[k - 1] = g[k - 1])
            BY <4>2
          <5> HIDE DEF h
          <5> QED BY <3>1, <5>1
        <4> QED BY <4>1, <4>2
      <3> HIDE DEF h
      <3>3. \E x : \A k \in 0..n + 1 : Follows(x, k)
        BY <3>2
      <3>4. n + 1 \in 0..N
        BY <1>1, <2>2
      <3> QED BY <3>3, <3>4
    <2> HIDE DEF D
    <2> QED BY <1>1, <2>1, <2>2, ToTheEnd
  <1>4. PICK g : \A k \in 0..N : Follows(g, k)
    <2>1. N \in D
      <3> HIDE DEF D
      <3> QED BY <1>1, <1>3
    <2> QED BY <2>1
  <1>5. \E e : e = [k \in 0..N |-> IF k = 0 THEN st0 ELSE ReadArg(tlv, e[k - 1])]
    <2> DEFINE e == [k \in 0..N |-> g[k]]
    <2>1. \A k \in 0..N : k # 0 => k - 1 \in 0..N
      BY <1>1
    <2>2. e = [k \in 0..N |-> IF k = 0 THEN st0 ELSE ReadArg(tlv, e[k - 1])]
      BY <1>4, <2>1
    <2> HIDE DEF e
    <2> QED BY <2>2
  <1>6. f = [k \in 0..N |-> IF k = 0 THEN st0 ELSE ReadArg(tlv, f[k - 1])]
    <2> HIDE DEF N
    <2> QED BY <1>5, Zenon
  <1> HIDE DEF f
  <1>7. ASSUME NEW k \in 0..N PROVE ArgsStep(tlv, f, k)
    BY <1>6 DEF ArgsStep, st0
  <1> QED BY <1>2, <1>7

LEMMA ArgsIsSeq ==
  ASSUME NEW tlv, Len(tlv) \in Nat
  PROVE  IsSeq(Args(tlv))
  <1>1. PICK f : (\A k \in 0..Len(tlv) : ArgsStep(tlv, f, k)) /\ Args(tlv) = f[Len(tlv)].args
    BY ArgsDefined
  <1> DEFINE N == Len(tlv)
             S == {k \in 0..N : IsSeq(f[k].args)}
  <1>2. N \in Nat /\ IsSeq(<<>>)
    BY DEF IsSeq
  <1>3. 0 \in S
    <2>1. f[0].args = <<>>
      BY <1>1, <1>2 DEF ArgsStep
    <2> QED BY <1>2, <2>1
  <1>4. ASSUME NEW n \in 0..N, n # N, n \in S PROVE n + 1 \in S
    <2>1. n + 1 \in 0..N /\ n + 1 # 0 /\ n + 1 - 1 = n
      BY <1>2, <1>4
    <2>2. f[n + 1] = ReadArg(tlv, f[n])
      BY <1>1, <2>1 DEF ArgsStep
    <2>3. IsSeq(ReadArg(tlv, f[n]).args)
      BY <1>4, ReadKeepsSeq
    <2> QED BY <2>1, <2>2, <2>3
  <1>5. \A n \in 0..N : n \in S
    <2> HIDE DEF S, N
    <2> QED BY <1>2, <1>3, <1>4, ToTheEnd
  <1> QED BY <1>1, <1>2, <1>5

-----------------------------------------------------------------------------
(* The parts of a document of data                                          *)

LEMMA LogElementLists ==
  ASSUME NEW list, NEW rec, rec.format \in DOMAIN Formats
  PROVE  Lists(LogElement(list, rec), list)
  <1>1. PICK ks : ks = <<"ts", "tag", "pc", "ro">>
    OBVIOUS
  <1>2. PICK args : args = Args(Tlv(Formats[rec.format]))
    OBVIOUS
  <1>3. PICK enc : enc = "element"
    OBVIOUS
  <1>4. Len(args) \in Nat
    <2>1. Formats[rec.format] \in Seq(Directives)
      BY FormatsAssumption
    <2>2. IsSeq(Tlv(Formats[rec.format]))
      BY <2>1, TlvIsSeq
    <2>3. Len(Tlv(Formats[rec.format])) \in Nat
      BY <2>2 DEF IsSeq
    <2> QED BY <1>2, <2>3, ArgsIsSeq DEF IsSeq
  <1>5. Len(ks) \in Nat /\ \A i, j \in 1..Len(ks) : ks[i] = ks[j] => i = j
    BY <1>1
  <1>6. KeySet(ks) \cap {"av"} = {} /\ (KeySet(ks) \cup {"av"}) \cap {"task"} = {}
    BY <1>1 DEF KeySet
  <1>7. Fills(Pairs(enc, ks, rec.id), enc, KeySet(ks))
    BY <1>5, PairsFill, Zenon
  <1>8. Fills(MsgArgs(enc, Tlv(Formats[rec.format])), enc, {"av"})
    BY <1>2, <1>4, PutsList, ContainerFills, Zenon DEF MsgArgs
  <1>9. Fills(Pair(enc, "task", ""), enc, {"task"})
    BY PairFills, Zenon
  <1>10. Fills(Pairs(enc, ks, rec.id) \o MsgArgs(enc, Tlv(Formats[rec.format])), enc, KeySet(ks) \cup {"av"})
    BY <1>6, <1>7, <1>8, FillsThen, Zenon
  <1>11. Fills(Pairs(enc, ks, rec.id) \o MsgArgs(enc, Tlv(Formats[rec.format])) \o Pair(enc, "task", ""), enc,
               (KeySet(ks) \cup {"av"}) \cup {"task"})
    BY <1>6, <1>9, <1>10, FillsThen, Zenon
  <1>12. Lists(Element(list, enc, Pairs(enc, ks, rec.id) \o MsgArgs(enc, Tlv(Formats[rec.format]))
                                    \o Pair(enc, "task", "")), list)
    BY <1>11, ElementLists, Zenon
  <1> QED BY <1>1, <1>3, <1>12, Zenon DEF LogElement

LEMMA DataPtLists ==
  ASSUME NEW rec, rec.data_type # "NULL"
  PROVE  Lists(DataPt(rec), "array")
  <1>1. PICK key_arr : key_arr = "key_arr"
    OBVIOUS
  <1>2. PICK map : map = "map"
    OBVIOUS
  <1>3. Lists(Put(key_arr, rec.type) \o Put(key_arr, "tag") \o Put(key_arr, rec.id), key_arr)
    BY PutLists, ListsThen, Zenon
  <1>4. Fills(Container(map, "n", key_arr, "array", Put(key_arr, rec.type) \o Put(key_arr, "tag") \o Put(key_arr, rec.id)),
              map, {"n"})
    BY <1>3, ContainerFills, Zenon
  <1>5. Fills(Pair(map, "v", rec.id), map, {"v"}) /\ Fills(Pair(map, "t", ""), map, {"t"})
    BY PairFills, Zenon
  <1>6. {"n"} \cap {"v"} = {} /\ ({"n"} \cup {"v"}) \cap {"t"} = {}
    OBVIOUS
  <1>7. Fills(Container(map, "n", key_arr, "array", Put(key_arr, rec.type) \o Put(key_arr, "tag") \o Put(key_arr, rec.id))
                \o Pair(map, "v", rec.id), map, {"n"} \cup {"v"})
    BY <1>4, <1>5, <1>6, FillsThen, Zenon
  <1>8. Fills(Container(map, "n", key_arr, "array", Put(key_arr, rec.type) \o Put(key_arr, "tag") \o Put(key_arr, rec.id))
                \o Pair(map, "v", rec.id) \o Pair(map, "t", ""), map, ({"n"} \cup {"v"}) \cup {"t"})
    BY <1>5, <1>6, <1>7, FillsThen, Zenon
  <1>9. Lists(Element("array", map, Container(map, "n", key_arr, "array",
                 Put(key_arr, rec.type) \o Put(key_arr, "tag") \o Put(key_arr, rec.id))
                   \o Pair(map, "v", rec.id) \o Pair(map, "t", "")), "array")
    BY <1>8, ElementLists, Zenon
  <1> QED BY <1>1, <1>2, <1>9, Zenon DEF DataPt

LEMMA MetaHdrFills ==
  ASSUME NEW enc, NEW hdr
  PROVE  Fills(MetaHdr(enc, hdr), enc, {"sha256", "gen_id", "boot_cnt"})
  <1>1. /\ Fills(Pair(enc, "sha256", hdr), enc, {"sha256"})
        /\ Fills(Pair(enc, "gen_id", hdr), enc, {"gen_id"})
        /\ Fills(Pair(enc, "boot_cnt", hdr), enc, {"boot_cnt"})
    BY PairFills, Zenon
  <1>2. {"sha256"} \cap {"gen_id"} = {} /\ ({"sha256"} \cup {"gen_id"}) \cap {"boot_cnt"} = {}
    OBVIOUS
  <1>3. Fills(Pair(enc, "sha256", hdr) \o Pair(enc, "gen_id", hdr), enc, {"sha256"} \cup {"gen_id"})
    BY <1>1, <1>2, FillsThen, Zenon
  <1>4. Fills(MetaHdr(enc, hdr), enc, ({"sha256"} \cup {"gen_id"}) \cup {"boot_cnt"})
    BY <1>1, <1>2, <1>3, FillsThen, Zenon DEF MetaHdr
  <1>5. ({"sha256"} \cup {"gen_id"}) \cup {"boot_cnt"} = {"sha256", "gen_id", "boot_cnt"}
    OBVIOUS
  <1> QED BY <1>4, <1>5, Zenon

LEMMA DataHdrFills ==
  ASSUME NEW key, NEW targets, Len(targets) \in Nat, NEW hdr
  PROVE  Fills(DataHdr(key, targets, hdr), "s_diag_data_map", {key})
  <1>1. Lists(Puts("map_list", targets), "map_list")
    BY PutsList, Zenon
  <1>2. Fills(Container("hdr_map", "maps_to", "map_list", "array", Puts("map_list", targets)),
              "hdr_map", {"maps_to"})
    BY <1>1, ContainerFills, Zenon
  <1>3. {"maps_to"} \cap {"sha256", "gen_id", "boot_cnt"} = {}
    OBVIOUS
  <1>4. Fills(Container("hdr_map", "maps_to", "map_list", "array", Puts("map_list", targets))
                \o MetaHdr("hdr_map", hdr), "hdr_map", {"maps_to"} \cup {"sha256", "gen_id", "boot_cnt"})
    BY <1>2, <1>3, MetaHdrFills, FillsThen, Zenon
  <1> QED BY <1>4, ContainerFills, Zenon DEF DataHdr

-----------------------------------------------------------------------------
(* The walks are defined: what they consume                                 *)

LogStop(data, i) == Len(data) - i <= LogSize \/ MetaIdx(data[i + 1]) # MetaIdx(data[1])
LogStep(data, type, i, rest) ==
  IF LogStop(data, i) THEN [calls |-> <<>>, consumed |-> i]
  ELSE [calls |-> (IF TypeByte(data[i + 2]) = type THEN LogElement("list", data[i + 2].rec) ELSE <<>>)
                    \o rest.calls,
        consumed |-> rest.consumed]

LEMMA LogStepDefined ==
  ASSUME NEW data, Len(data) \in Nat, NEW type
  PROVE  \E f : f = [i \in Nat |-> LogStep(data, type, i, f[i + 1 + LogSize])]
  <1> DEFINE N == Len(data)
             Follows(g, i) == g[i] = LogStep(data, type, i, g[i + 1 + LogSize])
             S == {n \in 0..N : \E g : \A i \in Nat : i >= n => Follows(g, i)}
  <1>1. LogSize \in Nat
    BY SizeAssumption
  <1>2. N \in S
    <2>1. \A i \in Nat : i >= N => \A x, y : LogStep(data, type, i, x) = LogStep(data, type, i, y)
      BY <1>1 DEF LogStep, LogStop
    <2> DEFINE g == [i \in Nat |-> LogStep(data, type, i, 0)]
    <2>2. \A i \in Nat : i >= N => Follows(g, i)
      BY <2>1
    <2> HIDE DEF g
    <2>3. \E x : \A i \in Nat : i >= N => Follows(x, i)
      BY <2>2
    <2>4. N \in 0..N
      OBVIOUS
    <2> HIDE DEF Follows
    <2> QED BY <2>3, <2>4
  <1>3. ASSUME NEW n \in 0..N, n + 1 \in S PROVE n \in S
    <2>1. PICK g : \A i \in Nat : i >= n + 1 => Follows(g, i)
      BY <1>3
    <2> DEFINE h == [i \in Nat |-> LogStep(data, type, i, g[i + 1 + LogSize])]
    <2>2. ASSUME NEW i \in Nat, i >= n PROVE Follows(h, i)
      <3>1. i + 1 + LogSize \in Nat /\ i + 1 + LogSize >= n + 1
        BY <1>1, <2>2
      <3>2. h[i + 1 + LogSize] = g[i + 1 + LogSize]
        BY <2>1, <3>1
      <3> QED BY <3>2
    <2> QED BY <2>2
  <1>4. \A n \in 0..N : n \in S
    <2>1. ASSUME NEW n \in 0..N, \A m \in (n+1)..N : m \in S PROVE n \in S
      <3>1. CASE n = N
        BY <1>2, <3>1
      <3>2. CASE n # N
        <4> HIDE DEF S
        <4>1. n + 1 \in (n+1)..N
          BY <3>2
        <4>2. n + 1 \in S
          BY <2>1, <4>1
        <4> QED BY <1>3, <4>2
      <3> QED BY <3>1, <3>2
    <2> HIDE DEF S
    <2> QED BY <2>1, FromTheEnd
  <1>5. PICK g : \A i \in Nat : Follows(g, i)
    BY <1>4
  <1> DEFINE f == [i \in Nat |-> g[i]]
  <1>6. f = [i \in Nat |-> LogStep(data, type, i, f[i + 1 + LogSize])]
    BY <1>1, <1>5
  <1> QED BY <1>6

LEMMA LogConsumed ==
  ASSUME NEW data, Len(data) \in Nat, NEW type
  PROVE  \E c : /\ \A i \in Nat : c[i] = IF LogStop(data, i) THEN i ELSE c[i + 1 + LogSize]
                /\ LogWalk(data, type).consumed = c[0]
  <1> DEFINE f == CHOOSE g : g = [i \in Nat |-> LogStep(data, type, i, g[i + 1 + LogSize])]
             c == [i \in Nat |-> f[i].consumed]
  <1>1. f = [i \in Nat |-> LogStep(data, type, i, f[i + 1 + LogSize])]
    <2>1. PICK g : g = [i \in Nat |-> LogStep(data, type, i, g[i + 1 + LogSize])]
      BY LogStepDefined
    <2> QED BY <2>1, Zenon
  <1>2. LogWalk(data, type) = f[0]
    BY DEF LogWalk, LogStep, LogStop
  <1> HIDE DEF f
  <1>3. \A i \in Nat : f[i].consumed = IF LogStop(data, i) THEN i ELSE f[i + 1 + LogSize].consumed
    <2> SUFFICES ASSUME NEW i \in Nat
                 PROVE  f[i].consumed = IF LogStop(data, i) THEN i ELSE f[i + 1 + LogSize].consumed
      OBVIOUS
    <2>1. f[i] = LogStep(data, type, i, f[i + 1 + LogSize])
      BY <1>1
    <2>2. CASE LogStop(data, i)
      BY <2>1, <2>2 DEF LogStep
    <2>3. CASE ~LogStop(data, i)
      BY <2>1, <2>3 DEF LogStep
    <2> QED BY <2>2, <2>3
  <1>4. \A i \in Nat : c[i] = IF LogStop(data, i) THEN i ELSE c[i + 1 + LogSize]
    BY <1>3, SizeAssumption
  <1> QED BY <1>2, <1>4

PointStop(data, i) ==
  \/ Len(data) - i <= HdrSize
  \/ MetaIdx(data[i + 1]) # MetaIdx(data[1])
  \/ HdrSize + HeaderLen(data[i + 2]) > Len(data) - i - 1
  \/ HeaderLen(data[i + 2]) = 0
PointNext(data, i) == i + 1 + HdrSize + HeaderLen(data[i + 2])
PointStep(data, type, i, rest) ==
  IF PointStop(data, i) THEN [calls |-> <<>>, consumed |-> i]
  ELSE [calls |-> (IF data[i + 2].rec.type = type THEN DataPt(data[i + 2].rec) ELSE <<>>) \o rest.calls,
        consumed |-> rest.consumed]

LEMMA PointStepDefined ==
  ASSUME NEW data, Len(data) \in Nat, NEW type
  PROVE  \E f : f = [i \in Nat |-> PointStep(data, type, i, f[PointNext(data, i)])]
  <1> DEFINE N == Len(data)
             Follows(g, i) == g[i] = PointStep(data, type, i, g[PointNext(data, i)])
             S == {n \in 0..N : \E g : \A i \in Nat : i >= n => Follows(g, i)}
  <1>1. \A i \in Nat : PointNext(data, i) \in Nat /\ PointNext(data, i) > i
    BY SizeAssumption DEF PointNext, HeaderLen, Size
  <1>2. N \in S
    <2>1. \A i \in Nat : i >= N => \A x, y : PointStep(data, type, i, x) = PointStep(data, type, i, y)
      BY SizeAssumption DEF PointStep, PointStop
    <2> DEFINE g == [i \in Nat |-> PointStep(data, type, i, 0)]
    <2>2. \A i \in Nat : i >= N => Follows(g, i)
      BY <2>1
    <2> HIDE DEF g
    <2>3. \E x : \A i \in Nat : i >= N => Follows(x, i)
      BY <2>2
    <2>4. N \in 0..N
      OBVIOUS
    <2> HIDE DEF Follows
    <2> QED BY <2>3, <2>4
  <1>3. ASSUME NEW n \in 0..N, n + 1 \in S PROVE n \in S
    <2>1. PICK g : \A i \in Nat : i >= n + 1 => Follows(g, i)
      BY <1>3
    <2> DEFINE h == [i \in Nat |-> PointStep(data, type, i, g[PointNext(data, i)])]
    <2>2. ASSUME NEW i \in Nat, i >= n PROVE Follows(h, i)
      <3>1. PointNext(data, i) \in Nat /\ PointNext(data, i) >= n + 1
        BY <1>1, <2>2
      <3>2. h[PointNext(data, i)] = g[PointNext(data, i)]
        BY <2>1, <3>1
      <3> QED BY <3>2
    <2> QED BY <2>2
  <1>4. \A n \in 0..N : n \in S
    <2>1. ASSUME NEW n \in 0..N, \A m \in (n+1)..N : m \in S PROVE n \in S
      <3>1. CASE n = N
        BY <1>2, <3>1
      <3>2. CASE n # N
        <4> HIDE DEF S
        <4>1. n + 1 \in (n+1)..N
          BY <3>2
        <4>2. n + 1 \in S
          BY <2>1, <4>1
        <4> QED BY <1>3, <4>2
      <3> QED BY <3>1, <3>2
    <2> HIDE DEF S
    <2> QED BY <2>1, FromTheEnd
  <1>5. PICK g : \A i \in Nat : Follows(g, i)
    BY <1>4
  <1> DEFINE f == [i \in Nat |-> g[i]]
  <1>6. f = [i \in Nat |-> PointStep(data, type, i, f[PointNext(data, i)])]
    BY <1>1, <1>5
  <1> QED BY <1>6

LEMMA PointConsumed ==
  ASSUME NEW data, Len(data) \in Nat, NEW type
  PROVE  \E c : /\ \A i \in Nat : c[i] = IF PointStop(data, i) THEN i ELSE c[PointNext(data, i)]
                /\ PointWalk(data, type).consumed = c[0]
  <1> DEFINE f == CHOOSE g : g = [i \in Nat |-> PointStep(data, type, i, g[PointNext(data, i)])]
             c == [i \in Nat |-> f[i].consumed]
  <1>1. f = [i \in Nat |-> PointStep(data, type, i, f[PointNext(data, i)])]
    <2>1. PICK g : g = [i \in Nat |-> PointStep(data, type, i, g[PointNext(data, i)])]
      BY PointStepDefined
    <2> QED BY <2>1, Zenon
  <1>2. PointWalk(data, type) = f[0]
    BY DEF PointWalk, PointStep, PointStop, PointNext
  <1> HIDE DEF f
  <1>3. \A i \in Nat : f[i].consumed = IF PointStop(data, i) THEN i ELSE f[PointNext(data, i)].consumed
    <2> SUFFICES ASSUME NEW i \in Nat
                 PROVE  f[i].consumed = IF PointStop(data, i) THEN i ELSE f[PointNext(data, i)].consumed
      OBVIOUS
    <2>1. f[i] = PointStep(data, type, i, f[PointNext(data, i)])
      BY <1>1
    <2>2. CASE PointStop(data, i)
      BY <2>1, <2>2 DEF PointStep
    <2>3. CASE ~PointStop(data, i)
      BY <2>1, <2>3 DEF PointStep
    <2> QED BY <2>2, <2>3
  <1>4. \A i \in Nat : PointNext(data, i) \in Nat
    BY SizeAssumption DEF PointNext, HeaderLen, Size
  <1>5. \A i \in Nat : c[i] = IF PointStop(data, i) THEN i ELSE c[PointNext(data, i)]
    BY <1>3, <1>4
  <1> QED BY <1>2, <1>5

LEMMA LogWalkLists ==
  ASSUME NEW data, Len(data) \in Nat, NEW type,
         \A i \in 1..Len(data) : TypeByte(data[i]) = type => Lists(LogElement("list", data[i].rec), "list")
  PROVE  Lists(LogWalk(data, type).calls, "list")
  <1> DEFINE N == Len(data)
             f == CHOOSE g : g = [i \in Nat |-> LogStep(data, type, i, g[i + 1 + LogSize])]
             told(i) == IF TypeByte(data[i + 2]) = type THEN LogElement("list", data[i + 2].rec) ELSE <<>>
             S == {i \in 0..N : Lists(f[i].calls, "list")}
  <1>1. f = [i \in Nat |-> LogStep(data, type, i, f[i + 1 + LogSize])]
    <2>1. PICK g : g = [i \in Nat |-> LogStep(data, type, i, g[i + 1 + LogSize])]
      BY LogStepDefined
    <2> QED BY <2>1, Zenon
  <1>2. LogWalk(data, type) = f[0]
    BY DEF LogWalk, LogStep, LogStop
  <1> HIDE DEF f
  <1>3. ASSUME NEW i \in Nat, LogStop(data, i) PROVE Lists(f[i].calls, "list")
    <2>1. f[i].calls = <<>>
      BY <1>1, <1>3 DEF LogStep
    <2> QED BY <2>1, ListsNothing, Zenon
  <1>4. ASSUME NEW n \in 0..N, \A m \in (n+1)..N : m \in S PROVE n \in S
    <2>1. CASE LogStop(data, n)
      BY <1>3, <2>1
    <2>2. CASE ~LogStop(data, n)
      <3>1. PICK m : m = n + 1 + LogSize
        OBVIOUS
      <3>2. m \in (n+1)..N /\ n + 2 \in 1..N
        BY <2>2, <3>1, SizeAssumption DEF LogStop
      <3>3. f[n] = [calls |-> told(n) \o f[m].calls, consumed |-> f[m].consumed]
        <4>1. f[n] = LogStep(data, type, n, f[m])
          BY <1>1, <3>1
        <4> QED BY <2>2, <4>1, Zenon DEF LogStep
      <3>4. Lists(told(n), "list")
        BY <3>2, ListsNothing, Zenon
      <3>5. Lists(f[m].calls, "list")
        BY <1>4, <3>2
      <3> HIDE DEF told
      <3>6. f[n].calls = told(n) \o f[m].calls
        BY <3>3
      <3>7. Lists(f[n].calls, "list")
        BY <3>4, <3>5, <3>6, ListsThen, Zenon
      <3> QED BY <3>7
    <2> QED BY <2>1, <2>2
  <1>5. \A n \in 0..N : n \in S
    <2> HIDE DEF S
    <2> QED BY <1>4, FromTheEnd
  <1>6. 0 \in 0..N
    OBVIOUS
  <1> QED BY <1>2, <1>5, <1>6

LEMMA PointWalkLists ==
  ASSUME NEW data, Len(data) \in Nat, NEW type,
         \A i \in 1..Len(data) : data[i].rec.type = type => Lists(DataPt(data[i].rec), "array")
  PROVE  Lists(PointWalk(data, type).calls, "array")
  <1> DEFINE N == Len(data)
             f == CHOOSE g : g = [i \in Nat |-> PointStep(data, type, i, g[PointNext(data, i)])]
             told(i) == IF data[i + 2].rec.type = type THEN DataPt(data[i + 2].rec) ELSE <<>>
             S == {i \in 0..N : Lists(f[i].calls, "array")}
  <1>1. f = [i \in Nat |-> PointStep(data, type, i, f[PointNext(data, i)])]
    <2>1. PICK g : g = [i \in Nat |-> PointStep(data, type, i, g[PointNext(data, i)])]
      BY PointStepDefined
    <2> QED BY <2>1, Zenon
  <1>2. \E c : PointWalk(data, type) = [calls |-> f[0].calls, consumed |-> c]
    <2>1. PointWalk(data, type) = f[0]
      BY DEF PointWalk, PointStep, PointStop, PointNext
    <2> HIDE DEF f
    <2>2. \E c : f[0] = [calls |-> f[0].calls, consumed |-> c]
      BY <1>1 DEF PointStep
    <2> QED BY <2>1, <2>2
  <1> HIDE DEF f
  <1>3. ASSUME NEW i \in Nat, PointStop(data, i) PROVE Lists(f[i].calls, "array")
    <2>1. f[i].calls = <<>>
      BY <1>1, <1>3 DEF PointStep
    <2> QED BY <2>1, ListsNothing, Zenon
  <1>4. ASSUME NEW n \in 0..N, \A m \in (n+1)..N : m \in S PROVE n \in S
    <2>1. CASE PointStop(data, n)
      BY <1>3, <2>1
    <2>2. CASE ~PointStop(data, n)
      <3>1. PICK m : m = PointNext(data, n)
        OBVIOUS
      <3>2. m \in (n+1)..N /\ n + 2 \in 1..N
        BY <2>2, <3>1, SizeAssumption DEF PointStop, PointNext, HeaderLen, Size
      <3>3. f[n] = [calls |-> told(n) \o f[m].calls, consumed |-> f[m].consumed]
        <4>1. f[n] = PointStep(data, type, n, f[m])
          BY <1>1, <3>1
        <4> QED BY <2>2, <4>1, Zenon DEF PointStep
      <3>4. Lists(told(n), "array")
        BY <3>2, ListsNothing, Zenon
      <3>5. Lists(f[m].calls, "array")
        BY <1>4, <3>2
      <3> HIDE DEF told
      <3>6. f[n].calls = told(n) \o f[m].calls
        BY <3>3
      <3>7. Lists(f[n].calls, "array")
        BY <3>4, <3>5, <3>6, ListsThen, Zenon
      <3> QED BY <3>7
    <2> QED BY <2>1, <2>2
  <1>5. \A n \in 0..N : n \in S
    <2> HIDE DEF S
    <2> QED BY <1>4, FromTheEnd
  <1>6. 0 \in 0..N
    OBVIOUS
  <1> QED BY <1>2, <1>5, <1>6

-----------------------------------------------------------------------------
(* Lists of records and their headers                                       *)

\* Pairs with some of these keys.
FillsSome(calls, enc, ks) == \E js \in SUBSET ks : Fills(calls, enc, js)

\* Every byte that is taken for a type is one of a message with a format.
LogsKnown(data) ==
  \A i \in 1..Len(data) : TypeByte(data[i]) # "none" => data[i].rec.format \in DOMAIN Formats

LogList(data, type, key) == Container("log_map", key, "list", "array", LogWalk(data, type).calls)

LEMMA LogListFills ==
  ASSUME NEW data, Len(data) \in Nat, LogsKnown(data), NEW type, type # "none", NEW key
  PROVE  Fills(LogList(data, type, key), "log_map", {key})
  <1>1. \A i \in 1..Len(data) : TypeByte(data[i]) = type => Lists(LogElement("list", data[i].rec), "list")
    BY LogElementLists DEF LogsKnown
  <1>2. Lists(LogWalk(data, type).calls, "list")
    BY <1>1, LogWalkLists, Zenon
  <1> QED BY <1>2, ContainerFills, Zenon DEF LogList

LEMMA DiagLogsFill ==
  ASSUME NEW data, Len(data) \in Nat, LogsKnown(data)
  PROVE  Fills(DiagLogs(data).calls, "s_diag_data_map", {"traces"})
  <1>1. PICK e : e = LogList(data, "error", "errors")
    OBVIOUS
  <1>2. PICK w : w = LogList(data, "warning", "warnings")
    OBVIOUS
  <1>3. PICK v : v = LogList(data, "event", "events")
    OBVIOUS
  <1>4. DiagLogs(data).calls = Container("s_diag_data_map", "traces", "log_map", "map", e \o w \o v)
    BY <1>1, <1>2, <1>3, Zenon DEF DiagLogs, Traces, LogList
  <1>5. "error" # "none" /\ "warning" # "none" /\ "event" # "none"
    OBVIOUS
  <1>6. Fills(e, "log_map", {"errors"}) /\ Fills(w, "log_map", {"warnings"}) /\ Fills(v, "log_map", {"events"})
    BY <1>1, <1>2, <1>3, <1>5, LogListFills, Zenon
  <1>7. {"errors"} \cap {"warnings"} = {} /\ ({"errors"} \cup {"warnings"}) \cap {"events"} = {}
    OBVIOUS
  <1>8. Fills(e \o w, "log_map", {"errors"} \cup {"warnings"})
    BY <1>6, <1>7, FillsThen, Zenon
  <1>9. Fills(e \o w \o v, "log_map", ({"errors"} \cup {"warnings"}) \cup {"events"})
    BY <1>6, <1>7, <1>8, FillsThen, Zenon
  <1> QED BY <1>4, <1>9, ContainerFills, Zenon

LEMMA WithHdrFills ==
  ASSUME NEW lists, NEW ks, Fills(lists.calls, "s_diag_data_map", ks), NEW key, key \notin ks,
         NEW targets, Len(targets) \in Nat, NEW data
  PROVE  FillsSome(WithHdr(lists, key, targets, data).calls, "s_diag_data_map", ks \cup {key})
  <1>1. PICK hdr : hdr = IF lists.consumed > 0 THEN DataHdr(key, targets, MetaIdx(data[1])) ELSE <<>>
    OBVIOUS
  <1>2. WithHdr(lists, key, targets, data).calls = lists.calls \o hdr
    BY <1>1, Zenon DEF WithHdr
  <1>3. \E j \in {{}, {key}} : Fills(hdr, "s_diag_data_map", j)
    BY <1>1, DataHdrFills, FillsNothing, Zenon
  <1>4. PICK j \in {{}, {key}} : Fills(hdr, "s_diag_data_map", j)
    BY <1>3
  <1>5. ks \cap j = {} /\ ks \cup j \in SUBSET (ks \cup {key})
    BY <1>4
  <1>6. Fills(lists.calls \o hdr, "s_diag_data_map", ks \cup j)
    BY <1>4, <1>5, FillsThen, Zenon
  <1> QED BY <1>2, <1>5, <1>6, Zenon DEF FillsSome

LEMMA CriticalFills ==
  ASSUME NEW data, Len(data) \in Nat, LogsKnown(data)
  PROVE  FillsSome(CriticalData(data).calls, "s_diag_data_map", {"traces", "meta_c"})
  <1>1. CASE data = <<>>
    <2>1. CriticalData(data).calls = <<>>
      BY <1>1 DEF CriticalData, Nothing
    <2>2. Fills(<<>>, "s_diag_data_map", {}) /\ {} \in SUBSET {"traces", "meta_c"}
      BY FillsNothing, Zenon
    <2> QED BY <2>1, <2>2, Zenon DEF FillsSome
  <1>2. CASE data # <<>>
    <2>1. PICK lists : lists = DiagLogs(data)
      OBVIOUS
    <2>2. PICK ks : ks = {"traces"}
      OBVIOUS
    <2>3. PICK targets : targets = <<"traces">>
      OBVIOUS
    <2>4. PICK key : key = "meta_c"
      OBVIOUS
    <2>5. Fills(lists.calls, "s_diag_data_map", ks)
      BY <2>1, <2>2, DiagLogsFill
    <2>6. Len(targets) \in Nat /\ key \notin ks
      BY <2>2, <2>3, <2>4
    <2>7. FillsSome(WithHdr(lists, key, targets, data).calls, "s_diag_data_map", ks \cup {key})
      BY <2>5, <2>6, WithHdrFills
    <2>8. CriticalData(data) = WithHdr(lists, key, targets, data)
      BY <1>2, <2>1, <2>3, <2>4, Zenon DEF CriticalData
    <2>9. ks \cup {key} = {"traces", "meta_c"}
      BY <2>2, <2>4
    <2> QED BY <2>7, <2>8, <2>9, Zenon
  <1> QED BY <1>1, <1>2

\* No data type is one the switch does not know.
PointsKnown(data) == \A i \in 1..Len(data) : data[i].rec.data_type # "NULL"

LEMMA DataPointsFill ==
  ASSUME NEW data, Len(data) \in Nat, PointsKnown(data), NEW key, NEW type
  PROVE  FillsSome(DataPoints(data, key, type).calls, "s_diag_data_map", {key})
  <1>1. CASE Len(data) <= HdrSize
    <2>1. DataPoints(data, key, type).calls = <<>>
      BY <1>1 DEF DataPoints, Nothing
    <2>2. Fills(<<>>, "s_diag_data_map", {}) /\ {} \in SUBSET {key}
      BY FillsNothing, Zenon
    <2> QED BY <2>1, <2>2, Zenon DEF FillsSome
  <1>2. CASE ~(Len(data) <= HdrSize)
    <2>1. PICK walk : walk = PointWalk(data, type)
      OBVIOUS
    <2>2. DataPoints(data, key, type).calls = Container("s_diag_data_map", key, "array", "array", walk.calls)
      BY <1>2, <2>1, Zenon DEF DataPoints
    <2>3. \A i \in 1..Len(data) : data[i].rec.type = type => Lists(DataPt(data[i].rec), "array")
      BY DataPtLists DEF PointsKnown
    <2>4. Lists(walk.calls, "array")
      BY <2>1, <2>3, PointWalkLists, Zenon
    <2>5. Fills(Container("s_diag_data_map", key, "array", "array", walk.calls), "s_diag_data_map", {key})
      BY <2>4, ContainerFills, Zenon
    <2>6. {key} \in SUBSET {key}
      OBVIOUS
    <2> QED BY <2>2, <2>5, <2>6, Zenon DEF FillsSome
  <1> QED BY <1>1, <1>2

LEMMA NonCriticalFills ==
  ASSUME NEW data, Len(data) \in Nat, PointsKnown(data)
  PROVE  FillsSome(NonCriticalData(data).calls, "s_diag_data_map", {"metrics", "params", "meta_nc"})
  <1>1. PICK m : m = DataPoints(data, "metrics", "metrics")
    OBVIOUS
  <1>2. PICK p : p = DataPoints(data, "params", "variable")
    OBVIOUS
  <1>3. PICK lists : lists = Points(m, p)
    OBVIOUS
  <1>4. lists.calls = m.calls \o p.calls
    BY <1>3 DEF Points
  <1>5. FillsSome(m.calls, "s_diag_data_map", {"metrics"})
    BY <1>1, DataPointsFill, Zenon
  <1>6. FillsSome(p.calls, "s_diag_data_map", {"params"})
    BY <1>2, DataPointsFill, Zenon
  <1>7. PICK ks \in SUBSET {"metrics"} : Fills(m.calls, "s_diag_data_map", ks)
    BY <1>5 DEF FillsSome
  <1>8. PICK js \in SUBSET {"params"} : Fills(p.calls, "s_diag_data_map", js)
    BY <1>6 DEF FillsSome
  <1>9. PICK key : key = "meta_nc"
    OBVIOUS
  <1>10. PICK both : both = ks \cup js
    OBVIOUS
  <1>11. ks \cap js = {}
    OBVIOUS
  <1>12. key \notin both /\ both \cup {key} \subseteq {"metrics", "params", "meta_nc"}
    BY <1>9, <1>10
  <1>13. Fills(m.calls \o p.calls, "s_diag_data_map", ks \cup js)
    BY <1>7, <1>8, <1>11, FillsThen
  <1>14. Fills(lists.calls, "s_diag_data_map", both)
    BY <1>4, <1>10, <1>13, Zenon
  <1>15. PICK targets : targets = <<"metrics", "params">>
    OBVIOUS
  <1>16. Len(targets) \in Nat
    BY <1>15
  <1>17. PICK is \in SUBSET (both \cup {key}) : Fills(WithHdr(lists, key, targets, data).calls, "s_diag_data_map", is)
    BY <1>12, <1>14, <1>16, WithHdrFills DEF FillsSome
  <1>18. NonCriticalData(data) = WithHdr(lists, key, targets, data)
    BY <1>1, <1>2, <1>3, <1>9, <1>15, Zenon DEF NonCriticalData
  <1>19. is \in SUBSET {"metrics", "params", "meta_nc"}
    BY <1>12
  <1> QED BY <1>17, <1>18, <1>19, Zenon DEF FillsSome

-----------------------------------------------------------------------------
(* The frame of a document                                                  *)

LEMMA NoneIsSeq == IsSeq(<<>>)
  <1>1. <<>> \in Seq({})
    OBVIOUS
  <1> QED BY <1>1 DEF IsSeq

LEMMA BeginRuns ==
  ASSUME NEW r, IsSeq(r), NEW in, NEW n \in Even, NEW keys, NEW key, key \notin keys, NEW enc
  PROVE  Runs(Begin(in, key, enc), OnMap(r, in, n, keys), OnMap(OnMap(r, in, n + 2, keys \cup {key}), enc, 0, {}))
  <1>1. n + 1 \in Odd /\ n + 1 \in Nat /\ n + 1 + 1 = n + 2
    BY DEF Even, Odd
  <1>2. Runs(Key(in, key), OnMap(r, in, n, keys), OnMap(r, in, n + 1, keys \cup {key}))
    BY KeyRuns
  <1>3. Runs(Open(in, enc, "map"), OnMap(r, in, n + 1, keys \cup {key}),
             OnMap(OnMap(r, in, n + 2, keys \cup {key}), enc, 0, {}))
    <2>1. PICK kind : kind = "map"
      OBVIOUS
    <2>2. Runs(Open(in, enc, kind), Top(r, in, kind, n + 1, keys \cup {key}),
               Top(Top(r, in, kind, n + 1 + 1, keys \cup {key}), enc, kind, 0, {}))
      BY <1>1, <2>1, OpenRuns
    <2> QED BY <1>1, <2>1, <2>2 DEF OnMap
  <1> QED BY <1>2, <1>3, RunsThen DEF Begin

LEMMA EndRuns ==
  ASSUME NEW r, IsSeq(r), NEW in, NEW m, NEW held, NEW enc, NEW n \in Even, NEW keys
  PROVE  Runs(Close(in, enc), OnMap(OnMap(r, in, m, held), enc, n, keys), OnMap(r, in, m, held))
  <1>1. n \in Nat
    BY DEF Even
  <1> QED BY <1>1, CloseRuns, Zenon DEF OnMap

\* The stack on the way into a document, its frame opened.
Root(e0) == OnArray(<<>>, e0, 0)
Done(e0) == OnArray(<<>>, e0, 1)
Inner(e0, e1, k1) == OnMap(Done(e0), e1, 2, {k1})

LEMMA RootOpens ==
  ASSUME NEW e0, NEW e1, NEW k1, NEW e2
  PROVE  Runs(Open(e0, e1, "map") \o Begin(e1, k1, e2), Root(e0), OnMap(Inner(e0, e1, k1), e2, 0, {}))
  <1>1. IsSeq(Done(e0)) /\ 0 \in Even /\ 0 + 2 = 2 /\ {} \cup {k1} = {k1} /\ k1 \notin {}
    BY NoneIsSeq, TopOf DEF Even, Done, OnArray
  <1>2. Runs(Open(e0, e1, "map"), Root(e0), OnMap(Done(e0), e1, 0, {}))
    <2>1. PICK held : held = "array"
      OBVIOUS
    <2>2. held # "map" /\ held \in {"map", "array"} /\ 0 + 1 = 1
      BY <2>1
    <2>3. PICK kind : kind = "map"
      OBVIOUS
    <2>4. Runs(Open(e0, e1, kind), Top(<<>>, e0, held, 0, {}), Top(Top(<<>>, e0, held, 0 + 1, {}), e1, kind, 0, {}))
      BY <2>2, NoneIsSeq, OpenRuns
    <2> QED BY <2>1, <2>2, <2>3, <2>4 DEF Root, Done, OnArray, OnMap
  <1>3. Runs(Begin(e1, k1, e2), OnMap(Done(e0), e1, 0, {}), OnMap(OnMap(Done(e0), e1, 0 + 2, {} \cup {k1}), e2, 0, {}))
    BY <1>1, BeginRuns
  <1>4. Runs(Begin(e1, k1, e2), OnMap(Done(e0), e1, 0, {}), OnMap(Inner(e0, e1, k1), e2, 0, {}))
    BY <1>1, <1>3 DEF Inner
  <1> QED BY <1>2, <1>4, RunsThen

LEMMA RootCloses ==
  ASSUME NEW e0, NEW e1, NEW k1, NEW e2, NEW n \in Even, NEW keys
  PROVE  Runs(Close(e1, e2) \o Close(e0, e1), OnMap(Inner(e0, e1, k1), e2, n, keys), Done(e0))
  <1>1. IsSeq(Done(e0)) /\ 2 \in Even /\ 2 \in Nat
    BY NoneIsSeq, TopOf DEF Even, Done, OnArray
  <1>2. Runs(Close(e1, e2), OnMap(Inner(e0, e1, k1), e2, n, keys), Inner(e0, e1, k1))
    BY <1>1, EndRuns DEF Inner
  <1>3. Runs(Close(e0, e1), Inner(e0, e1, k1), Done(e0))
    BY <1>1, NoneIsSeq, CloseRuns, Zenon DEF Inner, Done, OnMap, OnArray
  <1> QED BY <1>2, <1>3, RunsThen

\* In the frame, behind fields of its own and a key, two parts of data.
LEMMA Framed ==
  ASSUME NEW e0, NEW e1, NEW k1, NEW e2, NEW e3, NEW fields, NEW K, Fills(fields, e2, K), NEW k2, k2 \notin K,
         NEW c, NEW ks, Fills(c, e3, ks), NEW d, NEW js, Fills(d, e3, js), ks \cap js = {},
         NEW begin, begin = Open(e0, e1, "map") \o Begin(e1, k1, e2) \o fields \o Begin(e2, k2, e3),
         NEW end, end = Close(e2, e3) \o (Close(e1, e2) \o Close(e0, e1))
  PROVE  WellFormed(begin \o c \o d \o end, e0)
  <1>1. PICK p : p = Inner(e0, e1, k1)
    OBVIOUS
  <1>2. IsSeq(p) /\ IsSeq(Done(e0))
    BY <1>1, NoneIsSeq, TopOf DEF Inner, Done, OnMap, OnArray
  <1>3. PICK a : a = Open(e0, e1, "map") \o Begin(e1, k1, e2)
    OBVIOUS
  <1>4. Runs(a, Root(e0), OnMap(p, e2, 0, {}))
    BY <1>1, <1>3, RootOpens
  <1>5. 0 \in Even /\ {} \cap K = {} /\ {} \cup K = K /\ {} \cap ks = {} /\ {} \cup ks = ks
    BY DEF Even
  <1>6. PICK m \in Even : Runs(fields, OnMap(p, e2, 0, {}), OnMap(p, e2, m, {} \cup K))
    BY <1>2, <1>5 DEF Fills
  <1>7. Runs(a \o fields, Root(e0), OnMap(p, e2, m, K))
    BY <1>4, <1>5, <1>6, RunsThen
  <1>8. PICK q : q = OnMap(p, e2, m + 2, K \cup {k2})
    OBVIOUS
  <1>9. IsSeq(q) /\ m + 2 \in Even
    BY <1>2, <1>8, TopOf DEF OnMap, Even
  <1>10. Runs(Begin(e2, k2, e3), OnMap(p, e2, m, K), OnMap(q, e3, 0, {}))
    BY <1>2, <1>8, BeginRuns
  <1>11. Runs(begin, Root(e0), OnMap(q, e3, 0, {}))
    BY <1>3, <1>7, <1>10, RunsThen
  <1>12. PICK x \in Even : Runs(c, OnMap(q, e3, 0, {}), OnMap(q, e3, x, {} \cup ks))
    BY <1>5, <1>9 DEF Fills
  <1>13. PICK y \in Even : Runs(d, OnMap(q, e3, x, ks), OnMap(q, e3, y, ks \cup js))
    BY <1>9 DEF Fills
  <1>14. Runs(begin \o c, Root(e0), OnMap(q, e3, x, ks))
    BY <1>5, <1>11, <1>12, RunsThen
  <1>15. Runs(begin \o c \o d, Root(e0), OnMap(q, e3, y, ks \cup js))
    BY <1>13, <1>14, RunsThen
  <1>16. Runs(Close(e2, e3), OnMap(q, e3, y, ks \cup js), q)
    BY <1>2, <1>8, EndRuns
  <1>17. Runs(Close(e1, e2) \o Close(e0, e1), q, Done(e0))
    BY <1>1, <1>8, <1>9, RootCloses
  <1>18. Runs(end, OnMap(q, e3, y, ks \cup js), Done(e0))
    BY <1>16, <1>17, RunsThen
  <1>19. Runs(begin \o c \o d \o end, Root(e0), Done(e0))
    BY <1>15, <1>18, RunsThen
  <1>20. Root(e0) = <<Level(e0, "array")>> /\ Len(Done(e0)) = 1 /\ Done(e0)[1].n = 1
    <2>1. \A l : Append(<<>>, l) = <<l>> /\ Len(<<l>>) = 1 /\ <<l>>[1] = l
      OBVIOUS
    <2>2. PICK l : l = [enc |-> e0, kind |-> "array", n |-> 1, keys |-> {}]
      OBVIOUS
    <2>3. Done(e0) = <<l>> /\ l.n = 1
      BY <2>1, <2>2, Zenon DEF Done, OnArray, Top
    <2>4. Root(e0) = <<Level(e0, "array")>>
      BY <2>1, Zenon DEF Root, OnArray, Top, Level
    <2> QED BY <2>1, <2>3, <2>4
  <1> QED BY <1>19, <1>20, RunsWellFormed, Zenon

-----------------------------------------------------------------------------
(* The documents                                                            *)

LEMMA DiagFields ==
  ASSUME NEW hdr, NEW ks, ks = <<"ver", "ts">>
  PROVE  Fills(Pairs("s_diag_map", ks, "") \o MetaHdr("s_diag_map", hdr), "s_diag_map",
               KeySet(ks) \cup {"sha256", "gen_id", "boot_cnt"})
  <1>1. Len(ks) \in Nat /\ \A i, j \in 1..Len(ks) : ks[i] = ks[j] => i = j
    OBVIOUS
  <1>2. KeySet(ks) \cap {"sha256", "gen_id", "boot_cnt"} = {}
    BY DEF KeySet
  <1>3. Fills(Pairs("s_diag_map", ks, ""), "s_diag_map", KeySet(ks))
    BY <1>1, PairsFill, Zenon
  <1> QED BY <1>2, <1>3, MetaHdrFills, FillsThen, Zenon

\* What is put into the map of the data between its begin and its end.
LEMMA DiagFramed ==
  ASSUME NEW hdr, NEW c, NEW ks, Fills(c, "s_diag_data_map", ks),
         NEW d, NEW js, Fills(d, "s_diag_data_map", js), ks \cap js = {}
  PROVE  WellFormed(DataBegin(hdr) \o c \o d \o DataEnd, "s_encoder")
  <1>1. PICK vs : vs = <<"ver", "ts">>
    OBVIOUS
  <1>2. PICK pairs : pairs = Pairs("s_diag_map", vs, "")
    OBVIOUS
  <1>3. PICK meta : meta = MetaHdr("s_diag_map", hdr)
    OBVIOUS
  <1>4. PICK a : a = Open("s_encoder", "s_result_map", "map") \o Begin("s_result_map", "diag", "s_diag_map")
    OBVIOUS
  <1>5. PICK b : b = Begin("s_diag_map", "data", "s_diag_data_map")
    OBVIOUS
  <1>6. DataBegin(hdr) = a \o pairs \o meta \o b
    BY <1>1, <1>2, <1>3, <1>4, <1>5, Zenon DEF DataBegin, DiagBegin
  <1>7. IsSeq(a) /\ IsSeq(pairs) /\ IsSeq(meta)
    <2>1. Runs(a, Root("s_encoder"), OnMap(Inner("s_encoder", "s_result_map", "diag"), "s_diag_map", 0, {}))
      BY <1>4, RootOpens, Zenon
    <2>2. Len(vs) \in Nat /\ \A i, j \in 1..Len(vs) : vs[i] = vs[j] => i = j
      BY <1>1
    <2>3. Fills(pairs, "s_diag_map", KeySet(vs))
      BY <1>2, <2>2, PairsFill, Zenon
    <2>4. Fills(meta, "s_diag_map", {"sha256", "gen_id", "boot_cnt"})
      BY <1>3, MetaHdrFills, Zenon
    <2> QED BY <2>1, <2>3, <2>4, FillsIsSeq, Zenon DEF Runs
  <1>8. DataBegin(hdr) = a \o (pairs \o meta) \o b
    <2>1. a \o pairs \o meta = a \o (pairs \o meta)
      BY <1>7, Associates
    <2> QED BY <1>6, <2>1, Zenon
  <1>9. PICK K : K = KeySet(vs) \cup {"sha256", "gen_id", "boot_cnt"}
    OBVIOUS
  <1>10. Fills(pairs \o meta, "s_diag_map", K)
    BY <1>1, <1>2, <1>3, <1>9, DiagFields, Zenon
  <1>11. "data" \notin K
    BY <1>1, <1>9 DEF KeySet
  <1>12. DataEnd = Close("s_diag_map", "s_diag_data_map")
                     \o (Close("s_result_map", "s_diag_map") \o Close("s_encoder", "s_result_map"))
    BY DEF DataEnd, DiagEnd
  <1>13. DataBegin(hdr) = Open("s_encoder", "s_result_map", "map") \o Begin("s_result_map", "diag", "s_diag_map")
                            \o (pairs \o meta) \o Begin("s_diag_map", "data", "s_diag_data_map")
    BY <1>4, <1>5, <1>8
  <1> QED BY <1>10, <1>11, <1>12, <1>13, Framed, Zenon

\* A document of data is one complete item, whatever records it is made of.
THEOREM DataWellFormed ==
  ASSUME NEW hdr, NEW critical, Len(critical) \in Nat, LogsKnown(critical),
         NEW rest, Len(rest) \in Nat, PointsKnown(rest)
  PROVE  WellFormed(DataBegin(hdr) \o CriticalData(critical).calls \o NonCriticalData(rest).calls \o DataEnd,
                    "s_encoder")
  <1>1. PICK ks \in SUBSET {"traces", "meta_c"} : Fills(CriticalData(critical).calls, "s_diag_data_map", ks)
    BY CriticalFills DEF FillsSome
  <1>2. PICK js \in SUBSET {"metrics", "params", "meta_nc"} : Fills(NonCriticalData(rest).calls, "s_diag_data_map", js)
    BY NonCriticalFills DEF FillsSome
  <1>3. ks \cap js = {}
    OBVIOUS
  <1> QED BY <1>1, <1>2, <1>3, DiagFramed

LEMMA CrashFills ==
  ASSUME NEW n \in Nat
  PROVE  Fills(Crash(n), "s_diag_data_map", {"crash"})
  <1>1. PICK map : map = "crash_map"
    OBVIOUS
  <1>2. PICK ks : ks = <<"ver", "sha256", "task">>
    OBVIOUS
  <1>3. PICK js : js = <<"dump_size", "mstatus", "mtvec", "ra", "sp">>
    OBVIOUS
  <1>4. /\ Len(ks) \in Nat /\ \A i, j \in 1..Len(ks) : ks[i] = ks[j] => i = j
        /\ Len(js) \in Nat /\ \A i, j \in 1..Len(js) : js[i] = js[j] => i = j
    BY <1>2, <1>3
  <1>5. Fills(Pairs(map, ks, ""), map, KeySet(ks)) /\ Fills(Pairs(map, js, ""), map, KeySet(js))
    BY <1>4, PairsFill, Zenon
  <1> DEFINE words(key, list, len) == Container(map, key, list, "array", Puts(list, [i \in 1..len |-> i]))
  <1>6. ASSUME NEW key, NEW list, NEW len \in Nat PROVE Fills(words(key, list, len), map, {key})
    <2>1. PICK vs : vs = [i \in 1..len |-> i]
      OBVIOUS
    <2>2. Len(vs) \in Nat
      BY <2>1
    <2>3. Lists(Puts(list, vs), list)
      BY <2>2, PutsList
    <2> QED BY <2>1, <2>3, ContainerFills, Zenon
  <1>7. PICK e : e = words("exc_val", "val_list", 3)
    OBVIOUS
  <1>8. PICK b : b = words("stackdump", "bt_list", n)
    OBVIOUS
  <1>9. PICK r : r = words("a_reg", "reg_list", 8)
    OBVIOUS
  <1>10. Crash(n) = Container("s_diag_data_map", "crash", map, "map",
                              Pairs(map, ks, "") \o e \o b \o Pairs(map, js, "") \o r)
    BY <1>1, <1>2, <1>3, <1>7, <1>8, <1>9, Zenon DEF Crash
  <1> HIDE DEF words
  <1>11. 3 \in Nat /\ 8 \in Nat
    OBVIOUS
  <1>12. Fills(e, map, {"exc_val"}) /\ Fills(b, map, {"stackdump"}) /\ Fills(r, map, {"a_reg"})
    BY <1>6, <1>7, <1>8, <1>9, <1>11, Zenon
  <1>13. PICK x : x = KeySet(ks) \cup {"exc_val"}
    OBVIOUS
  <1>14. PICK y : y = x \cup {"stackdump"}
    OBVIOUS
  <1>15. PICK z : z = y \cup KeySet(js)
    OBVIOUS
  <1>16. KeySet(ks) \cap {"exc_val"} = {} /\ x \cap {"stackdump"} = {}
    BY <1>2, <1>13 DEF KeySet
  <1>17. y \cap KeySet(js) = {}
    <2>1. KeySet(ks) \subseteq {"ver", "sha256", "task"}
      BY <1>2 DEF KeySet
    <2>2. KeySet(js) \subseteq {"dump_size", "mstatus", "mtvec", "ra", "sp"}
      BY <1>3 DEF KeySet
    <2> QED BY <1>13, <1>14, <2>1, <2>2
  <1>18. z \cap {"a_reg"} = {}
    <2>1. KeySet(ks) \subseteq {"ver", "sha256", "task"}
      BY <1>2 DEF KeySet
    <2>2. KeySet(js) \subseteq {"dump_size", "mstatus", "mtvec", "ra", "sp"}
      BY <1>3 DEF KeySet
    <2> QED BY <1>13, <1>14, <1>15, <2>1, <2>2
  <1>19. Fills(Pairs(map, ks, "") \o e, map, x)
    BY <1>5, <1>12, <1>13, <1>16, FillsThen, Zenon
  <1>20. Fills(Pairs(map, ks, "") \o e \o b, map, y)
    BY <1>12, <1>14, <1>16, <1>19, FillsThen, Zenon
  <1>21. Fills(Pairs(map, ks, "") \o e \o b \o Pairs(map, js, ""), map, z)
    BY <1>5, <1>15, <1>17, <1>20, FillsThen, Zenon
  <1>22. Fills(Pairs(map, ks, "") \o e \o b \o Pairs(map, js, "") \o r, map, z \cup {"a_reg"})
    BY <1>12, <1>18, <1>21, FillsThen, Zenon
  <1> QED BY <1>10, <1>22, ContainerFills, Zenon

\* The boot message is one complete item, with a core dump or without.
THEOREM BootWellFormed ==
  ASSUME NEW hdr, NEW crash \in Seq(Nat), Len(crash) <= 1
  PROVE  WellFormed(BootDocument(hdr, crash), "s_encoder")
  <1>1. Fills(BootInfo, "s_diag_data_map", {"boot"})
    <2>1. PICK ks : ks = <<"ts", "chip", "chip_rev", "reason", "proj", "app_ver">>
      OBVIOUS
    <2>2. Len(ks) \in Nat /\ \A i, j \in 1..Len(ks) : ks[i] = ks[j] => i = j
      BY <2>1
    <2>3. Fills(Pairs("boot_map", ks, ""), "boot_map", KeySet(ks))
      BY <2>2, PairsFill, Zenon
    <2> QED BY <2>1, <2>3, ContainerFills, Zenon DEF BootInfo
  <1>2. \A n \in Nat : Fills(Crash(n), "s_diag_data_map", {"crash"})
    BY CrashFills
  <1>3. PICK seqs : seqs = [i \in 1..Len(crash) |-> Crash(crash[i])]
    OBVIOUS
  <1>4. IsSeq(seqs) /\ Len(seqs) = Len(crash)
    BY <1>3, IsSeqOf
  <1>5. PICK K : K = [i \in 1..Len(crash) |-> {"crash"}]
    OBVIOUS
  <1>6. \A i \in 1..Len(seqs) : Fills(seqs[i], "s_diag_data_map", K[i])
    <2> SUFFICES ASSUME NEW i \in 1..Len(seqs) PROVE Fills(seqs[i], "s_diag_data_map", K[i])
      OBVIOUS
    <2>1. crash[i] \in Nat /\ seqs[i] = Crash(crash[i]) /\ K[i] = {"crash"}
      BY <1>3, <1>4, <1>5
    <2> QED BY <1>2, <2>1, Zenon
  <1>7. \A i, j \in 1..Len(seqs) : i # j => K[i] \cap K[j] = {}
    BY <1>4
  <1>8. Fills(FlattenSeq(seqs), "s_diag_data_map", Before(K, Len(seqs)))
    BY <1>4, <1>6, <1>7, FlattenFills, Zenon
  <1>9. Before(K, Len(seqs)) \cap {"boot"} = {} /\ {"boot"} \cap Before(K, Len(seqs)) = {}
    BY <1>4, <1>5 DEF Before
  <1>10. WellFormed(DataBegin(hdr) \o BootInfo \o FlattenSeq(seqs) \o DataEnd, "s_encoder")
    BY <1>1, <1>8, <1>9, DiagFramed, Zenon
  <1>11. Each(crash, Crash) = FlattenSeq(seqs)
    BY <1>3 DEF Each
  <1> QED BY <1>10, <1>11, Zenon DEF BootDocument


-----------------------------------------------------------------------------
(* The document of metadata                                                 *)

NoneTwice(table) ==
  \A i, j \in 1..Len(table) : table[i].tag = table[j].tag /\ table[i].key = table[j].key => i = j

LEMMA MetaElementFills ==
  ASSUME NEW kind, NEW e
  PROVE  Fills(MetaElement(kind, e), "tag_map", {e.key})
  <1>1. PICK ks : ks = <<"label", "path", "data_type">>
    OBVIOUS
  <1>2. PICK unit : unit = IF e.unit # "" THEN Pair("id_map", "unit", e.unit) ELSE <<>>
    OBVIOUS
  <1>3. Len(ks) \in Nat /\ \A i, j \in 1..Len(ks) : ks[i] = ks[j] => i = j
    BY <1>1
  <1>4. Fills(Pairs("id_map", ks, e), "id_map", KeySet(ks))
    BY <1>3, PairsFill, Zenon
  <1>5. \E u \in {{}, {"unit"}} : Fills(unit, "id_map", u)
    BY <1>2, PairFills, FillsNothing, Zenon
  <1>6. PICK u \in {{}, {"unit"}} : Fills(unit, "id_map", u)
    BY <1>5
  <1>7. KeySet(ks) \cap u = {}
    BY <1>1, <1>6 DEF KeySet
  <1>8. Fills(Pairs("id_map", ks, e) \o unit, "id_map", KeySet(ks) \cup u)
    BY <1>4, <1>6, <1>7, FillsThen
  <1>9. PICK key : key = e.key
    OBVIOUS
  <1>10. Fills(Container("tag_map", key, "m_map", "map",
                         Container("m_map", kind, "id_map", "map", Pairs("id_map", ks, e) \o unit)), "tag_map", {key})
    BY <1>8, ContainerFills, Zenon
  <1> QED BY <1>1, <1>2, <1>9, <1>10, Zenon DEF MetaElement

LEMMA TagGroupFills ==
  ASSUME NEW kind, NEW table, Len(table) \in Nat, NoneTwice(table), NEW tag
  PROVE  Fills(TagGroup(kind, table, tag), "map", {tag})
  <1>1. PICK seqs : seqs = [i \in 1..Len(table) |-> IF table[i].tag = tag THEN MetaElement(kind, table[i]) ELSE <<>>]
    OBVIOUS
  <1>2. PICK K : K = [i \in 1..Len(table) |-> IF table[i].tag = tag THEN {table[i].key} ELSE {}]
    OBVIOUS
  <1>3. IsSeq(seqs) /\ Len(seqs) = Len(table)
    BY <1>1, IsSeqOf
  <1>4. ASSUME NEW i \in 1..Len(seqs) PROVE Fills(seqs[i], "tag_map", K[i])
    <2>1. CASE table[i].tag = tag
      <3>1. seqs[i] = MetaElement(kind, table[i]) /\ K[i] = {table[i].key}
        BY <1>1, <1>2, <1>3, <2>1
      <3> QED BY <3>1, MetaElementFills, Zenon
    <2>2. CASE table[i].tag # tag
      <3>1. seqs[i] = <<>> /\ K[i] = {}
        BY <1>1, <1>2, <1>3, <2>2
      <3> QED BY <3>1, FillsNothing, Zenon
    <2> QED BY <2>1, <2>2
  <1>5. \A i, j \in 1..Len(seqs) : i # j => K[i] \cap K[j] = {}
    BY <1>2, <1>3 DEF NoneTwice
  <1>6. Fills(FlattenSeq(seqs), "tag_map", Before(K, Len(seqs)))
    BY <1>3, <1>4, <1>5, FlattenFills, Zenon
  <1>7. Each(table, LAMBDA e : IF e.tag = tag THEN MetaElement(kind, e) ELSE <<>>) = FlattenSeq(seqs)
    BY <1>1 DEF Each
  <1>8. TagGroup(kind, table, tag) = Container("map", tag, "tag_d_map", "map",
                                               Container("tag_d_map", "d", "tag_map", "map", FlattenSeq(seqs)))
    BY <1>7, Zenon DEF TagGroup
  <1> QED BY <1>6, <1>8, ContainerFills, Zenon

LEMMA MetaTableFills ==
  ASSUME NEW path, NEW kind, NEW table, Len(table) \in Nat, NoneTwice(table)
  PROVE  FillsSome(MetaTable(path, kind, table), "s_diag_meta_data_map", {path})
  <1>1. CASE table = <<>>
    <2>1. MetaTable(path, kind, table) = <<>>
      BY <1>1, Zenon DEF MetaTable
    <2>2. {} \in SUBSET {path}
      OBVIOUS
    <2> QED BY <2>1, <2>2, FillsNothing, Zenon DEF FillsSome
  <1>2. CASE table # <<>>
    <2> DEFINE first(i) == \A j \in 1..(i - 1) : table[j].tag # table[i].tag
    <2>1. PICK seqs : seqs = [i \in 1..Len(table) |-> IF first(i) THEN TagGroup(kind, table, table[i].tag) ELSE <<>>]
      OBVIOUS
    <2>2. MetaTable(path, kind, table) =
            Container("s_diag_meta_data_map", path, "metrics_map", "map",
                      Container("metrics_map", "d", "map", "map", FlattenSeq(seqs)))
      BY <1>2, <2>1, Zenon DEF MetaTable
    <2>3. PICK K : K = [i \in 1..Len(table) |-> IF first(i) THEN {table[i].tag} ELSE {}]
      OBVIOUS
    <2>4. IsSeq(seqs) /\ Len(seqs) = Len(table)
      BY <2>1, IsSeqOf
    <2>5. \A i, j \in 1..Len(seqs) : i # j => K[i] \cap K[j] = {}
      <3>1. ASSUME NEW i \in 1..Len(table), NEW j \in 1..Len(table), i < j, first(j) PROVE table[i].tag # table[j].tag
        <4>1. i \in 1..(j - 1)
          BY <3>1
        <4> QED BY <3>1, <4>1
      <3>2. \A i, j \in 1..Len(table) : i # j /\ first(i) /\ first(j) => table[i].tag # table[j].tag
        <4> HIDE DEF first
        <4>1. \A i, j \in 1..Len(table) : i # j => i < j \/ j < i
          OBVIOUS
        <4> QED BY <3>1, <4>1
      <3> HIDE DEF first
      <3> QED BY <2>3, <2>4, <3>2
    <2> HIDE DEF first
    <2>6. ASSUME NEW i \in 1..Len(seqs) PROVE Fills(seqs[i], "map", K[i])
      <3>1. CASE first(i)
        <4>1. seqs[i] = TagGroup(kind, table, table[i].tag) /\ K[i] = {table[i].tag}
          BY <2>1, <2>3, <2>4, <3>1
        <4>2. PICK tag : tag = table[i].tag
          OBVIOUS
        <4>3. Fills(TagGroup(kind, table, tag), "map", {tag})
          BY TagGroupFills
        <4> QED BY <4>1, <4>2, <4>3, Zenon
      <3>2. CASE ~first(i)
        <4>1. seqs[i] = <<>> /\ K[i] = {}
          BY <2>1, <2>3, <2>4, <3>2
        <4> QED BY <4>1, FillsNothing, Zenon
      <3> QED BY <3>1, <3>2
    <2>7. Fills(FlattenSeq(seqs), "map", Before(K, Len(seqs)))
      BY <2>4, <2>5, <2>6, FlattenFills, Zenon
    <2>8. Fills(MetaTable(path, kind, table), "s_diag_meta_data_map", {path})
      BY <2>2, <2>7, ContainerFills, Zenon
    <2>9. {path} \in SUBSET {path}
      OBVIOUS
    <2> QED BY <2>8, <2>9, Zenon DEF FillsSome
  <1> QED BY <1>1, <1>2

LEMMA CloseIsSeq ==
  ASSUME NEW in, NEW enc
  PROVE  IsSeq(Close(in, enc))
  <1>1. PICK c : c = [op |-> "close", in |-> in, enc |-> enc]
    OBVIOUS
  <1>2. <<c>> \in Seq({c})
    OBVIOUS
  <1> QED BY <1>1, <1>2 DEF Close, IsSeq

LEMMA MetaEndIs ==
  MetaEnd = Close("s_diag_meta_map", "s_diag_meta_data_map")
              \o (Close("s_meta_result_map", "s_diag_meta_map") \o Close("s_meta_encoder", "s_meta_result_map"))
  <1>1. PICK x : x = Close("s_diag_meta_map", "s_diag_meta_data_map")
    OBVIOUS
  <1>2. PICK y : y = Close("s_meta_result_map", "s_diag_meta_map")
    OBVIOUS
  <1>3. PICK z : z = Close("s_meta_encoder", "s_meta_result_map")
    OBVIOUS
  <1>4. IsSeq(x) /\ IsSeq(y) /\ IsSeq(z)
    BY <1>1, <1>2, <1>3, CloseIsSeq, Zenon
  <1>5. (x \o y) \o z = x \o (y \o z)
    BY <1>4, Associates
  <1> QED BY <1>1, <1>2, <1>3, <1>5, Zenon DEF MetaEnd

\* The document of metadata is one complete item, if no table has an entry twice.
THEOREM MetaDocumentWellFormed ==
  ASSUME NEW metrics, Len(metrics) \in Nat, NoneTwice(metrics),
         NEW variables, Len(variables) \in Nat, NoneTwice(variables)
  PROVE  WellFormed(MetaDocument(metrics, variables), "s_meta_encoder")
  <1>1. PICK m : m = MetaTable("M", "m", metrics)
    OBVIOUS
  <1>2. PICK p : p = MetaTable("P", "p", variables)
    OBVIOUS
  <1>3. FillsSome(m, "s_diag_meta_data_map", {"M"}) /\ FillsSome(p, "s_diag_meta_data_map", {"P"})
    BY <1>1, <1>2, MetaTableFills, Zenon
  <1>4. PICK ks \in SUBSET {"M"} : Fills(m, "s_diag_meta_data_map", ks)
    BY <1>3 DEF FillsSome
  <1>5. PICK js \in SUBSET {"P"} : Fills(p, "s_diag_meta_data_map", js)
    BY <1>3 DEF FillsSome
  <1>6. ks \cap js = {}
    OBVIOUS
  <1>7. PICK vs : vs = <<"ver", "ts", "sha256">>
    OBVIOUS
  <1>8. Len(vs) \in Nat /\ (\A i, j \in 1..Len(vs) : vs[i] = vs[j] => i = j) /\ "data" \notin KeySet(vs)
    BY <1>7 DEF KeySet
  <1>9. Fills(Pairs("s_diag_meta_map", vs, ""), "s_diag_meta_map", KeySet(vs))
    BY <1>8, PairsFill, Zenon
  <1>10. PICK begin : begin = Open("s_meta_encoder", "s_meta_result_map", "map")
                                \o Begin("s_meta_result_map", "diagmeta", "s_diag_meta_map")
                                \o Pairs("s_diag_meta_map", vs, "")
                                \o Begin("s_diag_meta_map", "data", "s_diag_meta_data_map")
    OBVIOUS
  <1>11. PICK end : end = Close("s_diag_meta_map", "s_diag_meta_data_map")
                            \o (Close("s_meta_result_map", "s_diag_meta_map") \o Close("s_meta_encoder", "s_meta_result_map"))
    OBVIOUS
  <1>12. WellFormed(begin \o m \o p \o end, "s_meta_encoder")
    BY <1>4, <1>5, <1>6, <1>8, <1>9, <1>10, <1>11, Framed, Zenon
  <1>13. MetaBegin = begin
    BY <1>7, <1>10, Zenon DEF MetaBegin
  <1>14. MetaEnd = end
    BY <1>11, MetaEndIs, Zenon
  <1> QED BY <1>1, <1>2, <1>12, <1>13, <1>14, Zenon DEF MetaDocument
=============================================================================
