-------------------------------- MODULE Cbor --------------------------------
(***************************************************************************)
(* A document as the sequence of calls made to the TinyCBOR encoder, and   *)
(* when these calls yield well-formed CBOR.  Encoders are named by the     *)
(* variable that holds them: an encoder that creates a container is not    *)
(* used until that container is closed, a map holds pairs, no key twice.   *)
(***************************************************************************)
EXTENDS Naturals, Sequences, SequencesExt

Open(in, enc, kind) == <<[op |-> "open", in |-> in, enc |-> enc, kind |-> kind]>>
Close(in, enc) == <<[op |-> "close", in |-> in, enc |-> enc]>>
Key(in, k) == <<[op |-> "key", in |-> in, key |-> k]>>
Put(in, v) == <<[op |-> "put", in |-> in, val |-> v]>>
Pair(in, k, v) == <<[op |-> "pair", in |-> in, key |-> k, val |-> v]>>

\* What Op yields for the members of s, one after the other.
Each(s, Op(_)) == FlattenSeq([i \in 1..Len(s) |-> Op(s[i])])

\* A pair with the same value for every key; these values, one after the other.
Pairs(in, keys, v) == Each(keys, LAMBDA k : Pair(in, k, v))
Puts(in, vals) == Each(vals, LAMBDA v : Put(in, v))

\* {key : [ body ]} or {key : { body }} within the map in.
Container(in, key, enc, kind, body) ==
  Key(in, key) \o Open(in, enc, kind) \o body \o Close(in, enc)

\* key : { within the map in; it is closed later.
Begin(in, key, enc) == Key(in, key) \o Open(in, enc, "map")

\* { body } within the array in.
Element(in, enc, body) == Open(in, enc, "map") \o body \o Close(in, enc)

\* The encoders in use, innermost last: what they hold, and their keys.
Level(enc, kind) == [enc |-> enc, kind |-> kind, n |-> 0, keys |-> {}]
Broken == <<>>
KeyNext(level) == level.kind = "map" /\ level.n % 2 = 0

\* n more items, among them these keys.
Items(stack, n, keys) ==
  LET top == Last(stack) IN
  IF keys \cap top.keys # {} THEN Broken
  ELSE Append(Front(stack), [enc |-> top.enc, kind |-> top.kind, n |-> top.n + n, keys |-> top.keys \cup keys])

Step(stack, c) ==
  IF stack = Broken \/ (c.op # "close" /\ Last(stack).enc # c.in) THEN Broken
  ELSE CASE c.op = "pair" /\ KeyNext(Last(stack)) -> Items(stack, 2, {c.key})
         [] c.op = "key" /\ KeyNext(Last(stack)) -> Items(stack, 1, {c.key})
         [] c.op = "put" /\ ~KeyNext(Last(stack)) -> Items(stack, 1, {})
         [] c.op = "open" /\ ~KeyNext(Last(stack)) -> Append(Items(stack, 1, {}), Level(c.enc, c.kind))
         [] c.op = "close" /\ Len(stack) > 1 /\ Last(stack).enc = c.enc
              /\ stack[Len(stack) - 1].enc = c.in
              /\ (Last(stack).kind = "map" => KeyNext(Last(stack))) -> Front(stack)
         [] OTHER -> Broken

\* The calls yield one complete item written by root.
WellFormed(calls, root) ==
  LET After[i \in 0..Len(calls)] ==
        IF i = 0 THEN <<Level(root, "array")>> ELSE Step(After[i - 1], calls[i])
      end == After[Len(calls)]
  IN Len(end) = 1 /\ end[1].n = 1

=============================================================================
