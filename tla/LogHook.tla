------------------------------- MODULE LogHook -------------------------------
(***************************************************************************)
(* The arguments of a log message (esp_diagnostics_log_hook.c): how a      *)
(* printf format and a va_list become type-length-value entries in a       *)
(* buffer of bounded size, and how encode_msg_args reads them back.        *)
(*                                                                         *)
(* A directive is its number of "*" for width or precision, its length     *)
(* modifier, its conversion and, for %s, the length of the string passed.  *)
(* A va_list is a sequence of 32-bit words, each known by the directive it *)
(* was passed for; a byte by its word.                                     *)
(***************************************************************************)
EXTENDS Cbor

CONSTANT MaxArgs   \* CONFIG_DIAG_LOG_MSG_ARG_MAX_SIZE

ASSUME ArgsAssumption == MaxArgs \in Nat

Mods == {"none", "hh", "h", "l", "ll", "j", "z", "t", "L"}
Directives == [stars : 0..2, mod : Mods, conv : STRING, strlen : Nat]
Signed == {"d", "i"}
Unsigned == {"o", "u", "x", "X", "p"}
Floating == {"a", "A", "e", "E", "f", "F", "g", "G"}

\* Type and length of an entry, and the words taken for it by va_arg.
Entry(type, len) == [type |-> type, len |-> len, words |-> (len + 3) \div 4]
Skip(words) == [type |-> "none", len |-> 0, words |-> words]

SignedArg == [none |-> Entry("INT", 4), z |-> Entry("INT", 4), hh |-> Entry("CHAR", 1),
              h |-> Entry("SHORT", 2), l |-> Entry("L", 4), ll |-> Entry("LL", 8),
              j |-> Entry("INTMAX", 8), t |-> Entry("PTRDIFF", 4), L |-> Skip(0)]
UnsignedArg == [none |-> Entry("UINT", 4), t |-> Entry("UINT", 4), hh |-> Entry("UCHAR", 1),
                h |-> Entry("USHORT", 2), l |-> Entry("UL", 4), ll |-> Entry("ULL", 8),
                j |-> Entry("UINTMAX", 8), z |-> Entry("SIZE", 4), L |-> Skip(0)]
FloatArg(mod) == IF mod \in {"none", "l"} THEN Entry("DOUBLE", 8)
                 ELSE IF mod = "L" THEN Entry("LDOUBLE", 8) ELSE Skip(0)

\* A conversion that is not known takes one word: "%%" does, and "*", at which
\* the parser stops, so that what follows it is text.  The length of a string
\* is kept in eight bits.
ArgOf(d) ==
  IF d.stars > 0 THEN Skip(1) ELSE
  CASE d.conv \in Signed -> SignedArg[d.mod]
    [] d.conv \in Unsigned -> UnsignedArg[d.mod]
    [] d.conv \in Floating -> FloatArg(d.mod)
    [] d.conv = "D" -> Entry("L", 4)
    [] d.conv \in {"O", "U"} -> Entry("ULL", 4)
    [] d.conv = "c" -> Entry("CHAR", 1)
    [] d.conv = "s" -> [type |-> "STR", len |-> d.strlen % 256, words |-> 1]
    [] OTHER -> Skip(1)

\* External: the words a caller passes for a directive, by the C standard: the
\* widths and precisions, then the value.
Passed(d) == d.stars +
  CASE d.conv = "%" -> 0
    [] d.conv \in Floating \/ (d.mod \in {"ll", "j"} /\ d.conv \in Signed \cup Unsigned) -> 2
    [] OTHER -> 1

\* External: the va_list of a call with this format.
VaList(format) ==
  FlattenSeq([k \in 1..Len(format) |-> [w \in 1..Passed(format[k]) |-> [arg |-> k, word |-> w]]])

\* va_arg past the last argument finds garbage.
Garbage == [arg |-> 0, word |-> 0]
Take(ap, n) == [w \in 1..n |-> IF w <= Len(ap) THEN ap[w] ELSE Garbage]

\* The bytes of an entry's value: of the words taken, or of the string.
Value(a, words) ==
  [b \in 1..a.len |-> IF a.type = "STR" THEN [word |-> words[1], byte |-> b]
                      ELSE [word |-> words[(b - 1) \div 4 + 1], byte |-> (b - 1) % 4]]

\* Faulty variant: the two bytes of type and length are not counted.
AppendUncounted(out, a, words) ==
  IF Len(out) + a.len > MaxArgs THEN out ELSE out \o <<a.type, a.len>> \o Value(a, words)

\* The entry is appended if it fits.
AppendArg(out, a, words) ==
  IF Len(out) + 2 + a.len > MaxArgs THEN out ELSE out \o <<a.type, a.len>> \o Value(a, words)

\* The next argument is taken; the first entry that does not fit ends the parsing.
Parsed(st, a, out) ==
  [ap |-> SubSeq(st.ap, a.words + 1, Len(st.ap)), out |-> out,
   full |-> a.type # "none" /\ out = st.out]
ParseArg(st, a) ==
  IF st.full THEN st
  ELSE Parsed(st, a, IF a.type = "none" THEN st.out ELSE AppendArg(st.out, a, Take(st.ap, a.words)))
ParseDirective(st, d) == ParseArg(st, ArgOf(d))

\* get_tlv_from_ap: the buffer of arguments of a message.
Tlv(format) ==
  LET Parse[k \in 0..Len(format)] ==
        IF k = 0 THEN [ap |-> VaList(format), out |-> <<>>, full |-> FALSE]
        ELSE ParseDirective(Parse[k - 1], format[k])
  IN Parse[Len(format)].out

\* encode_msg_args: the entries, read from the bytes.
ReadArg(tlv, st) ==
  IF st.i >= Len(tlv) THEN st
  ELSE LET len == tlv[st.i + 2]
       IN [i |-> st.i + 2 + len,
           args |-> Append(st.args, [type |-> tlv[st.i + 1], value |-> SubSeq(tlv, st.i + 3, st.i + 2 + len)])]
Args(tlv) ==
  LET Reads[k \in 0..Len(tlv)] ==
        IF k = 0 THEN [i |-> 0, args |-> <<>>] ELSE ReadArg(tlv, Reads[k - 1])
  IN Reads[Len(tlv)].args

\* The array "av" of a log element.
MsgArgs(element, tlv) ==
  Container(element, "av", "arg_list", "array", Puts("arg_list", Args(tlv)))

\* How often one call of esp_log_write or esp_log_writev is recorded.  The
\* first, wrapped, looks for the tag "wifi" and goes on to the second, wrapped
\* too, which looks for any other tag.
TimesRecorded(via, wifi) ==
  CASE via = "write" -> (IF wifi THEN 1 ELSE 0) + (IF wifi THEN 0 ELSE 1)
    [] via = "writev" -> IF wifi THEN 0 ELSE 1
    [] via = "event" -> 1

=============================================================================
