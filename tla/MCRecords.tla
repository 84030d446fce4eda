------------------------------ MODULE MCRecords ------------------------------
(* The model-checking instance of Records: sizes that keep their order      *)
(* (a string point is longer than another, the header shorter than both).   *)
EXTENDS Records

Dir(mod, conv) == [stars |-> 0, mod |-> mod, conv |-> conv, strlen |-> 0]
Str(n) == [stars |-> 0, mod |-> "none", conv |-> "s", strlen |-> n]

\* A string longer than its length byte can tell, before arguments that fill
\* the buffer so that the last does not fit; and directives the parser takes
\* otherwise than they were passed.
MCFormats ==
  << <<Str(257), Dir("hh", "d"), Dir("ll", "x"), Dir("none", "c")>>,
     <<Dir("h", "u"), Dir("none", "f"), [Dir("none", "d") EXCEPT !.stars = 1],
       Dir("none", "%"), Dir("none", "c")>> >>
=============================================================================
