------------------------------ MODULE ByteFifo ------------------------------
(***************************************************************************)
(* What one buffer of the diagnostics data store promises its users: a    *)
(* bounded first-in first-out queue of bytes.  Records enter whole or not *)
(* at all, only the oldest bytes leave, the contents survive a soft reset *)
(* and a cold start finds the queue empty.                                 *)
(*                                                                         *)
(* RingBuffer implements this specification.                               *)
(***************************************************************************)
EXTENDS Integers, Sequences

CONSTANTS Byte,       \* the values a byte of the buffer may have
          Capacity,   \* how many bytes fit
          Records     \* the byte sequences writers may store

VARIABLES fifo,       \* the bytes stored and not yet released, oldest first
          up,         \* the store is initialised
          cold        \* the last reset lost the memory's contents

fifoVars == <<fifo, up, cold>>

\* Whatever RTC memory may hold after power-on, read as a queue.
AnyContents == UNION {[1..n -> Byte] : n \in 0..Capacity}

Init == /\ fifo \in AnyContents
        /\ up = FALSE
        /\ cold = TRUE

Put(rec) == /\ up
            /\ Len(fifo) + Len(rec) <= Capacity
            /\ fifo' = fifo \o rec
            /\ UNCHANGED <<up, cold>>

Drop(n) == /\ up
           /\ fifo' = SubSeq(fifo, n + 1, Len(fifo))
           /\ UNCHANGED <<up, cold>>

Clear == /\ up
         /\ fifo' = <<>>
         /\ UNCHANGED <<up, cold>>

Start == /\ ~up
         /\ up' = TRUE
         /\ fifo' = IF cold THEN <<>> ELSE fifo
         /\ UNCHANGED cold

Stop == /\ up
        /\ up' = FALSE
        /\ UNCHANGED <<fifo, cold>>

SoftReset == /\ up' = FALSE
             /\ cold' = FALSE
             /\ UNCHANGED fifo

PowerLoss == /\ up' = FALSE
             /\ cold' = TRUE
             /\ fifo' \in AnyContents

Next == \/ \E rec \in Records : Put(rec)
        \/ \E n \in 1..Len(fifo) : Drop(n)
        \/ Clear
        \/ Start
        \/ Stop
        \/ SoftReset
        \/ PowerLoss

Spec == Init /\ [][Next]_fifoVars
=============================================================================
