---------------------------- MODULE MCRingBuffer ----------------------------
(* Instances of RingBuffer for TLC: a buffer of a few bytes, so that every *)
(* record length, every read offset and every wrap occurs.  A record is    *)
(* written in up to three pieces as in the non-critical buffer (index,     *)
(* header and data of one byte each at least); records of two bytes are    *)
(* written in two, as in the critical buffer.                              *)
EXTENDS RingBuffer

CONSTANTS MinRecord, MaxRecord, a, b

MCByte == {a, b}
MCRecords == UNION {[1..n -> MCByte] : n \in MinRecord..MaxRecord}
MCGarbage == [buf         : {[i \in 0..Size-1 |-> a]},
              read_offset : {0, 1, Size, Size + 1} \cap Offset,
              filled      : {0, Size - 1, Size, Size + 1} \cap Offset]
Pieces == {1, 2}
=============================================================================
