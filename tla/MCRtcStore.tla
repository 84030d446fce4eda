----------------------------- MODULE MCRtcStore -----------------------------
(* Instances of RtcStore for TLC: buffers of one or two records and a table *)
(* of two headers, so that slots are reused while records that point into   *)
(* them are still stored.                                                   *)
EXTENDS RtcStore
=============================================================================
