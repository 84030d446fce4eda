-------------------------- MODULE MCInsightsReport --------------------------
(* Instances of InsightsReport for TLC: a few records, messages, metadata   *)
(* versions and restarts, over either transport.                            *)
EXTENDS InsightsReport
=============================================================================
