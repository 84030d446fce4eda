------------------------- MODULE MCInsightsLifecycle -------------------------
(* The model-checking instance of InsightsLifecycle.                       *)
EXTENDS InsightsLifecycle
=============================================================================
