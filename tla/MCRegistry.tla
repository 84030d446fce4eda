----------------------------- MODULE MCRegistry -----------------------------
(* The model-checking instance of Registry.                                *)
EXTENDS Registry

\* No log messages.
NoFormats == <<>>

\* Tags are only compared with tags, and keys with keys.
Names == Permutations(Tags) \cup Permutations(Keys)
=============================================================================
