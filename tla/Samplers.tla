------------------------------ MODULE Samplers ------------------------------
(***************************************************************************)
(* The code that samples the system: network variables, Wi-Fi metrics and  *)
(* heap metrics.  They share the registries and the store, which may       *)
(* refuse any report, and nothing else: a behaviour looks at one of them.  *)
(***************************************************************************)
EXTENDS NetworkVariables, WifiMetrics, HeapMetrics

VARIABLE focus   \* the one looked at

vars == <<netVars, wifiVars, heapVars, focus>>

Init == NetInit /\ WifiInit /\ HeapInit /\ focus \in {"net", "wifi", "heap"}

Next ==
  /\ UNCHANGED focus
  /\ \/ focus = "net" /\ NetNext /\ UNCHANGED <<wifiVars, heapVars>>
     \/ focus = "wifi" /\ WifiNext /\ UNCHANGED <<netVars, heapVars>>
     \/ focus = "heap" /\ HeapNext /\ UNCHANGED <<netVars, wifiVars>>

Spec == Init /\ [][Next]_vars

=============================================================================
