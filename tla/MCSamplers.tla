----------------------------- MODULE MCSamplers -----------------------------
(* The model-checking instance of Samplers: an SSID that another begins    *)
(* with, an open network, signals on both sides of the threshold.          *)
EXTENDS Samplers

MCAPs == {[ssid |-> <<"a", "b">>, bssid |-> 1, channel |-> 1, auth |-> 1],
          [ssid |-> <<"a">>, bssid |-> 2, channel |-> 1, auth |-> 0]}
MCRssi == {-70, -60, -40}
MCThreshold == -50
=============================================================================
