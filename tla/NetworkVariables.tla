-------------------------- MODULE NetworkVariables --------------------------
(***************************************************************************)
(* The network variables (esp_diagnostics_network_variables.c): what is    *)
(* told of the access point the station is connected to and its address.   *)
(*                                                                         *)
(* The event loop handles the events of the Wi-Fi driver one after the     *)
(* other and compares with the access point told of before.  Initialising  *)
(* tells of the current one, from another task, while events are handled.  *)
(* A step of a task goes from one report to the next.                      *)
(***************************************************************************)
EXTENDS Integers, SequencesExt

CONSTANTS
  APs,       \* access points: ssid (a sequence), bssid, channel, auth
  AuthModes, Addresses,
  MaxEvents  \* bound: events of the driver

Details == {"ssid", "bssid", "channel", "auth"}
ASSUME NetAssumption == \A ap \in APs : DOMAIN ap = Details

NoAP == [ssid |-> <<>>, bssid |-> 0, channel |-> 0, auth |-> 0]

VARIABLES
  link, ip,    \* external: the access point the station is connected to, its address
  events,      \* external: events not yet handled
  posted,      \* number of events so far
  net,         \* s_priv_data
  handlers,    \* events evt_handler is registered for
  registered,  \* the variables are registered
  loop,        \* the event loop: within evt_handler, what it will remember
  caller,      \* the task in init or deinit: its step, what it read
  told,        \* what the store took last of each detail, and of the disconnects
  lost,        \* history: the details of which the last report failed
  raced        \* history: an event was handled while init told of the link

netVars == <<link, ip, events, posted, net, handlers, registered, loop, caller, told, lost, raced>>
netDriver == <<link, ip, events, posted>>

NetZero == [init |-> FALSE, wifi_connected |-> FALSE, disconn_cnt |-> 0, prev_sta_data |-> NoAP]
LoopIdle == [pc |-> "idle", set |-> <<>>]
CallerIdle == [pc |-> "idle", ap |-> NoAP, ip |-> 0]
Told == Details \cup {"ipv4", "disconn_cnt"}

NetInit ==
  /\ link = NoAP /\ ip = 0 /\ events = <<>> /\ posted = 0
  /\ net = NetZero
  /\ handlers = {} /\ registered = FALSE
  /\ loop = LoopIdle /\ caller = CallerIdle
  /\ told = [d \in Told |-> IF d = "ssid" THEN <<>> ELSE 0]
  /\ lost = {} /\ raced = FALSE

-----------------------------------------------------------------------------
(* External: the Wi-Fi driver and the IP stack *)

Post(event) ==
  /\ posted < MaxEvents /\ posted' = posted + 1
  /\ events' = Append(events, event)
  /\ UNCHANGED <<net, handlers, registered, loop, caller, told, lost, raced>>

Connect(ap) == link = NoAP /\ link' = ap /\ UNCHANGED ip /\ Post([id |-> "connected", set |-> ap])

\* Also after an attempt that failed.
Disconnect == link' = NoAP /\ UNCHANGED ip /\ Post([id |-> "disconnected", set |-> <<>>])

ChangeAuth(mode) ==
  /\ link # NoAP /\ mode # link.auth
  /\ link' = [link EXCEPT !.auth = mode] /\ UNCHANGED ip
  /\ Post([id |-> "authmode", set |-> [auth |-> mode]])

\* A new address, or its loss some time after that of the connection.
ChangeIp(address) ==
  /\ address # ip /\ (link # NoAP \/ address = 0)
  /\ ip' = address /\ UNCHANGED link
  /\ Post([id |-> "ip", set |-> [ipv4 |-> address]])

-----------------------------------------------------------------------------
(* The event loop *)

\* The SSID counts as changed if it differs from the start of the former one.
Changed(prev, ap) ==
  {d \in DOMAIN ap : IF d = "ssid" THEN ~IsPrefix(ap.ssid, prev.ssid) ELSE prev[d] # ap[d]}

\* Reports of these details, of which some fail: the variables are not
\* registered, or the store has no room.
Tell(details, values) ==
  \E failed \in IF registered THEN {{}, details} \cup {{d} : d \in details} ELSE {details} :
    /\ told' = [d \in DOMAIN told |-> IF d \in details \ failed THEN values[d] ELSE told[d]]
    /\ lost' = (lost \ details) \cup failed

\* Faulty variant: a change of the authentication mode is not remembered.
HandleForgetful(event) ==
  CASE event.id = "connected" ->
         /\ net' = [net EXCEPT !.wifi_connected = TRUE]
         /\ Tell(Changed(net.prev_sta_data, event.set), event.set)
         /\ loop' = [pc |-> "remember", set |-> event.set]
    [] event.id \in {"authmode", "ip"} -> Tell(DOMAIN event.set, event.set) /\ UNCHANGED <<net, loop>>
    [] OTHER -> UNCHANGED <<net, told, lost, loop>>

\* evt_handler, up to where it writes what it will compare with.
Handle(event) ==
  CASE event.id = "connected" ->
         /\ net' = [net EXCEPT !.wifi_connected = TRUE]
         /\ Tell(Changed(net.prev_sta_data, event.set), event.set)
         /\ loop' = [pc |-> "remember", set |-> event.set]
    [] event.id = "disconnected" /\ net.wifi_connected ->
         /\ net' = [net EXCEPT !.wifi_connected = FALSE, !.disconn_cnt = @ + 1]
         /\ Tell({"disconn_cnt"}, net') /\ UNCHANGED loop
    [] event.id = "authmode" ->
         /\ Tell({"auth"}, event.set)
         /\ loop' = [pc |-> "remember", set |-> event.set] /\ UNCHANGED net
    [] event.id = "ip" -> Tell({"ipv4"}, event.set) /\ UNCHANGED <<net, loop>>
    [] OTHER -> UNCHANGED <<net, told, lost, loop>>

\* An event for which no handler is registered is dropped.
Handled == (IF Head(events).id = "ip" THEN "ip" ELSE "wifi") \in handlers
Telling == caller.pc \in {"copy", "tell", "tell_ip"}

Dispatch ==
  /\ loop.pc = "idle" /\ events # <<>>
  /\ events' = Tail(events)
  /\ IF Handled THEN Handle(Head(events)) ELSE UNCHANGED <<net, told, lost, loop>>
  /\ raced' = (raced \/ (Handled /\ Telling))
  /\ UNCHANGED <<link, ip, posted, handlers, registered, caller>>

Remember ==
  /\ loop.pc = "remember"
  /\ net' = [net EXCEPT !.prev_sta_data =
               [d \in Details |-> IF d \in DOMAIN loop.set THEN loop.set[d] ELSE @[d]]]
  /\ loop' = LoopIdle
  /\ raced' = (raced \/ Telling)
  /\ UNCHANGED <<netDriver, handlers, registered, caller, told, lost>>

-----------------------------------------------------------------------------
(* init and deinit.  Handlers come and go between two events only. *)

\* The first handler stays when the second one cannot be registered.
NetInitStart ==
  /\ caller.pc = "idle" /\ ~net.init /\ loop.pc = "idle"
  /\ \/ handlers' = {"wifi", "ip"} /\ caller' = [caller EXCEPT !.pc = "register"]
     \/ handlers' \in {handlers, handlers \cup {"wifi"}} /\ UNCHANGED caller
  /\ UNCHANGED <<netDriver, net, registered, loop, told, lost, raced>>

NetInitRead ==
  /\ caller.pc = "register"
  /\ registered' = TRUE
  /\ net' = [net EXCEPT !.prev_sta_data = NoAP]
  /\ caller' = [caller EXCEPT !.pc = "copy", !.ap = link]
  /\ UNCHANGED <<netDriver, handlers, loop, told, lost>>
  /\ raced' = (raced \/ loop.pc # "idle")

NetInitCopy ==
  /\ caller.pc = "copy"
  /\ net' = IF caller.ap = NoAP THEN net
            ELSE [net EXCEPT !.prev_sta_data = caller.ap, !.wifi_connected = TRUE]
  /\ caller' = [caller EXCEPT !.pc = "tell"]
  /\ UNCHANGED <<netDriver, handlers, registered, loop, told, lost, raced>>

NetInitTell ==
  /\ caller.pc = "tell"
  /\ Tell(IF caller.ap = NoAP THEN {} ELSE Details, caller.ap)
  /\ caller' = [caller EXCEPT !.pc = "tell_ip", !.ip = ip]
  /\ UNCHANGED <<netDriver, net, handlers, registered, loop, raced>>

\* An interface that is up without an address has the address zero told.
NetInitTellIp ==
  /\ caller.pc = "tell_ip"
  /\ \E address \in IF caller.ip = 0 THEN {{}, {"ipv4"}} ELSE {{"ipv4"}} :
       Tell({"disconn_cnt"} \cup address, [disconn_cnt |-> net.disconn_cnt, ipv4 |-> caller.ip])
  /\ net' = [net EXCEPT !.init = TRUE]
  /\ caller' = CallerIdle
  /\ UNCHANGED <<netDriver, handlers, registered, loop, raced>>

NetDeinitStart ==
  /\ caller.pc = "idle" /\ net.init /\ loop.pc = "idle"
  /\ handlers' = {} /\ caller' = [caller EXCEPT !.pc = "clear"]
  /\ UNCHANGED <<netDriver, net, registered, loop, told, lost, raced>>

NetDeinitEnd ==
  /\ caller.pc = "clear"
  /\ registered' = FALSE /\ net' = NetZero
  /\ caller' = CallerIdle
  /\ UNCHANGED <<netDriver, handlers, loop, told, lost, raced>>

NetNext ==
  \/ \E ap \in APs : Connect(ap)
  \/ Disconnect
  \/ \E mode \in AuthModes : ChangeAuth(mode)
  \/ \E address \in {0} \cup Addresses : ChangeIp(address)
  \/ Dispatch \/ Remember
  \/ NetInitStart \/ NetInitRead \/ NetInitCopy \/ NetInitTell \/ NetInitTellIp
  \/ NetDeinitStart \/ NetDeinitEnd

-----------------------------------------------------------------------------
(* Properties *)

NetQuiet == net.init /\ caller.pc = "idle" /\ loop.pc = "idle" /\ events = <<>>

\* When all events are handled, what was told last of the access point (but
\* for its SSID) and of the address is so of those the station has, whatever
\* came and went before and during init; unless the last report of that detail
\* was refused, or an event was handled while init told of the link.  A detail
\* that is zero, as the mode of an open network, may not be told either: it
\* equals what init cleared, and counts as known.
LinkTold ==
  NetQuiet /\ ~raced =>
    /\ link # NoAP =>
         \A d \in Details \ ({"ssid"} \cup lost) : told[d] = link[d] \/ link[d] = NoAP[d]
    /\ ip # 0 /\ "ipv4" \notin lost => told["ipv4"] = ip

\* The comment on init says that otherwise the details of the Wi-Fi are
\* recorded in the event handler: the SSID, too, is told when it changed.
SsidTold ==
  NetQuiet /\ link # NoAP /\ ~raced /\ "ssid" \notin lost => told["ssid"] = link.ssid

=============================================================================
