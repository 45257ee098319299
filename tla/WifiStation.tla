---------------------------- MODULE WifiStation ----------------------------
(***************************************************************************)
(* The Wi-Fi station (src/main/wifi.cpp): three parties share the driver   *)
(* and CONNECTED_BIT.  app_main() starts the first connection, the system  *)
(* event loop runs event_handler() on the driver's events, and the console *)
(* task runs wifi_join() for the "join" command.  The device may restart   *)
(* between any two steps: the console's "reset", an abort of one of the    *)
(* ESP_ERROR_CHECKs, the power; the stored configuration survives.         *)
(*                                                                         *)
(* The driver is external.  It posts its events to a queue; the event loop *)
(* handles them later, one at a time.                                      *)
(***************************************************************************)
EXTENDS Naturals, Sequences

CONSTANTS
    Networks,    \* access points the station can be told to join
    Builtin,     \* the one written into the code
    MaxEvents,   \* bound: events the loop has not handled
    MaxRestarts  \* bound: restarts of the device

ASSUME WifiAssumption ==
    Builtin \in Networks /\ MaxEvents \in Nat \ {0} /\ MaxRestarts \in Nat

VARIABLES
    sta,       \* the driver: "idle", "connecting", "associated" or "up"
    ap,        \* the network it connects or is connected to
    config,    \* the configuration in flash (a network, or "none")
    events,    \* posted and not handled, oldest first
    bit,       \* CONNECTED_BIT of wifi_event_group
    handler,   \* event loop: "idle", or half way through "disconnected"
    boot,      \* app_main: "config", "connect" or "done"
    join,      \* console task: which call of wifi_join() is next
    target,    \* the network it was asked for
    reached,   \* ghost: the network got up since this join was issued
    restarts   \* restarts so far

driver == <<sta, ap, config>>
console == <<join, target, reached>>
vars == <<driver, events, bit, handler, boot, console, restarts>>

Init ==
    /\ sta = "idle" /\ ap = "none"
    /\ config \in Networks \cup {"none"}
    /\ events = <<>>
    /\ bit = FALSE
    /\ handler = "idle"
    /\ boot = "config"
    /\ join = "idle" /\ target = "none" /\ reached = FALSE
    /\ restarts = 0
-----------------------------------------------------------------------------
(* Calls into the driver (external).  esp_wifi_connect() starts from the   *)
(* stored configuration and does nothing to a station that is on its way;  *)
(* esp_wifi_disconnect() ends what there is, and posts the event for it.   *)
DriverConnect ==
    IF sta = "idle" /\ config # "none"
    THEN sta' = "connecting" /\ ap' = config
    ELSE UNCHANGED <<sta, ap>>

DriverDisconnect ==
    IF sta = "idle"
    THEN UNCHANGED <<sta, ap, events>>
    ELSE /\ Len(events) < MaxEvents
         /\ sta' = "idle" /\ ap' = "none"
         /\ events' = Append(events, "disconnected")

Associate ==
    /\ sta = "connecting"
    /\ sta' = "associated"
    /\ UNCHANGED <<ap, config, events, bit, handler, boot, console, restarts>>

GetIp ==
    /\ sta = "associated"
    /\ Len(events) < MaxEvents
    /\ sta' = "up"
    /\ events' = Append(events, "got_ip")
    /\ reached' = (reached \/ ap = target)
    /\ UNCHANGED <<ap, config, bit, handler, boot, join, target, restarts>>

(* the access point refuses, or the connection is lost *)
Lose ==
    /\ sta # "idle"
    /\ Len(events) < MaxEvents
    /\ sta' = "idle" /\ ap' = "none"
    /\ events' = Append(events, "disconnected")
    /\ UNCHANGED <<config, bit, handler, boot, console, restarts>>
-----------------------------------------------------------------------------
(* initialise_wifi(): the stored configuration, if there is one, gets the  *)
(* built-in network                                                        *)
BootConfig ==
    /\ boot = "config"
    /\ IF config = "none"
       THEN boot' = "done" /\ UNCHANGED config
       ELSE boot' = "connect" /\ config' = Builtin
    /\ UNCHANGED <<sta, ap, events, bit, handler, console, restarts>>

BootConnect ==
    /\ boot = "connect"
    /\ DriverConnect
    /\ boot' = "done"
    /\ UNCHANGED <<config, events, bit, handler, console, restarts>>
-----------------------------------------------------------------------------
(* mistakes: the bit is not cleared; the station is not told to connect *)
HandleDisconnectedKeepsBit ==
    /\ handler = "idle"
    /\ events # <<>> /\ Head(events) = "disconnected"
    /\ DriverConnect
    /\ events' = Tail(events)
    /\ UNCHANGED <<config, bit, handler, boot, console, restarts>>
HandleDisconnectedGivesUp ==
    /\ handler = "idle"
    /\ events # <<>> /\ Head(events) = "disconnected"
    /\ events' = Tail(events)
    /\ handler' = "clear"
    /\ UNCHANGED <<driver, bit, boot, console, restarts>>

(* event_handler(), in the task of the event loop *)
HandleDisconnected ==
    /\ handler = "idle"
    /\ events # <<>> /\ Head(events) = "disconnected"
    /\ DriverConnect
    /\ events' = Tail(events)
    /\ handler' = "clear"
    /\ UNCHANGED <<config, bit, boot, console, restarts>>

ClearBit ==
    /\ handler = "clear"
    /\ bit' = FALSE
    /\ handler' = "idle"
    /\ UNCHANGED <<driver, events, boot, console, restarts>>

HandleGotIp ==
    /\ handler = "idle"
    /\ events # <<>> /\ Head(events) = "got_ip"
    /\ bit' = TRUE
    /\ events' = Tail(events)
    /\ UNCHANGED <<driver, handler, boot, console, restarts>>
-----------------------------------------------------------------------------
(* The device restarts, between any two steps. *)
Restart ==
    /\ restarts < MaxRestarts
    /\ restarts' = restarts + 1
    /\ sta' = "idle" /\ ap' = "none"
    /\ events' = <<>>
    /\ bit' = FALSE
    /\ handler' = "idle"
    /\ boot' = "config"
    /\ join' = "idle" /\ target' = "none" /\ reached' = FALSE
    /\ UNCHANGED config
-----------------------------------------------------------------------------
(* wifi_join() and the command around it, in the console task *)
Join(n) ==
    /\ boot = "done"
    /\ join \in {"idle", "connected", "timed out"}
    /\ target' = n
    /\ reached' = FALSE
    /\ DriverDisconnect
    /\ join' = "set_config"
    /\ UNCHANGED <<config, bit, handler, boot, restarts>>

JoinSetConfig ==
    /\ join = "set_config"
    /\ config' = target
    /\ join' = "connect"
    /\ UNCHANGED <<sta, ap, events, bit, handler, boot, target, reached, restarts>>

(* The driver may refuse a configuration while it is connecting, as it is  *)
(* when the handler has reconnected since the disconnect: ESP_ERROR_CHECK  *)
(* aborts, and the device restarts with the old one.                       *)
JoinAborts ==
    /\ join = "set_config"
    /\ sta = "connecting"
    /\ Restart

JoinConnect ==
    /\ join = "connect"
    /\ DriverConnect
    /\ join' = "wait"
    /\ UNCHANGED <<config, events, bit, handler, boot, target, reached, restarts>>

(* xEventGroupWaitBits() returns with the bit, which may be set already;   *)
(* the bit is not cleared                                                  *)
JoinSees ==
    /\ join = "wait"
    /\ bit
    /\ join' = "connected"
    /\ UNCHANGED <<driver, events, bit, handler, boot, target, reached, restarts>>

JoinTimeout ==
    /\ join = "wait"
    /\ ~bit
    /\ join' = "timed out"
    /\ UNCHANGED <<driver, events, bit, handler, boot, target, reached, restarts>>

Boot    == BootConfig \/ BootConnect
Handler == HandleDisconnected \/ ClearBit \/ HandleGotIp
Joining == JoinSetConfig \/ JoinAborts \/ JoinConnect \/ JoinSees \/ JoinTimeout
Console == Joining \/ \E n \in Networks : Join(n)
Driver  == Associate \/ GetIp \/ Lose

Next == Boot \/ Handler \/ Console \/ Driver \/ Restart

Spec == Init /\ [][Next]_vars

(* Every task that can run is scheduled, and the driver goes on with a     *)
(* connection it has begun unless it is lost.                              *)
FairSpec ==
    /\ Spec
    /\ WF_vars(Boot) /\ WF_vars(Handler) /\ WF_vars(Joining)
    /\ SF_vars(Associate) /\ SF_vars(GetIp)
-----------------------------------------------------------------------------
Event == {"disconnected", "got_ip"}

(* Every variable stays in its type. *)
TypeOK ==
    /\ sta \in {"idle", "connecting", "associated", "up"}
    /\ ap \in Networks \cup {"none"} /\ config \in Networks \cup {"none"}
    /\ events \in Seq(Event) /\ Len(events) <= MaxEvents
    /\ bit \in BOOLEAN /\ reached \in BOOLEAN
    /\ handler \in {"idle", "clear"}
    /\ boot \in {"config", "connect", "done"}
    /\ join \in {"idle", "set_config", "connect", "wait", "connected", "timed out"}
    /\ target \in Networks \cup {"none"}
    /\ restarts \in 0..MaxRestarts

(* When the event loop has caught up with the driver, CONNECTED_BIT says   *)
(* whether the station has an address, whatever order the connections,     *)
(* losses and joins came in (the handler reconnects before it clears).     *)
BitFollowsStation ==
    (events = <<>> /\ handler = "idle") => (bit <=> sta = "up")

(* The station is never left alone: once it has been told to connect, it   *)
(* is on its way or up, or somebody is about to tell it again.             *)
NeverAbandoned ==
    (boot = "done" /\ config # "none" /\ sta = "idle") =>
        \/ \E j \in DOMAIN events : events[j] = "disconnected"
        \/ join \in {"set_config", "connect"}

(* A station that has a network to join gets an address again and again,   *)
(* however often the connection is lost.                                   *)
KeepsComingBack == [](config # "none" => <>(sta = "up"))

(* "Connected" (wifi.cpp:112) after "Join WiFi AP as a station"            *)
(* (wifi.cpp:124): the join command reports success only if the station    *)
(* got an address from the network it was asked to join since it was asked.*)
JoinedMeansReached == join = "connected" => reached
=============================================================================
