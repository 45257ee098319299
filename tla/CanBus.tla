------------------------------- MODULE CanBus -------------------------------
(***************************************************************************)
(* The CAN bus (src/main/CAN.hpp): handle_alerts() waits for an alert of   *)
(* the driver and then takes every message out of its queue, until its     *)
(* time is over.                                                           *)
(*                                                                         *)
(* The driver and the bus are external.  An alert stays set until it is    *)
(* read, which clears all of them; a message that finds the queue full is  *)
(* lost.  The module has no next-state relation of its own: Board runs it. *)
(***************************************************************************)
EXTENDS Naturals

CONSTANT RxRoom   \* messages the queue of the driver holds

VARIABLES
    node,      \* driver: "off", "active", "passive", "bus off", "recovering"
               \* or "stopped"
    rx,        \* driver: messages in its queue
    alerts,    \* driver: alerts that are set
    call       \* handle_alerts(): "none", "wait" or "drain"

driver == <<node, rx, alerts>>
can == <<driver, call>>

Init == node = "off" /\ rx = 0 /\ alerts = {} /\ call = "none"

(* the driver starts; a restart of the processor turns it off *)
Setup == node' = "active" /\ UNCHANGED <<rx, alerts, call>>
Restart == node' = "off" /\ rx' = 0 /\ alerts' = {} /\ call' = "none"
-----------------------------------------------------------------------------
Receive ==
    /\ node \in {"active", "passive"}
    /\ rx < RxRoom
    /\ rx' = rx + 1
    /\ alerts' = alerts \cup {"RX_DATA"}
    /\ UNCHANGED <<node, call>>

(* errors on the bus come and go *)
Degrade ==
    /\ \/ node = "active"  /\ node' = "passive" /\ alerts' = alerts \cup {"ERR_PASS"}
       \/ node = "passive" /\ node' = "bus off" /\ UNCHANGED alerts
    /\ UNCHANGED <<rx, call>>

Improve ==
    /\ \/ node = "passive" /\ node' = "active"
       \/ node = "recovering" /\ node' = "stopped"
    /\ UNCHANGED <<rx, alerts, call>>

Bus == Receive \/ Degrade \/ Improve
-----------------------------------------------------------------------------
(* handle_alerts() *)
Begin == call = "none" /\ call' = "wait" /\ UNCHANGED driver

(* the driver begins to recover only if it is bus-off by now *)
ReadAlerts ==
    /\ call = "wait"
    /\ alerts # {}
    /\ alerts' = {}
    /\ node' = IF "ERR_PASS" \in alerts /\ node = "bus off" THEN "recovering" ELSE node
    /\ call' = "drain"
    /\ UNCHANGED rx

(* no alert in time: the queue is looked at all the same *)
ReadTimeout ==
    /\ call = "wait"
    /\ alerts = {}
    /\ call' = "drain"
    /\ UNCHANGED driver

Drain ==
    /\ call = "drain"
    /\ rx > 0
    /\ rx' = rx - 1
    /\ UNCHANGED <<node, alerts, call>>

(* mistake: one message for one alert *)
DrainedOne ==
    /\ call = "drain"
    /\ call' \in {"wait", "none"}
    /\ UNCHANGED driver

(* twai_receive() finds none: once more, unless the time is over *)
Drained ==
    /\ call = "drain"
    /\ rx = 0
    /\ call' \in {"wait", "none"}
    /\ UNCHANGED driver

HandleAlerts == Begin \/ ReadAlerts \/ ReadTimeout \/ Drain \/ Drained
-----------------------------------------------------------------------------
TypeOK ==
    /\ node \in {"off", "active", "passive", "bus off", "recovering", "stopped"}
    /\ rx \in 0..RxRoom
    /\ alerts \subseteq {"RX_DATA", "ERR_PASS"}
    /\ call \in {"none", "wait", "drain"}

(* No message sits in the queue while the task sleeps without an alert to  *)
(* wake it: one that comes in between the reading of the alerts and the    *)
(* end of the draining, or finds other alerts set, is not left behind.     *)
NoLostWakeup == (call = "wait" /\ rx > 0) => "RX_DATA" \in alerts
=============================================================================
