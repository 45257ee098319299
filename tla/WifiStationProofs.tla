------------------------- MODULE WifiStationProofs -------------------------
(***************************************************************************)
(* Proofs about WifiStation, for every set of networks, every length of    *)
(* the event queue and every number of restarts.                           *)
(***************************************************************************)
EXTENDS WifiStation, TLAPS

(* The last event that is queued says what the station is now, and the     *)
(* handler clears the bit behind a loss that no connection has followed.   *)
LastEventTells ==
    /\ events # <<>> => (events[Len(events)] = "got_ip" <=> sta = "up")
    /\ (events = <<>> /\ handler = "clear") => sta # "up"

IInv == TypeOK /\ LastEventTells /\ BitFollowsStation /\ NeverAbandoned
-----------------------------------------------------------------------------
(* The queue of events: what a post and a removal leave at its ends. *)
LEMMA PostedIsLast ==
    ASSUME NEW q \in Seq(Event), NEW e \in Event
    PROVE  /\ Append(q, e) \in Seq(Event) /\ Append(q, e) # <<>>
           /\ Len(Append(q, e)) = Len(q) + 1
           /\ Append(q, e)[Len(Append(q, e))] = e
           /\ \A j \in DOMAIN q : j \in DOMAIN Append(q, e) /\ Append(q, e)[j] = q[j]
  OBVIOUS

(* What the event loop takes from its queue, and what it leaves there. *)
LEMMA RemovedIsFirst ==
    ASSUME NEW q \in Seq(Event), q # <<>>
    PROVE  /\ Tail(q) \in Seq(Event)
           /\ Len(Tail(q)) = Len(q) - 1
           /\ Tail(q) # <<>> => Tail(q)[Len(Tail(q))] = q[Len(q)]
           /\ Tail(q) = <<>> => Head(q) = q[Len(q)]
           /\ \A j \in DOMAIN q : q[j] # Head(q) =>
                \E l \in DOMAIN Tail(q) : Tail(q)[l] = q[j]
<1>1. Len(q) \in Nat /\ Len(q) > 0 /\ DOMAIN q = 1..Len(q) /\ Head(q) = q[1]
  OBVIOUS
<1>2. Tail(q) \in Seq(Event) /\ Len(Tail(q)) = Len(q) - 1 /\ DOMAIN Tail(q) = 1..(Len(q) - 1)
  BY <1>1
<1>3. \A l \in 1..(Len(q) - 1) : Tail(q)[l] = q[l + 1]
  BY <1>1
<1>4. \A j \in DOMAIN q : q[j] # Head(q) => \E l \in DOMAIN Tail(q) : Tail(q)[l] = q[j]
  <2> SUFFICES ASSUME NEW j \in DOMAIN q, q[j] # Head(q)
               PROVE  \E l \in DOMAIN Tail(q) : Tail(q)[l] = q[j]
    OBVIOUS
  <2>1. j - 1 \in 1..(Len(q) - 1)
    BY <1>1
  <2>2. Tail(q)[j - 1] = q[j]
    BY <2>1, <1>1, <1>3
  <2> QED
    BY <2>1, <2>2, <1>2
<1>5. Tail(q) # <<>> => Tail(q)[Len(Tail(q))] = q[Len(q)]
  BY <1>1, <1>2, <1>3
<1>6. Tail(q) = <<>> => Head(q) = q[Len(q)]
  BY <1>1, <1>2
<1> QED
  BY <1>2, <1>4, <1>5, <1>6
-----------------------------------------------------------------------------
(* The invariant holds initially. *)
LEMMA InitIInv == Init => IInv
<1> SUFFICES ASSUME Init PROVE IInv
  OBVIOUS
<1>1. TypeOK
  <2>1. events \in Seq(Event) /\ Len(events) <= MaxEvents
    BY WifiAssumption DEF Init
  <2>2. restarts \in 0..MaxRestarts
    BY WifiAssumption DEF Init
  <2> QED
    BY <2>1, <2>2 DEF Init, TypeOK
<1>2. LastEventTells /\ BitFollowsStation /\ NeverAbandoned
  BY DEF Init, LastEventTells, BitFollowsStation, NeverAbandoned
<1> QED
  BY <1>1, <1>2 DEF IInv

(* Every step keeps the invariant. *)
LEMMA NextIInv == IInv /\ [Next]_vars => IInv'
<1> SUFFICES ASSUME IInv, [Next]_vars PROVE IInv'
  OBVIOUS
<1> USE DEF IInv, driver, console
<1>0. "disconnected" \in Event /\ "got_ip" \in Event
  BY DEF Event
<1>1. events \in Seq(Event) /\ Len(events) \in Nat /\ Len(events) <= MaxEvents
  <2>1. TypeOK
    BY DEF IInv
  <2>2. events \in Seq(Event) /\ Len(events) <= MaxEvents
    BY <2>1 DEF TypeOK
  <2> QED
    BY <2>2
<1>2. CASE Boot
  <2>1. TypeOK'
    BY <1>2, WifiAssumption, ZenonT(30) DEF Boot, BootConfig, BootConnect, DriverConnect, TypeOK
  <2>2. LastEventTells' /\ BitFollowsStation'
    BY <1>2, <1>1 DEF Boot, BootConfig, BootConnect, DriverConnect, LastEventTells, BitFollowsStation
  <2>3. NeverAbandoned'
    BY <1>2 DEF Boot, BootConfig, BootConnect, DriverConnect, NeverAbandoned
  <2> QED
    BY <2>1, <2>2, <2>3
<1>3. CASE HandleDisconnected
  <2>1. /\ events # <<>> /\ Head(events) = "disconnected" /\ events' = Tail(events)
        /\ handler = "idle" /\ handler' = "clear"
    BY <1>3 DEF HandleDisconnected
  <2>2. TypeOK'
    <3>1. events' \in Seq(Event) /\ Len(events') <= MaxEvents
      BY <1>1, <2>1, RemovedIsFirst, WifiAssumption
    <3> QED
      BY <1>3, <3>1 DEF HandleDisconnected, DriverConnect, TypeOK
  <2>3. (sta' = "up") <=> (sta = "up")
    BY <1>3 DEF HandleDisconnected, DriverConnect
  <2>4. LastEventTells'
    BY <1>1, <2>1, <2>3, RemovedIsFirst DEF LastEventTells
  <2>5. BitFollowsStation'
    BY <2>1 DEF BitFollowsStation
  <2>6. NeverAbandoned'
    BY <1>3 DEF HandleDisconnected, DriverConnect, NeverAbandoned
  <2> QED
    BY <2>2, <2>4, <2>5, <2>6
<1>4. CASE ClearBit
  <2>1. TypeOK'
    BY <1>4 DEF ClearBit, TypeOK
  <2>2. LastEventTells' /\ BitFollowsStation'
    BY <1>4, <1>1 DEF ClearBit, LastEventTells, BitFollowsStation
  <2>3. NeverAbandoned'
    BY <1>4 DEF ClearBit, NeverAbandoned
  <2> QED
    BY <2>1, <2>2, <2>3
<1>5. CASE HandleGotIp
  <2>1. /\ events # <<>> /\ Head(events) = "got_ip" /\ events' = Tail(events)
        /\ handler = "idle" /\ bit' = TRUE /\ UNCHANGED <<driver, handler, boot, console, restarts>>
    BY <1>5 DEF HandleGotIp
  <2>2. TypeOK'
    <3>1. events' \in Seq(Event) /\ Len(events') <= MaxEvents
      BY <1>1, <2>1, RemovedIsFirst, WifiAssumption
    <3> QED
      BY <2>1, <3>1 DEF TypeOK
  <2>3. LastEventTells'
    BY <1>1, <2>1, RemovedIsFirst DEF LastEventTells
  <2>4. BitFollowsStation'
    BY <1>1, <2>1, RemovedIsFirst DEF LastEventTells, BitFollowsStation
  <2>5. NeverAbandoned'
    BY <1>1, <2>1, RemovedIsFirst DEF NeverAbandoned
  <2> QED
    BY <2>2, <2>3, <2>4, <2>5
<1>6. ASSUME Len(events) < MaxEvents, events' = Append(events, "disconnected"),
             sta' = "idle", UNCHANGED <<handler, bit, restarts>>
      PROVE  /\ events' \in Seq(Event) /\ Len(events') <= MaxEvents
             /\ LastEventTells' /\ BitFollowsStation' /\ NeverAbandoned'
  <2>1. /\ events' \in Seq(Event) /\ events' # <<>> /\ Len(events') = Len(events) + 1
        /\ events'[Len(events')] = "disconnected"
    BY <1>1, <1>6, <1>0, PostedIsLast
  <2>2. \E j \in DOMAIN events' : events'[j] = "disconnected"
    BY <2>1, <1>1
  <2>3. Len(events') <= MaxEvents
    BY <1>1, <1>6, <2>1, WifiAssumption
  <2>4. LastEventTells' /\ BitFollowsStation'
    BY <1>6, <2>1 DEF LastEventTells, BitFollowsStation
  <2> QED
    BY <2>1, <2>2, <2>3, <2>4 DEF NeverAbandoned
<1>7. ASSUME NEW n \in Networks, Join(n) PROVE IInv'
  <2>1. CASE sta = "idle"
    BY <1>7, <2>1 DEF Join, DriverDisconnect, TypeOK, LastEventTells, BitFollowsStation,
       NeverAbandoned
  <2>2. CASE sta # "idle"
    BY <1>6, <1>7, <2>2 DEF Join, DriverDisconnect, TypeOK
  <2> QED
    BY <2>1, <2>2
<1>8. CASE JoinSetConfig
  <2>1. TypeOK'
    BY <1>8 DEF JoinSetConfig, TypeOK
  <2>2. LastEventTells' /\ BitFollowsStation'
    BY <1>8, <1>1 DEF JoinSetConfig, LastEventTells, BitFollowsStation
  <2>3. NeverAbandoned'
    BY <1>8 DEF JoinSetConfig, NeverAbandoned
  <2> QED
    BY <2>1, <2>2, <2>3
<1>9. CASE JoinConnect
  <2>1. TypeOK'
    BY <1>9 DEF JoinConnect, DriverConnect, TypeOK
  <2>2. LastEventTells' /\ BitFollowsStation'
    BY <1>9, <1>1 DEF JoinConnect, DriverConnect, LastEventTells, BitFollowsStation
  <2>3. NeverAbandoned'
    BY <1>9 DEF JoinConnect, DriverConnect, NeverAbandoned
  <2> QED
    BY <2>1, <2>2, <2>3
<1>10. CASE JoinSees \/ JoinTimeout
  <2>1. TypeOK'
    BY <1>10 DEF JoinSees, JoinTimeout, TypeOK
  <2>2. LastEventTells' /\ BitFollowsStation'
    <3>1. UNCHANGED <<events, sta, handler, bit>>
      BY <1>10 DEF JoinSees, JoinTimeout
    <3> QED
      BY <3>1 DEF LastEventTells, BitFollowsStation
  <2>3. NeverAbandoned'
    BY <1>10 DEF JoinSees, JoinTimeout, NeverAbandoned
  <2> QED
    BY <2>1, <2>2, <2>3
<1>11. CASE Associate
  <2>1. TypeOK'
    BY <1>11 DEF Associate, TypeOK
  <2>2. LastEventTells' /\ BitFollowsStation'
    BY <1>11, <1>1 DEF Associate, LastEventTells, BitFollowsStation
  <2>3. NeverAbandoned'
    BY <1>11 DEF Associate, NeverAbandoned
  <2> QED
    BY <2>1, <2>2, <2>3
<1>12. CASE GetIp
  <2>1. /\ events' = Append(events, "got_ip") /\ sta' = "up" /\ Len(events) < MaxEvents
    BY <1>12 DEF GetIp
  <2>2. /\ events' \in Seq(Event) /\ events' # <<>> /\ Len(events') = Len(events) + 1
        /\ events'[Len(events')] = "got_ip"
    BY <1>1, <2>1, <1>0, PostedIsLast
  <2>3. TypeOK'
    <3>1. Len(events') <= MaxEvents
      BY <1>1, <2>1, <2>2, WifiAssumption
    <3> QED
      BY <1>12, <2>1, <2>2, <3>1 DEF GetIp, TypeOK
  <2> QED
    BY <2>1, <2>2, <2>3 DEF LastEventTells, BitFollowsStation, NeverAbandoned
<1>13. CASE Lose
  BY <1>6, <1>13 DEF Lose, TypeOK
<1>14. ASSUME Restart PROVE IInv'
  <2>1. TypeOK'
    <3>1. events' \in Seq(Event) /\ Len(events') <= MaxEvents
      BY <1>14, WifiAssumption DEF Restart
    <3>2. restarts' \in 0..MaxRestarts
      <4>1. restarts \in 0..MaxRestarts
        BY DEF TypeOK
      <4> QED
        BY <1>14, <4>1, WifiAssumption DEF Restart
    <3> QED
      BY <1>14, <3>1, <3>2 DEF Restart, TypeOK
  <2>2. LastEventTells' /\ BitFollowsStation'
    BY <1>14, <1>1 DEF Restart, LastEventTells, BitFollowsStation
  <2>3. NeverAbandoned'
    BY <1>14 DEF Restart, NeverAbandoned
  <2> QED
    BY <2>1, <2>2, <2>3
<1>15. CASE UNCHANGED vars
  <2>1. TypeOK'
    BY <1>15, ZenonT(30) DEF vars, TypeOK
  <2>2. LastEventTells' /\ BitFollowsStation'
    BY <1>15, <1>1 DEF vars, LastEventTells, BitFollowsStation
  <2>3. NeverAbandoned'
    BY <1>15 DEF vars, NeverAbandoned
  <2> QED
    BY <2>1, <2>2, <2>3
<1> QED
  BY <1>2, <1>3, <1>4, <1>5, <1>7, <1>8, <1>9, <1>10, <1>11, <1>12, <1>13, <1>14, <1>15
  DEF Next, Handler, Console, Joining, Driver, JoinAborts

(* The invariant holds in every reachable state. *)
LEMMA Invariance == Spec => []IInv
  BY InitIInv, NextIInv, PTL DEF Spec
-----------------------------------------------------------------------------
(* Every variable of the station stays in its type. *)
THEOREM TypeCorrect == Spec => []TypeOK
<1>1. IInv => TypeOK
  BY DEF IInv
<1> QED
  BY <1>1, Invariance, PTL

(* event_handler() of wifi.cpp, run late and in two steps, leaves the bit  *)
(* what the station is, for any number of events in the queue.             *)
THEOREM BitSafe == Spec => []BitFollowsStation
<1>1. IInv => BitFollowsStation
  BY DEF IInv
<1> QED
  BY <1>1, Invariance, PTL

(* Whatever the console, the event loop and the driver do in which order,  *)
(* somebody is left to connect an idle station.                            *)
THEOREM NeverLeftIdle == Spec => []NeverAbandoned
<1>1. IInv => NeverAbandoned
  BY DEF IInv
<1> QED
  BY <1>1, Invariance, PTL
=============================================================================
