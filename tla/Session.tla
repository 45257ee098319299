------------------------------ MODULE Session ------------------------------
(***************************************************************************)
(* What the connection to the server promises the server, seen from its    *)
(* end of the wire: a device introduces itself, is let in by an answer,    *)
(* and then numbers its parcels 1, 2, ..., MaxParcel, 1, ... for as long   *)
(* as that connection lasts.  A new connection starts over.                *)
(*                                                                         *)
(* CommTask implements this specification.                                 *)
(***************************************************************************)
EXTENDS Naturals

CONSTANT MaxParcel   \* the largest parcel number, at least 1: 0xFB in the code

VARIABLES
    phase,    \* "down", "greeting" (introduced, not let in yet) or "online"
    number    \* number of the last parcel of this connection, 0 before it

vars == <<phase, number>>

NextNumber(n) == IF n = MaxParcel THEN 1 ELSE n + 1

Init == phase = "down" /\ number = 0

(* the device introduces itself on a new connection *)
Open ==
    /\ phase = "down"
    /\ phase' = "greeting"
    /\ number' = 0

(* the server's answer lets it in *)
Accept ==
    /\ phase = "greeting"
    /\ phase' = "online"
    /\ UNCHANGED number

Report ==
    /\ phase = "online"
    /\ number' = NextNumber(number)
    /\ UNCHANGED phase

(* the connection is given up *)
Drop ==
    /\ phase # "down"
    /\ phase' = "down"
    /\ UNCHANGED number

Next == Open \/ Accept \/ Report \/ Drop

Spec == Init /\ [][Next]_vars
=============================================================================
