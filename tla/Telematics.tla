----------------------------- MODULE Telematics -----------------------------
(***************************************************************************)
(* The reporting task and the GPS task together: the mutex of gps.data and *)
(* the data behind it are the real ones of both.  CommTask's own GPS       *)
(* actions are an assumption (anything while the lock is held, one         *)
(* sentence when it is given back); here they are replaced by the receiver,*)
(* and the composition is shown to implement CommTask with them.           *)
(*                                                                         *)
(* The network and the server are kept simple: connecting may fail, the    *)
(* server only answers the introduction, in one piece.  A restart ends     *)
(* both tasks.                                                             *)
(***************************************************************************)
EXTENDS Integers, Sequences

CONSTANTS Fds, MaxParcel, TimeLen, Sources, Room,
          MaxFaults   \* bound: failures to connect, and restarts

ASSUME TelematicsAssumption ==
    /\ Fds \subseteq Nat \ {0}
    /\ MaxParcel \in Nat \ {0} /\ TimeLen \in Nat \ {0}
    /\ Sources \in Nat \ {0} /\ Room \in Nat \ {0}
    /\ MaxFaults \in Nat

VARIABLES
    pc, hello, s, tmp, conn, i, pos, got, goal, expired, err, wire, pkt,
    stream, avail, due, welcomed, faults,                    \* CommTask
    line, buffered, ask, mode, what, k, acc, gga, vtg,
    tosend, turn, lost, restarts,                            \* GpsReceiver
    lock                                                     \* both

commVars == <<pc, hello, s, tmp, conn, i, pos, got, goal, expired, err, wire, pkt,
              stream, avail, due, welcomed, faults>>
gpsVars  == <<line, buffered, ask, mode, what, k, acc, gga, vtg, tosend, turn, lost, restarts>>
vars     == <<commVars, gpsVars, lock>>

(* The fields write_gps_packet() reads, as CommTask sees them: valid() is  *)
(* a quality that is neither absent nor zero.                              *)
fixOf == [lat |-> gga["lat"], lon |-> gga["lon"],
          quality |-> IF gga["quality"] = -1 THEN 0 ELSE gga["quality"],
          speed |-> vtg["speed_km"]]

Gps  == INSTANCE GpsReceiver WITH
            rd <- "idle",     \* the only reader is the reporting task
            MaxLost <- 0, MaxRestarts <- MaxFaults
Comm == INSTANCE CommTask WITH
            fix <- fixOf, Noise <- {}, Sentences <- 1..Sources, Merged <- {},
            MaxDue <- 1

Init ==
    /\ Gps!Init
    /\ pc = "resolve" /\ hello = TRUE
    /\ s = 0 /\ tmp = 0 /\ conn = [f \in Fds |-> "free"]
    /\ i = 0 /\ pos = 0 /\ got = <<>> /\ goal = 0
    /\ expired = FALSE /\ err = "none" /\ wire = 0 /\ pkt = Comm!NoPacket
    /\ stream = <<>> /\ avail = 0 /\ due = <<>> /\ welcomed = FALSE
    /\ faults = 0

Answer   == Comm!ServerGreets \/ (Comm!Deliver /\ avail' = Len(stream))

Report   == UNCHANGED gpsVars /\ Comm!Task
Server   == UNCHANGED gpsVars /\ (Answer \/ Comm!Elapse)
Receive  == UNCHANGED commVars /\ Gps!Task
Satellites == UNCHANGED commVars /\ (Gps!Compose \/ Gps!Send)

Restart  == Gps!Restart /\ Comm!Restart

Next == Report \/ Server \/ Receive \/ Satellites \/ Restart

Spec == Init /\ [][Next]_vars

(* CommTask's and GpsReceiver's fairness for the actions that take part *)
FairSpec ==
    /\ Spec
    /\ WF_vars(Report) /\ SF_vars(UNCHANGED gpsVars /\ Comm!TakeLock)
    /\ SF_vars(UNCHANGED gpsVars /\ Comm!Elapse)
    /\ WF_vars(UNCHANGED gpsVars /\ Answer)
    /\ WF_vars(UNCHANGED commVars /\ (Gps!Refill \/ Gps!Hunt \/ Gps!Parse))
    /\ SF_vars(UNCHANGED commVars /\ Gps!Lock)
    /\ WF_vars(Satellites)
-----------------------------------------------------------------------------
(* The real receiver keeps what CommTask assumes of the GPS task, so what  *)
(* is checked and proved of CommTask holds of the two tasks together.      *)
ImplementsComm == Comm!Spec

(* The reporting task is one of the readers the receiver is made for: it   *)
(* waits for the mutex, copies while it holds it, and gives it back.  So   *)
(* what is checked and proved of the receiver holds of the two together.   *)
readerOf == IF pc = "lock" THEN "lock"
            ELSE IF pc \in {"position", "position2", "release"} THEN "copy" ELSE "idle"
holderOf == IF lock = "comm" THEN "reader" ELSE lock

Receiver == INSTANCE GpsReceiver WITH
                rd <- readerOf, lock <- holderOf,
                MaxLost <- 0, MaxRestarts <- MaxFaults
ImplementsReceiver == Receiver!Spec

(* Each task keeps what the other one's module assumes of it: either can   *)
(* be reasoned about alone.                                                *)
ImplementsBoth == ImplementsComm /\ ImplementsReceiver

(* A package that waits for the lock is sent, though the receiver holds    *)
(* the lock while it waits for characters, as long as characters come and  *)
(* the device does not restart.                                            *)
PackageSent == (pc = "lock") ~> (pc \in {"send", "resolve"})
=============================================================================
