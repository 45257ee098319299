-------------------------- MODULE TelematicsProofs --------------------------
(***************************************************************************)
(* Proofs about Telematics, for every ring of the driver, every number of  *)
(* sentences, descriptors and failures: the receiver keeps what the        *)
(* reporting task assumes of it, and the task is a reader as the receiver  *)
(* assumes.  What is proved of each alone holds of the two together.       *)
(***************************************************************************)
EXTENDS Telematics, TLAPS

Gp == INSTANCE GpsReceiverProofs WITH
          rd <- readerOf, lock <- holderOf,
          MaxLost <- 0, MaxRestarts <- MaxFaults
Cp == INSTANCE CommTaskProofs WITH
          fix <- fixOf, Noise <- {}, Sentences <- 1..Sources, Merged <- {},
          MaxDue <- 1

(* The assumptions of both on their constants hold of this composition. *)
LEMMA Assumed == Gp!GpsAssumption /\ Cp!CommAssumption
  BY TelematicsAssumption DEF Gp!GpsAssumption, Cp!CommAssumption

(* The instances whose theorems are used are those of Telematics. *)
LEMMA SameInit == Receiver!Init <=> Gp!Init
  BY DEF Receiver!Init, Gp!Init, Receiver!NoGga, Gp!NoGga, Receiver!NoVtg, Gp!NoVtg,
     Receiver!GgaFields, Gp!GgaFields, Receiver!VtgFields, Gp!VtgFields

(* A step of the one instance is a step of the other. *)
LEMMA SameStep == [Receiver!Next]_(Receiver!vars) <=> [Gp!Next]_(Gp!vars)
  BY Zenon DEF Receiver!Refill, Gp!Refill, Receiver!Take, Gp!Take, Receiver!Keep, Gp!Keep,
     Receiver!Hunt, Gp!Hunt, Receiver!Lock, Gp!Lock, Receiver!Slots, Gp!Slots,
     Receiver!Slot, Gp!Slot, Receiver!Assign, Gp!Assign, Receiver!WithUnit,
     Gp!WithUnit, Receiver!Leave, Gp!Leave, Receiver!Parse, Gp!Parse, Receiver!Bad,
     Gp!Bad, Receiver!Task, Gp!Task, Receiver!Want, Gp!Want, Receiver!ReaderLock,
     Gp!ReaderLock, Receiver!ReaderGive, Gp!ReaderGive, Receiver!Reader, Gp!Reader,
     Receiver!GgaLayout, Gp!GgaLayout, Receiver!VtgLayout, Gp!VtgLayout,
     Receiver!GgaVal, Gp!GgaVal, Receiver!VtgVal, Gp!VtgVal, Receiver!Sentence,
     Gp!Sentence, Receiver!NextTurn, Gp!NextTurn, Receiver!Compose, Gp!Compose,
     Receiver!Send, Gp!Send, Receiver!Overrun, Gp!Overrun, Receiver!Restart,
     Gp!Restart, Receiver!Environment, Gp!Environment, Receiver!Next, Gp!Next,
     Receiver!GgaFields, Gp!GgaFields, Receiver!VtgFields, Gp!VtgFields,
     Receiver!Whole, Gp!Whole, Receiver!Number, Gp!Number, Receiver!Unit, Gp!Unit,
     Receiver!GgaSlots, Gp!GgaSlots, Receiver!VtgSlots, Gp!VtgSlots, Receiver!Strict,
     Gp!Strict, Receiver!NoGga, Gp!NoGga, Receiver!NoVtg, Gp!NoVtg, Receiver!parser,
     Gp!parser, Receiver!sender, Gp!sender, Receiver!vars, Gp!vars, Receiver!Init,
     Gp!Init

(* The same of the two instances of CommTask: the initial states. *)
LEMMA SameTaskInit == Comm!Init <=> Cp!Init
  BY DEF Comm!Init, Cp!Init, Comm!NoFix, Cp!NoFix, Comm!NoPacket, Cp!NoPacket

(* A step of the one instance of CommTask is a step of the other. *)
LEMMA SameTaskStep == [Comm!Next]_(Comm!vars) <=> [Cp!Next]_(Cp!vars)
  BY Zenon DEF Comm!local, Cp!local, Comm!socks, Cp!socks, Comm!peer, Cp!peer, Comm!gpsv,
     Cp!gpsv, Comm!vars, Cp!vars, Comm!NoFix, Cp!NoFix, Comm!NoPacket, Cp!NoPacket,
     Comm!HeadLen, Cp!HeadLen, Comm!Reading, Cp!Reading, Comm!Field, Cp!Field,
     Comm!Frame, Cp!Frame, Comm!Greeting, Cp!Greeting, Comm!Confirm, Cp!Confirm,
     Comm!Command, Cp!Command, Comm!RestLen, Cp!RestLen, Comm!Lost, Cp!Lost,
     Comm!Connected, Cp!Connected, Comm!Init, Cp!Init, Comm!Throw, Cp!Throw,
     Comm!Fault, Cp!Fault, Comm!Resolve, Cp!Resolve, Comm!OpenSocket, Cp!OpenSocket,
     Comm!Connect, Cp!Connect, Comm!Adopt, Cp!Adopt, Comm!Hello, Cp!Hello,
     Comm!Readable, Cp!Readable, Comm!Block, Cp!Block, Comm!WaitReadable,
     Cp!WaitReadable, Comm!WaitTimeout, Cp!WaitTimeout, Comm!Read, Cp!Read, Comm!Rest,
     Cp!Rest, Comm!Finish, Cp!Finish, Comm!BeginPackage, Cp!BeginPackage,
     Comm!TakeLock, Cp!TakeLock, Comm!BuildLat, Cp!BuildLat, Comm!BuildRest,
     Cp!BuildRest, Comm!Release, Cp!Release, Comm!Send, Cp!Send, Comm!Window,
     Cp!Window, Comm!Backoff, Cp!Backoff, Comm!Task, Cp!Task, Comm!Saying, Cp!Saying,
     Comm!ServerGreets, Cp!ServerGreets, Comm!ServerSays, Cp!ServerSays,
     Comm!ServerBabbles, Cp!ServerBabbles, Comm!Deliver, Cp!Deliver, Comm!Close,
     Cp!Close, Comm!Break, Cp!Break, Comm!Elapse, Cp!Elapse, Comm!GpsTakes,
     Cp!GpsTakes, Comm!Fix, Cp!Fix, Comm!GivenFix, Cp!GivenFix, Comm!GpsWrites,
     Cp!GpsWrites, Comm!GpsGives, Cp!GpsGives, Comm!Restart, Cp!Restart,
     Comm!Environment, Cp!Environment, Comm!Next, Cp!Next
-----------------------------------------------------------------------------
(* The data, the buffer and the line of the receiver are what they are, the *)
(* place of its reader and the holder of its mutex are the task's.         *)
USE DEF readerOf, holderOf

(* The receiver's initial state. *)
LEMMA InitReceiver == Init => Receiver!Init
  BY DEF Init, Gps!Init, Receiver!Init, Gps!NoGga, Receiver!NoGga, Gps!NoVtg, Receiver!NoVtg,
     Gps!GgaFields, Receiver!GgaFields, Gps!VtgFields, Receiver!VtgFields

(* What the reporting task does is a step of the receiver's reader, or     *)
(* nothing to it.                                                          *)
LEMMA ReportReceiver == Report => [Receiver!Reader]_(Receiver!vars)
<1> SUFFICES ASSUME Report PROVE [Receiver!Reader]_(Receiver!vars)
  OBVIOUS
<1> USE DEF gpsVars, Receiver!vars, Receiver!parser, Receiver!sender, Comm!gpsv
<1>1. UNCHANGED gpsVars
  BY DEF Report
<1>2. CASE Comm!BeginPackage
  BY <1>1, <1>2 DEF Comm!BeginPackage, Receiver!Reader, Receiver!Want
<1>3. CASE Comm!TakeLock
  BY <1>1, <1>3 DEF Comm!TakeLock, Receiver!Reader, Receiver!ReaderLock
<1>4. CASE Comm!Release
  BY <1>1, <1>4 DEF Comm!Release, Receiver!Reader, Receiver!ReaderGive
<1>5. CASE Comm!Resolve
  BY <1>1, <1>5 DEF Comm!Resolve, Comm!Throw
<1>6. CASE Comm!OpenSocket
  BY <1>1, <1>6 DEF Comm!OpenSocket, Comm!Throw
<1>7. CASE Comm!Connect
  BY <1>1, <1>7 DEF Comm!Connect, Comm!Throw
<1>8. CASE Comm!Adopt
  BY <1>1, <1>8 DEF Comm!Adopt, Comm!Throw
<1>9. CASE Comm!Hello
  BY <1>1, <1>9 DEF Comm!Hello, Comm!Throw
<1>10. CASE Comm!Block
  BY <1>1, <1>10 DEF Comm!Block, Comm!Throw
<1>11. CASE Comm!WaitReadable
  BY <1>1, <1>11 DEF Comm!WaitReadable, Comm!Throw
<1>12. CASE Comm!WaitTimeout
  BY <1>1, <1>12 DEF Comm!WaitTimeout, Comm!Throw
<1>13. CASE Comm!Read
  BY <1>1, <1>13 DEF Comm!Read, Comm!Throw
<1>14. CASE Comm!Rest
  BY <1>1, <1>14 DEF Comm!Rest, Comm!Throw
<1>15. CASE Comm!Finish
  BY <1>1, <1>15 DEF Comm!Finish, Comm!Throw
<1>16. CASE Comm!BuildLat
  BY <1>1, <1>16 DEF Comm!BuildLat, Comm!Throw
<1>17. CASE Comm!BuildRest
  BY <1>1, <1>17 DEF Comm!BuildRest, Comm!Throw
<1>18. CASE Comm!Send
  BY <1>1, <1>18 DEF Comm!Send, Comm!Throw
<1>19. CASE Comm!Window
  BY <1>1, <1>19 DEF Comm!Window, Comm!Throw
<1>20. CASE Comm!Backoff
  BY <1>1, <1>20 DEF Comm!Backoff, Comm!Throw
<1> QED
  BY <1>2, <1>3, <1>4, <1>5, <1>6, <1>7, <1>8, <1>9, <1>10, <1>11, <1>12, <1>13, <1>14, <1>15, <1>16, <1>17, <1>18, <1>19, <1>20 DEF Report, Comm!Task

(* The receiver's own steps are those of the receiver alone.  That nobody  *)
(* holds the mutex means the same to both.                                 *)
LEMMA ReceiveReceiver == Receive => Receiver!Task
<1> SUFFICES ASSUME Receive PROVE Receiver!Task
  OBVIOUS
<1>1. UNCHANGED commVars /\ UNCHANGED readerOf
  BY DEF Receive, commVars
<1>2. CASE Gps!Refill
  BY <1>1, <1>2 DEF Gps!Refill, Receiver!Refill, Receiver!Task, Gps!sender, Receiver!sender
<1>3. CASE Gps!Hunt
  BY <1>1, <1>3 DEF Gps!Hunt, Receiver!Hunt, Receiver!Task, Gps!Take, Receiver!Take,
     Gps!sender, Receiver!sender
<1>4. CASE Gps!Lock
  BY <1>1, <1>4 DEF Gps!Lock, Receiver!Lock, Receiver!Task, Gps!sender, Receiver!sender
<1>5. /\ Gps!Slots = Receiver!Slots /\ Gps!Slot = Receiver!Slot
      /\ \A seg : Gps!WithUnit(seg) = Receiver!WithUnit(seg)
      /\ \A f, v : Gps!Assign(f, v) <=> Receiver!Assign(f, v)
      /\ Gps!Take <=> Receiver!Take
      /\ Gps!Keep <=> Receiver!Keep
  BY Zenon DEF Gps!Slots, Receiver!Slots, Gps!Slot, Receiver!Slot, Gps!WithUnit,
     Receiver!WithUnit, Gps!Assign, Receiver!Assign, Gps!Take, Receiver!Take,
     Gps!Keep, Receiver!Keep, Gps!GgaSlots, Receiver!GgaSlots, Gps!VtgSlots,
     Receiver!VtgSlots, Gps!Whole, Receiver!Whole, Gps!Number, Receiver!Number,
     Gps!Unit, Receiver!Unit, Gps!GgaFields, Receiver!GgaFields, Gps!VtgFields,
     Receiver!VtgFields
<1>6. Gps!Leave => Receiver!Leave
  BY DEF Gps!Leave, Receiver!Leave
<1>7. UNCHANGED lock => UNCHANGED holderOf
  OBVIOUS
<1>8. CASE Gps!Parse
  <2>1. UNCHANGED <<lock, mode>> => UNCHANGED <<holderOf, mode>>
    BY <1>7
  <2> HIDE DEF readerOf, holderOf
  <2>2. Gps!sender = Receiver!sender
    BY DEF Gps!sender, Receiver!sender
  <2> QED
    BY <1>1, <1>5, <1>6, <1>8, <2>1, Zenon DEF Gps!Parse, Receiver!Parse, Receiver!Task,
       Gps!sender, Receiver!sender
<1>9. CASE Gps!Bad
  <2> HIDE DEF readerOf, holderOf
  <2>1. Gps!NoGga = Receiver!NoGga /\ Gps!NoVtg = Receiver!NoVtg /\ Gps!Strict = Receiver!Strict
    BY Zenon DEF Gps!NoGga, Receiver!NoGga, Gps!NoVtg, Receiver!NoVtg, Gps!GgaFields,
       Receiver!GgaFields, Gps!VtgFields, Receiver!VtgFields, Gps!Strict, Receiver!Strict
  <2> QED
    BY <1>1, <1>5, <1>6, <1>9, <2>1, Zenon DEF Gps!Bad, Receiver!Bad, Receiver!Task,
       Gps!sender, Receiver!sender
<1> QED
  BY <1>2, <1>3, <1>4, <1>8, <1>9 DEF Receive, Gps!Task

(* Every step of the two together is one of the receiver's, its reader's   *)
(* or its environment's, or nothing to it.                                 *)
LEMMA StepReceiver == [Next]_vars => [Receiver!Next]_(Receiver!vars)
<1> SUFFICES ASSUME [Next]_vars PROVE [Receiver!Next]_(Receiver!vars)
  OBVIOUS
<1>1. CASE Report
  BY <1>1, ReportReceiver DEF Receiver!Next
<1>2. CASE Server
  BY <1>2 DEF Server, Answer, Comm!ServerGreets, Comm!Deliver, Comm!Elapse, Comm!local,
     Comm!gpsv, gpsVars, Receiver!vars, Receiver!parser, Receiver!sender
<1>3. CASE Receive
  BY <1>3, ReceiveReceiver DEF Receiver!Next
<1>4. CASE Satellites
  <2>1. UNCHANGED readerOf
    BY <1>4 DEF Satellites, commVars
  <2>2. UNCHANGED lock => UNCHANGED holderOf
    OBVIOUS
  <2> HIDE DEF readerOf, holderOf
  <2>3. CASE Gps!Compose
    BY <2>1, <2>2, <2>3, Zenon DEF Receiver!Next, Receiver!Environment, Gps!Compose, Receiver!Compose, Gps!Send, Receiver!Send, Gps!Sentence,
     Receiver!Sentence, Gps!NextTurn, Receiver!NextTurn, Gps!GgaLayout,
     Receiver!GgaLayout, Gps!VtgLayout, Receiver!VtgLayout, Gps!GgaVal,
     Receiver!GgaVal, Gps!VtgVal, Receiver!VtgVal, Gps!parser, Receiver!parser,
     Gps!sender, Receiver!sender
  <2>4. CASE Gps!Send
    BY <2>1, <2>2, <2>4, Zenon DEF Receiver!Next, Receiver!Environment, Gps!Compose, Receiver!Compose, Gps!Send, Receiver!Send, Gps!Sentence,
     Receiver!Sentence, Gps!NextTurn, Receiver!NextTurn, Gps!GgaLayout,
     Receiver!GgaLayout, Gps!VtgLayout, Receiver!VtgLayout, Gps!GgaVal,
     Receiver!GgaVal, Gps!VtgVal, Receiver!VtgVal, Gps!parser, Receiver!parser,
     Gps!sender, Receiver!sender
  <2> QED
    BY <1>4, <2>3, <2>4 DEF Satellites
<1>5. CASE Restart
  <2>1. Gps!Restart /\ holderOf' = "free" /\ readerOf' = "idle"
    BY <1>5 DEF Restart, Gps!Restart, Comm!Restart
  <2> HIDE DEF readerOf, holderOf
  <2> QED
    BY <2>1, Zenon DEF Receiver!Next, Receiver!Environment, Gps!Restart, Receiver!Restart, Gps!NoGga, Receiver!NoGga, Gps!NoVtg,
     Receiver!NoVtg, Gps!GgaFields, Receiver!GgaFields, Gps!VtgFields,
     Receiver!VtgFields, Gps!sender, Receiver!sender
<1>6. CASE UNCHANGED vars
  BY <1>6 DEF vars, commVars, gpsVars, Receiver!vars, Receiver!parser, Receiver!sender
<1> QED
  BY <1>1, <1>2, <1>3, <1>4, <1>5, <1>6 DEF Next

(* The reporting task uses gps.data as the receiver assumes of a reader:   *)
(* write_gps_packet() of server/task.hpp between data.get() and the end of *)
(* the reference, in any interleaving with GPS.hpp, any failure of the     *)
(* network and a restart at any point.                                     *)
THEOREM ReceiverRefined == Spec => ImplementsReceiver
  BY InitReceiver, StepReceiver, PTL DEF Spec, ImplementsReceiver, Receiver!Spec

(* What is proved of the receiver alone, said of the receiver in here. *)
ReceiverInv == Gp!IInv /\ Gp!TypeInv /\ Gp!CInv /\ Gp!Present

(* The composition starts in a state of the receiver's invariants. *)
LEMMA InitReceiverInv == Init => ReceiverInv
<1> HIDE DEF readerOf, holderOf
<1>1. Init => Gp!Init
  BY InitReceiver, SameInit
<1>2. Gp!Init => Gp!IInv
  BY Gp!InitIInv, Assumed
<1>3. Gp!Init => Gp!TypeInv
  BY Gp!InitType, Assumed
<1>4. Gp!Init => Gp!CInv
  BY Gp!InitCInv, Assumed
<1>5. Gp!Init => Gp!Present
  BY DEF Gp!Init, Gp!Present, Gp!NoGga, Gp!NoVtg
<1> QED
  BY <1>1, <1>2, <1>3, <1>4, <1>5 DEF ReceiverInv

(* Every step of the composition is one of the receiver, and keeps them. *)
LEMMA StepReceiverInv == ReceiverInv /\ [Next]_vars => ReceiverInv'
<1> HIDE DEF readerOf, holderOf
<1> SUFFICES ASSUME ReceiverInv, [Next]_vars PROVE ReceiverInv'
  OBVIOUS
<1>1. [Gp!Next]_(Gp!vars)
  BY StepReceiver, SameStep
<1>2. Gp!IInv'
  BY <1>1, Gp!NextIInv, Assumed DEF ReceiverInv
<1>3. Gp!TypeInv'
  BY <1>1, Gp!NextType, Assumed DEF ReceiverInv
<1>4. Gp!CInv'
  BY <1>1, Gp!NextCInv, Assumed DEF ReceiverInv
<1>5. Gp!Present'
  BY <1>1, Gp!NextPresent, Assumed DEF ReceiverInv
<1> QED
  BY <1>2, <1>3, <1>4, <1>5 DEF ReceiverInv

(* The receiver's invariants hold in the composition: the lock and the    *)
(* parser of GPS.hpp with the real reader of server/task.hpp.              *)
THEOREM ReceiverInvariant == Spec => []ReceiverInv
  BY InitReceiverInv, StepReceiverInv, PTL DEF Spec
-----------------------------------------------------------------------------
HIDE DEF readerOf, holderOf

(* So the mutex excludes the real reader, not an assumed one, and what it  *)
(* finds in gps.data is one GGA and one VTG sentence's, all of it.         *)
THEOREM ReceiverSafe == Spec => [](Receiver!MutexHeld /\ Receiver!Coherent)
<1>1. ReceiverInv => Receiver!MutexHeld
  BY DEF ReceiverInv, Gp!IInv, Gp!MutexHeld, Receiver!MutexHeld
<1>2. Receiver!WholeGga = Gp!WholeGga
  <2>1. Receiver!NoGga = Gp!NoGga
    BY DEF Receiver!NoGga, Gp!NoGga, Receiver!GgaFields, Gp!GgaFields
  <2>2. \A n, fixed : Receiver!GgaOf(n, fixed) = Gp!GgaOf(n, fixed)
    BY DEF Receiver!GgaOf, Gp!GgaOf, Receiver!GgaVal, Gp!GgaVal, Receiver!GgaFields, Gp!GgaFields
  <2> QED
    BY <2>1, <2>2 DEF Receiver!WholeGga, Gp!WholeGga
<1>3. Receiver!WholeVtg = Gp!WholeVtg
  <2>1. Receiver!NoVtg = Gp!NoVtg
    BY DEF Receiver!NoVtg, Gp!NoVtg, Receiver!VtgFields, Gp!VtgFields
  <2>2. \A n, fixed : Receiver!VtgOf(n, fixed) = Gp!VtgOf(n, fixed)
    BY DEF Receiver!VtgOf, Gp!VtgOf, Receiver!VtgVal, Gp!VtgVal, Receiver!VtgFields, Gp!VtgFields
  <2> QED
    BY <2>1, <2>2 DEF Receiver!WholeVtg, Gp!WholeVtg
<1>4. ReceiverInv => Receiver!Coherent
  BY <1>2, <1>3 DEF ReceiverInv, Gp!IInv, Gp!MutexHeld, Gp!CInv, Receiver!Coherent
<1> QED
  BY <1>1, <1>4, ReceiverInvariant, PTL

(* Who holds the mutex, to the receiver: the task that is inside. *)
LEMMA Inside == ReceiverInv /\ mode = "parse" => lock = "gps"
  BY DEF ReceiverInv, Gp!IInv, Gp!MutexHeld, holderOf

(* No segment is lost: the driver's ring never overruns in here. *)
LEMMA NoneLost == ReceiverInv => lost = 0
  BY DEF ReceiverInv, Gp!TypeInv, Gp!TypeOK

(* The fields of the position are numbers of sentences, or absent.         *)
LEMMA FixTyped == ReceiverInv => fixOf \in Comm!Fix
<1> SUFFICES ASSUME ReceiverInv PROVE fixOf \in Comm!Fix
  OBVIOUS
<1>1. gga \in [Gp!GgaFields -> -1..Sources] /\ vtg \in [Gp!VtgFields -> -1..Sources]
  BY DEF ReceiverInv, Gp!TypeInv, Gp!TypeOK, Gp!Val
<1>2. gga["lat"] # -1 /\ gga["lon"] # -1 /\ vtg["speed_km"] # -1
  BY NoneLost DEF ReceiverInv, Gp!Present, Gp!GgaFields, Gp!VtgFields
<1>3. gga["lat"] \in -1..Sources /\ gga["lon"] \in -1..Sources /\ gga["quality"] \in -1..Sources
      /\ vtg["speed_km"] \in -1..Sources
  BY <1>1 DEF Gp!GgaFields, Gp!VtgFields
<1>4. \A x \in -1..Sources : x # -1 => x \in Comm!Field
  BY TelematicsAssumption DEF Comm!Field
<1>5. 0 \in Comm!Field
  BY DEF Comm!Field
<1>6. /\ gga["lat"] \in Comm!Field /\ gga["lon"] \in Comm!Field /\ vtg["speed_km"] \in Comm!Field
      /\ (IF gga["quality"] = -1 THEN 0 ELSE gga["quality"]) \in Comm!Field
  BY <1>2, <1>3, <1>4, <1>5
<1> QED
  BY <1>6 DEF fixOf, Comm!Fix

(* What one sentence leaves is a position or none. *)
LEMMA GgaOfWhole ==
    ASSUME NEW n \in 1..Sources, NEW fixed \in BOOLEAN
    PROVE  LET g == Gp!GgaOf(n, fixed)
               q == IF g["quality"] = -1 THEN 0 ELSE g["quality"]
           IN g["lat"] = g["lon"] /\ g["lon"] = q
<1> DEFINE g == Gp!GgaOf(n, fixed)
<1>1. /\ g["lat"] = Gp!GgaVal(n, fixed, "lat") /\ g["lon"] = Gp!GgaVal(n, fixed, "lon")
      /\ g["quality"] = Gp!GgaVal(n, fixed, "quality")
  BY DEF Gp!GgaOf, Gp!GgaFields
<1>2. n # -1
  BY TelematicsAssumption
<1> QED
  BY <1>1, <1>2 DEF Gp!GgaVal

(* Between two sentences latitude, longitude and quality are one's.        *)
LEMMA FixWhole == ReceiverInv /\ lock \in {"free", "comm"} => fixOf \in Comm!GivenFix
<1> SUFFICES ASSUME ReceiverInv, lock \in {"free", "comm"} PROVE fixOf \in Comm!GivenFix
  OBVIOUS
<1>1. gga \in Gp!WholeGga
  BY NoneLost DEF ReceiverInv, Gp!CInv, Gp!IInv, Gp!MutexHeld, holderOf
<1>2. fixOf.lat = fixOf.lon /\ fixOf.lon = fixOf.quality
  <2>1. CASE gga = Gp!NoGga
    BY <2>1 DEF fixOf, Gp!NoGga, Gp!GgaFields
  <2>2. CASE \E n \in 1..Sources, fixed \in BOOLEAN : gga = Gp!GgaOf(n, fixed)
    BY <2>2, GgaOfWhole DEF fixOf
  <2> QED
    BY <1>1, <2>1, <2>2 DEF Gp!WholeGga
<1> QED
  BY <1>2, FixTyped DEF Comm!GivenFix

(* The task's initial state. *)
LEMMA InitTask == Init => Comm!Init
<1> SUFFICES ASSUME Init PROVE Comm!Init
  OBVIOUS
<1>1. gga = Gps!NoGga /\ vtg = Gps!NoVtg /\ lock = "free"
  BY DEF Init, Gps!Init
<1>2. fixOf = Comm!NoFix
  BY <1>1 DEF fixOf, Comm!NoFix, Gps!NoGga, Gps!NoVtg, Gps!GgaFields, Gps!VtgFields
<1> QED
  BY <1>1, <1>2 DEF Init, Comm!Init

(* What the receiver does is to the task what it assumes of the GPS task:  *)
(* anything while it holds the mutex, one sentence when it gives it back.  *)
LEMMA ReceiveTask ==
    ReceiverInv /\ ReceiverInv' /\ Receive
        => Comm!GpsTakes \/ Comm!GpsWrites \/ Comm!GpsGives \/ UNCHANGED Comm!vars
<1> SUFFICES ASSUME ReceiverInv, ReceiverInv', Receive
             PROVE  Comm!GpsTakes \/ Comm!GpsWrites \/ Comm!GpsGives \/ UNCHANGED Comm!vars
  OBVIOUS
<1>1. UNCHANGED commVars
  BY DEF Receive
<1>2. UNCHANGED <<Comm!local, Comm!socks, expired, Comm!peer, faults>>
  BY <1>1 DEF commVars, Comm!local, Comm!socks, Comm!peer
<1>3. (ReceiverInv => fixOf \in Comm!Fix)'
  BY FixTyped, PTL
<1>4. (ReceiverInv /\ lock \in {"free", "comm"} => fixOf \in Comm!GivenFix)'
  BY FixWhole, PTL
<1>5. (UNCHANGED <<gga, vtg>>) => fixOf' = fixOf
  BY DEF fixOf
<1>6. ASSUME UNCHANGED <<lock, gga, vtg>> PROVE UNCHANGED Comm!vars
  BY <1>1, <1>5, <1>6 DEF commVars, Comm!vars
<1>7. ASSUME mode = "parse", Gps!Leave PROVE Comm!GpsGives
  <2>1. lock = "gps" /\ lock' = "free"
    BY <1>7, Inside DEF Gps!Leave
  <2> QED
    BY <1>2, <1>4, <2>1 DEF Comm!GpsGives
<1>8. CASE Gps!Refill
  BY <1>6, <1>8 DEF Gps!Refill
<1>9. CASE Gps!Hunt
  BY <1>6, <1>9 DEF Gps!Hunt
<1>10. CASE Gps!Lock
  BY <1>2, <1>5, <1>10 DEF Gps!Lock, Comm!GpsTakes
<1>11. CASE Gps!Parse
  <2>1. mode = "parse" /\ (Gps!Leave \/ lock' = lock)
    BY <1>11 DEF Gps!Parse
  <2>2. CASE lock' = lock
    BY <1>2, <1>3, <2>1, <2>2, Inside DEF Comm!GpsWrites
  <2> QED
    BY <1>7, <2>1, <2>2
<1>12. CASE Gps!Bad
  BY <1>7, <1>12 DEF Gps!Bad
<1> QED
  BY <1>8, <1>9, <1>10, <1>11, <1>12 DEF Receive, Gps!Task

(* Every step of the two together is one of the task's, of its server's or *)
(* of the GPS task as CommTask has it, or nothing to it.                   *)
LEMMA StepTask == ReceiverInv /\ ReceiverInv' /\ [Next]_vars => [Comm!Next]_(Comm!vars)
<1> SUFFICES ASSUME ReceiverInv, ReceiverInv', [Next]_vars PROVE [Comm!Next]_(Comm!vars)
  OBVIOUS
<1>1. CASE Report
  BY <1>1 DEF Report, Comm!Next
<1>2. CASE Server
  BY <1>2 DEF Server, Answer, Comm!Next, Comm!Environment
<1>3. CASE Receive
  BY <1>3, ReceiveTask DEF Comm!Next, Comm!Environment
<1>4. CASE Satellites
  BY <1>4 DEF Satellites, Gps!Compose, Gps!Send, Gps!parser, commVars, Comm!vars, fixOf
<1>5. CASE Restart
  BY <1>5 DEF Restart, Comm!Next, Comm!Environment
<1>6. CASE UNCHANGED vars
  BY <1>6 DEF vars, commVars, gpsVars, Comm!vars, fixOf
<1> QED
  BY <1>1, <1>2, <1>3, <1>4, <1>5, <1>6 DEF Next

(* The receiver of GPS.hpp keeps what the reporting task of server/task.hpp *)
(* assumes of it, so every behaviour of the two together is one of the      *)
(* task with the GPS task of CommTask.                                     *)
THEOREM TaskRefined == Spec => ImplementsComm
  BY InitTask, StepTask, ReceiverInvariant, PTL DEF Spec, ImplementsComm, Comm!Spec

(* What is proved of the task alone holds of the two together: among it    *)
(* that the mutex is held only while the position is copied, and that a    *)
(* package has the latitude and the longitude of one sentence of the real  *)
(* receiver.                                                               *)
THEOREM PositionOfOneSentence == Spec => [](Comm!LockBrief /\ Comm!PositionWhole)
<1>1. Init => Cp!IInv
  BY InitTask, SameTaskInit, Cp!InitIInv, Assumed
<1>2. ReceiverInv /\ ReceiverInv' /\ Cp!IInv /\ [Next]_vars => Cp!IInv'
  BY StepTask, SameTaskStep, Cp!NextIInv, Assumed
<1>3. Cp!IInv => Comm!LockBrief /\ Comm!PositionWhole
  BY DEF Cp!IInv, Cp!Positioned, Cp!LockBrief, Cp!PositionWhole, Comm!LockBrief, Comm!PositionWhole
<1> QED
  BY <1>1, <1>2, <1>3, ReceiverInvariant, PTL DEF Spec

(* So do the stream and the introduction: the server of the composition    *)
(* sends no noise.                                                         *)
THEOREM StreamOfComposition == Spec => [](Comm!StreamInSync /\ Comm!OnlineOnlyIfWelcomed)
<1>1. Init => Cp!IInv /\ Cp!Framed
  BY InitTask, SameTaskInit, Cp!InitIInv, Cp!InitFramed, Assumed
<1>2. ReceiverInv /\ ReceiverInv' /\ Cp!IInv /\ Cp!Framed /\ [Next]_vars => Cp!IInv' /\ Cp!Framed'
  BY StepTask, SameTaskStep, Cp!NextIInv, Cp!StepFramed, Assumed
<1>3. Cp!IInv /\ Cp!Framed => Comm!StreamInSync /\ Comm!OnlineOnlyIfWelcomed
  <2>1. Cp!IInv /\ Cp!Framed => Cp!StreamInSync
    BY Cp!FramedInStep, Assumed
  <2>2. Cp!Framed => Cp!OnlineOnlyIfWelcomed
    BY DEF Cp!Framed, Cp!Greeted, Cp!OnlineOnlyIfWelcomed
  <2>3. Comm!StreamInSync <=> Cp!StreamInSync
    BY Zenon DEF Comm!StreamInSync, Cp!StreamInSync, Comm!Reading, Cp!Reading, Comm!Building,
       Cp!Building, Comm!IsPrefix, Cp!IsPrefix, Comm!FlattenSeq, Cp!FlattenSeq
  <2>4. Comm!OnlineOnlyIfWelcomed <=> Cp!OnlineOnlyIfWelcomed
    BY DEF Comm!OnlineOnlyIfWelcomed, Cp!OnlineOnlyIfWelcomed, Comm!Online, Cp!Online,
       Comm!Reading, Cp!Reading, Comm!Building, Cp!Building
  <2> QED
    BY <2>1, <2>2, <2>3, <2>4
<1> QED
  BY <1>1, <1>2, <1>3, ReceiverInvariant, PTL DEF Spec

(* The composition of the two tasks on the mutex of gps.data refines the   *)
(* module of each, for every interleaving, any failure and restart.        *)
THEOREM BothRefined == Spec => ImplementsBoth
  BY TaskRefined, ReceiverRefined DEF ImplementsBoth
=============================================================================
