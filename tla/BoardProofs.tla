---------------------------- MODULE BoardProofs ----------------------------
(***************************************************************************)
(* Proofs about Board, for every set of pins, every length of a frame, of  *)
(* the queues and of the buffers and every number of restarts and errors:  *)
(* the image of the expander is one of two in any order of construction,   *)
(* the accelerometer's frames are fetched whole, inside the buffers if the *)
(* queue of the chip fits them, the CAN task never sleeps on a message.    *)
(***************************************************************************)
EXTENDS Board, TLAPS

(* the image while the units are constructed, and afterwards *)
Imaged ==
    /\ links \subseteq Units
    /\ boot = "construct" =>
        /\ links # {} /\ read = {}
        /\ "main" \in links => config = {}
        /\ "main" \notin links => config \in {Bits, Bits \ Declared}
    /\ boot # "construct" => links = {}
    /\ read \subseteq Bits
    /\ ImageConsistent

(* the alert of a message lasts until the queue is looked at *)
Alerted ==
    /\ rx \in Nat
    /\ call \in {"none", "wait", "drain"}
    /\ (call # "drain" /\ rx > 0) => "RX_DATA" \in alerts

(* a count that was read, while the queue it was read from only grows *)
Fetching ==
    /\ Accel!TypeOK
    /\ ~cut => phase = 0
    /\ count # 0 => boot = "loop" /\ todo = <<>> /\ count <= fill
    /\ Accel!InBuffers

(* the rest of the types *)
Typed ==
    /\ boot \in {"construct", "nvs", "erase", "again", "accel", "devices",
                 "loop", "abort"}
    /\ config \subseteq Bits
    /\ nvs \in {"good", "stale"} /\ use \in {"none", "accel", "can"}
    /\ restarts \in 0..MaxRestarts /\ faults \in 0..MaxFaults
    /\ Can!TypeOK

IInv == Imaged /\ Alerted /\ Fetching /\ Typed
-----------------------------------------------------------------------------
USE DEF Units, Bits, Input

(* The chip as it is when it gets power, or a reset. *)
LEMMA PoweredUpTyped ==
    (todo = <<>> /\ count = 0 /\ astray = FALSE
     /\ regs = {} /\ fill = 0 /\ phase = 0 /\ cut = FALSE) => Fetching
<1>1. 0 \in 0..MaxBytes /\ 0 \in 0..(FrameLen - 1)
  BY BoardAssumption
<1> QED
  BY <1>1 DEF Fetching, Accel!TypeOK, Accel!InBuffers

(* The invariant holds initially. *)
LEMMA InitIInv == Init => IInv
<1> SUFFICES ASSUME Init PROVE IInv
  OBVIOUS
<1>1. Imaged /\ Alerted
  BY DEF Init, Imaged, ImageConsistent, Alerted, Can!Init
<1>2. todo = <<>> /\ count = 0 /\ astray = FALSE /\ regs = {} /\ fill = 0 /\ phase = 0 /\ cut = FALSE
  BY DEF Init, Accel!Init, Accel!PoweredUp
<1>3. Fetching
  BY <1>2, PoweredUpTyped
<1>4. Typed
  BY BoardAssumption DEF Init, Typed, Can!TypeOK, Can!Init
<1> QED
  BY <1>1, <1>3, <1>4 DEF IInv

(* A declared pin has a bit in the image's byte. *)
LEMMA DeclaredBits == Declared \subseteq Bits
  BY BoardAssumption

(* Every step keeps the image consistent: the constructors in any order,   *)
(* the console's writes, restarts.                                         *)
LEMMA ImageStep == Imaged /\ [Next]_vars => Imaged'
<1> SUFFICES ASSUME Imaged, [Next]_vars PROVE Imaged'
  OBVIOUS
<1> USE DEF Imaged, ImageConsistent, main, expander
<1>1. ASSUME NEW u \in links, ConstructUnit(u) PROVE Imaged'
  <2>1. /\ boot = "construct" /\ links' = links \ {u} /\ UNCHANGED read
        /\ config' = IF u = "main" THEN Bits ELSE config \ Declared
        /\ boot' = IF links = {u} THEN "nvs" ELSE boot
    BY <1>1 DEF ConstructUnit
  <2>2. links' # {} => boot' = "construct"
    BY <2>1
  <2>3. links' = {} => boot' = "nvs"
    BY <2>1
  <2>4. "main" \in links' => config' = {}
    BY <2>1
  <2>5. "main" \notin links' => config' \in {Bits, Bits \ Declared}
    <3>1. CASE u = "main"
      BY <2>1, <3>1
    <3>2. CASE u # "main"
      BY <2>1, <3>2
    <3> QED
      BY <3>1, <3>2
  <2>6. ImageConsistent'
    BY <2>1, <2>5, DeclaredBits
  <2> QED
    BY <2>1, <2>2, <2>3, <2>4, <2>5, <2>6
<1>2. CASE NvsInit \/ NvsErase \/ NvsInitAgain \/ AccelSetup \/ StartDevices
  BY <1>2 DEF NvsInit, NvsErase, NvsInitAgain, FlashFails, GoOn, AccelSetup, StartDevices
<1>3. CASE AccelLoop \/ CanLoop \/ Chips
  BY <1>3 DEF AccelLoop, CanLoop, Chips
<1>4. ASSUME NEW p \in Ports, ConsoleRead(p) PROVE Imaged'
  BY <1>4 DEF ConsoleRead
<1>5. CASE Restart \/ Abort
  BY <1>5 DEF Restart, Abort, StartOver
<1>6. CASE UNCHANGED vars
  BY <1>6 DEF vars
<1> QED
  BY <1>1, <1>2, <1>3, <1>4, <1>5, <1>6 DEF Next, Main

(* Every step keeps the alert of a message that has not been looked for.   *)
LEMMA AlertStep == Alerted /\ [Next]_vars => Alerted'
<1> SUFFICES ASSUME Alerted, [Next]_vars PROVE Alerted'
  OBVIOUS
<1> USE DEF Alerted, can
<1>1. CASE UNCHANGED can
  BY <1>1
<1>2. CASE StartDevices
  BY <1>2 DEF StartDevices, Can!Setup
<1>3. CASE CanLoop
  <2>1. CASE Can!Begin \/ Can!ReadTimeout
    BY <2>1 DEF Can!Begin, Can!ReadTimeout, Can!driver
  <2>2. CASE Can!ReadAlerts
    BY <2>2 DEF Can!ReadAlerts
  <2>3. CASE Can!Drain
    BY <2>3 DEF Can!Drain
  <2>4. CASE Can!Drained
    BY <2>4 DEF Can!Drained, Can!driver
  <2> QED
    BY <1>3, <2>1, <2>2, <2>3, <2>4 DEF CanLoop, Can!HandleAlerts
<1>4. CASE Chips
  <2>1. CASE Can!Receive
    BY <2>1 DEF Can!Receive
  <2>2. CASE Can!Degrade
    BY <2>2 DEF Can!Degrade
  <2>3. CASE Can!Improve
    BY <2>3 DEF Can!Improve
  <2> QED
    BY <1>1, <1>4, <2>1, <2>2, <2>3 DEF Chips, Can!Bus
<1>5. CASE Restart \/ Abort
  BY <1>5 DEF Restart, Abort, StartOver, Can!Restart
<1> QED
  BY <1>1, <1>2, <1>3, <1>4, <1>5 DEF Next, Main, vars, ConstructUnit, NvsInit, NvsErase,
     NvsInitAgain, AccelSetup, AccelLoop, ConsoleRead

(* What is taken of a by whole frames of b: a number of them, one at least *)
(* if there is one.                                                        *)
LEMMA WholePart ==
    ASSUME NEW a \in Nat, NEW b \in Nat \ {0}
    PROVE  /\ a - (a % b) \in 0..a
           /\ (a - (a % b)) % b = 0
           /\ a >= b => a - (a % b) >= b
<1> DEFINE q == a \div b
           r == a % b
<1>1. q \in Nat /\ r \in 0..(b - 1)
  OBVIOUS
<1>2. a = (b * q) + r
  OBVIOUS
<1> HIDE DEF q, r
<1>3. (b * q) % b = 0
  BY <1>1
<1>4. a - r = b * q /\ b * q \in Nat
  BY <1>1, <1>2
<1>5. a >= b => q # 0
  BY <1>1, <1>2
<1>6. q # 0 => b * q >= b
  BY <1>1
<1>7. a - r \in 0..a /\ (a - r) % b = 0 /\ (a >= b => a - r >= b)
  BY <1>1, <1>3, <1>4, <1>5, <1>6
<1> QED
  BY <1>7 DEF r

(* The whole frames of b in a are a \div b. *)
LEMMA WholeFrames ==
    ASSUME NEW a \in Nat, NEW b \in Nat \ {0}
    PROVE  a \div b \in Nat /\ (a \div b) * b = a - (a % b)
<1>1. a \div b \in Nat /\ a % b \in Nat
  OBVIOUS
<1>2. a = (b * (a \div b)) + (a % b)
  OBVIOUS
<1> DEFINE q == a \div b
           m == a % b
<1> HIDE DEF q, m
<1>3. q \in Nat /\ m \in Nat /\ a = b * q + m
  BY ONLY <1>1, <1>2 DEF q, m
<1>4. q * b = a - m
  BY ONLY <1>3, SMTT(30)
<1> QED
  BY ONLY <1>1, <1>4 DEF q, m

(* What read_fifo() fetches of the count it read. *)
LEMMA WantedFrames ==
    ASSUME Fetching
    PROVE  /\ Accel!Wanted \in 0..fill /\ Accel!Wanted % FrameLen = 0
           /\ count # 0 => Accel!Wanted \in FrameLen..fill
<1>1. count \in Nat /\ fill \in Nat /\ FrameLen \in Nat \ {0} /\ count <= fill
      /\ (count # 0 => count >= FrameLen)
  BY BoardAssumption DEF Fetching, Accel!TypeOK
<1> DEFINE w == count - (count % FrameLen)
<1>2. w \in 0..count /\ w % FrameLen = 0 /\ (count >= FrameLen => w >= FrameLen)
  BY <1>1, WholePart
<1>3. Accel!Wanted = w
  BY DEF Accel!Wanted
<1> HIDE DEF w
<1> QED
  BY <1>1, <1>2, <1>3

(* What it fetches fits the buffers, if a full queue does. *)
LEMMA WantedFits ==
    ASSUME Fetching, Accel!QueueFits
    PROVE  Accel!Wanted <= BufLen /\ Accel!Wanted <= DataLen * FrameLen
<1>1. /\ count \in Nat /\ MaxBytes \in Nat /\ count <= MaxBytes /\ FrameLen \in Nat \ {0}
      /\ DataLen \in Nat
  BY BoardAssumption DEF Fetching, Accel!TypeOK
<1> DEFINE n == count \div FrameLen
<1>2. n \in Nat /\ n * FrameLen = count - (count % FrameLen)
  BY <1>1, WholeFrames
<1>3. Accel!Wanted = n * FrameLen
  BY <1>2 DEF Accel!Wanted
<1> HIDE DEF n
<1>4. n * FrameLen <= count /\ n <= n * FrameLen
  <2>1. count - (count % FrameLen) <= count
    BY <1>1, WholePart
  <2>2. n <= n * FrameLen
    BY ONLY <1>1, <1>2, SMTT(30)
  <2> QED
    BY <1>2, <2>1, <2>2
<1>5. n * FrameLen \in Nat
  BY <1>1, <1>2
<1>6. n \in 0..MaxBytes /\ n * FrameLen <= MaxBytes
  BY ONLY <1>1, <1>2, <1>4, <1>5
<1>7. n * FrameLen <= BufLen /\ n <= DataLen
  BY <1>6, Zenon DEF Accel!QueueFits
<1>8. n * FrameLen <= DataLen * FrameLen
  BY ONLY <1>1, <1>2, <1>7, SMTT(30)
<1> QED
  BY ONLY <1>3, <1>7, <1>8

(* A fetch, be it cut short, keeps the types; and one that is not leaves   *)
(* the queue at the start of a frame.                                      *)
LEMMA HandsOutStep ==
    ASSUME Fetching, NEW n \in 0..Accel!Wanted, Accel!HandsOut(n)
    PROVE  /\ fill' \in 0..MaxBytes /\ phase' \in 0..(FrameLen - 1)
           /\ cut' \in BOOLEAN /\ (~cut' => phase' = 0) /\ regs' = regs
<1>1. /\ Accel!Wanted \in 0..fill /\ Accel!Wanted % FrameLen = 0
      /\ FrameLen \in Nat \ {0} /\ fill \in 0..MaxBytes /\ phase \in Nat /\ MaxBytes \in Nat
      /\ cut \in BOOLEAN
  BY WantedFrames, BoardAssumption DEF Fetching, Accel!TypeOK
<1>2. /\ fill' = fill - n /\ phase' = (phase + n) % FrameLen /\ regs' = regs
      /\ cut' = (cut \/ n \in 1..(Accel!Wanted - 1))
  BY DEF Accel!HandsOut
<1>3. phase' \in 0..(FrameLen - 1)
  <2>1. phase + n \in Nat
    BY <1>1
  <2> QED
    BY <1>1, <1>2, <2>1
<1>4. ASSUME ~cut' PROVE phase' = 0
  <2>0. ~cut /\ n \notin 1..(Accel!Wanted - 1)
    BY <1>2, <1>4
  <2>1. phase = 0 /\ (n = 0 \/ n = Accel!Wanted)
    <3>1. phase = 0
      BY <2>0 DEF Fetching
    <3>2. Accel!Wanted \in Nat /\ n \in 0..Accel!Wanted
      BY <1>1
    <3> HIDE DEF Accel!Wanted
    <3>3. n = 0 \/ n = Accel!Wanted
      BY <2>0, <3>2
    <3> QED
      BY <3>1, <3>3
  <2>2. 0 % FrameLen = 0
    BY <1>1
  <2>3. phase + n = n
    BY <1>1, <2>1
  <2> QED
    BY <1>1, <1>2, <2>1, <2>2, <2>3
<1> QED
  BY <1>1, <1>2, <1>3, <1>4

(* Every step keeps a count that was read within the queue.                *)
LEMMA FetchStep == Fetching /\ [Next]_vars => Fetching'
<1> SUFFICES ASSUME Fetching, [Next]_vars PROVE Fetching'
  OBVIOUS
<1> USE DEF accel, Accel!chip
<1>0. FrameLen \in Nat \ {0} /\ MaxBytes \in Nat
  BY BoardAssumption
<1>1. ASSUME UNCHANGED accel, boot' = boot \/ count = 0 PROVE Fetching'
  BY <1>1 DEF Fetching, Accel!TypeOK, Accel!InBuffers
<1>2. ASSUME boot # "loop" PROVE count = 0
  BY <1>2 DEF Fetching
<1>3. CASE \E u \in links : ConstructUnit(u)
  BY <1>1, <1>2, <1>3 DEF ConstructUnit
<1>4. CASE NvsInit \/ NvsInitAgain
  <2>1. boot # "loop"
    BY <1>4 DEF NvsInit, NvsInitAgain
  <2>2. CASE UNCHANGED accel
    BY <1>1, <1>2, <2>1, <2>2
  <2>3. CASE Accel!BeginSetup
    BY <1>2, <2>1, <2>3 DEF Accel!BeginSetup, Fetching, Accel!TypeOK, Accel!InBuffers
  <2> QED
    BY <1>4, <2>2, <2>3 DEF NvsInit, NvsInitAgain, FlashFails, GoOn
<1>5. CASE NvsErase
  BY <1>1, <1>2, <1>5 DEF NvsErase, FlashFails
<1>6. CASE AccelSetup
  <2>1. count = 0 /\ count' = 0 /\ Accel!WriteReg
    BY <1>2, <1>6 DEF AccelSetup, Accel!WriteReg
  <2>0. todo' = Tail(todo) /\ todo \in {<<"fifo_cfg">>, <<"pm", "fifo_cfg">>, <<"s_reset", "pm", "fifo_cfg">>}
    BY <2>1 DEF Accel!WriteReg, Fetching, Accel!TypeOK
  <2>2. todo' \in {<<>>, <<"fifo_cfg">>, <<"pm", "fifo_cfg">>, <<"s_reset", "pm", "fifo_cfg">>}
    <3>1. Tail(<<"fifo_cfg">>) = <<>>
      OBVIOUS
    <3>2. Tail(<<"pm", "fifo_cfg">>) = <<"fifo_cfg">>
      OBVIOUS
    <3>3. Tail(<<"s_reset", "pm", "fifo_cfg">>) = <<"pm", "fifo_cfg">>
      OBVIOUS
    <3> QED
      BY <2>0, <3>1, <3>2, <3>3
  <2>3. Head(todo) \in {"s_reset", "pm", "fifo_cfg"}
    BY <2>1 DEF Accel!WriteReg, Fetching, Accel!TypeOK
  <2>5. UNCHANGED astray
    BY <2>1 DEF Accel!WriteReg
  <2>4. /\ regs' \subseteq {"pm", "fifo_cfg"} /\ fill' \in 0..MaxBytes
        /\ phase' \in 0..(FrameLen - 1) /\ cut' \in BOOLEAN /\ (~cut' => phase' = 0)
    <3>1. CASE UNCHANGED Accel!chip
      BY <3>1 DEF Fetching, Accel!TypeOK
    <3>2. CASE regs' = {} /\ fill' = 0 /\ phase' = 0 /\ cut' = FALSE
      <4>1. 0 \in 0..MaxBytes /\ 0 \in 0..(FrameLen - 1)
        BY <1>0
      <4> QED
        BY <3>2, <4>1
    <3>3. CASE regs' = regs \cup {Head(todo)} /\ Head(todo) # "s_reset" /\ UNCHANGED <<fill, phase, cut>>
      BY <2>3, <3>3 DEF Fetching, Accel!TypeOK
    <3> QED
      BY <2>1, <3>1, <3>2, <3>3 DEF Accel!WriteReg
  <2> QED
    BY <2>1, <2>2, <2>4, <2>5 DEF Fetching, Accel!TypeOK, Accel!InBuffers
<1>7. CASE StartDevices
  BY <1>1, <1>2, <1>7 DEF StartDevices
<1>8. CASE AccelLoop
  <2>1. boot' = boot /\ boot = "loop"
    BY <1>8 DEF AccelLoop, main
  <2>2. CASE Accel!ReadCount
    BY <1>0, <2>1, <2>2 DEF Accel!ReadCount, Fetching, Accel!TypeOK, Accel!InBuffers
  <2>3. CASE Accel!Fetch
    <3>1. PICK n \in 0..Accel!Wanted :
            /\ Accel!HandsOut(n)
            /\ astray' = (astray \/ n > BufLen \/ Accel!Wanted > DataLen * FrameLen)
      BY <2>3 DEF Accel!Fetch
    <3>2. count' = 0 /\ todo' = todo
      BY <2>3 DEF Accel!Fetch
    <3>3. Accel!InBuffers'
      <4> SUFFICES ASSUME Accel!QueueFits PROVE ~astray'
        BY DEF Accel!InBuffers, Accel!QueueFits
      <4>1. Accel!Wanted <= BufLen /\ Accel!Wanted <= DataLen * FrameLen
        BY WantedFits
      <4>2. ~astray
        BY DEF Fetching, Accel!InBuffers
      <4>3. Accel!Wanted \in Nat /\ BufLen \in Nat /\ DataLen * FrameLen \in Nat
        BY WantedFrames, BoardAssumption DEF Fetching, Accel!TypeOK
      <4>4. ~(n > BufLen) /\ ~(Accel!Wanted > DataLen * FrameLen)
        <5> DEFINE w == Accel!Wanted
                   d == DataLen * FrameLen
        <5>1. n \in 0..w /\ w \in Nat /\ d \in Nat /\ w <= BufLen /\ w <= d
          BY <3>1, <4>1, <4>3
        <5> HIDE DEF w, d
        <5>2. ~(n > BufLen) /\ ~(w > d)
          BY ONLY <4>3, <5>1
        <5> QED
          BY ONLY <5>2 DEF w, d
      <4> QED
        BY ONLY <3>1, <4>2, <4>4
    <3>4. Accel!TypeOK'
      <4>1. astray' \in BOOLEAN
        BY ONLY <3>1
      <4> QED
        BY <3>1, <3>2, <4>1, HandsOutStep DEF Fetching, Accel!TypeOK
    <3> QED
      BY <3>1, <3>2, <3>3, <3>4, HandsOutStep DEF Fetching
  <2> QED
    BY <1>8, <2>2, <2>3 DEF AccelLoop
<1>9. CASE CanLoop
  BY <1>1, <1>9 DEF CanLoop, main
<1>10. ASSUME NEW p \in Ports, ConsoleRead(p) PROVE Fetching'
  BY <1>1, <1>10 DEF ConsoleRead, main
<1>11. CASE Chips
  <2>1. boot' = boot
    BY <1>11 DEF Chips, main
  <2>2. CASE Accel!SampleByte
    BY <1>0, <2>1, <2>2 DEF Accel!SampleByte, Fetching, Accel!TypeOK, Accel!InBuffers
  <2> QED
    BY <1>1, <1>11, <2>1, <2>2 DEF Chips
<1>12. CASE Restart \/ Abort
  <2>0. Accel!Restart
    BY <1>12 DEF Restart, Abort, StartOver
  <2>1. todo' = <<>> /\ count' = 0 /\ astray' = FALSE
    BY <2>0 DEF Accel!Restart
  <2>2. CASE \E n \in 0..Accel!Wanted : Accel!HandsOut(n)
    <3>1. PICK n \in 0..Accel!Wanted : Accel!HandsOut(n)
      BY <2>2
    <3> QED
      BY <2>1, <3>1, HandsOutStep DEF Fetching, Accel!TypeOK, Accel!InBuffers
  <2>3. CASE regs' = {} /\ fill' = 0 /\ phase' = 0 /\ cut' = FALSE
    <3>1. (todo = <<>> /\ count = 0 /\ astray = FALSE
           /\ regs = {} /\ fill = 0 /\ phase = 0 /\ cut = FALSE => Fetching)'
      BY PoweredUpTyped, PTL
    <3> QED
      BY <2>1, <2>3, <3>1
  <2> QED
    BY <2>0, <2>2, <2>3 DEF Accel!Restart
<1>13. CASE UNCHANGED vars
  BY <1>1, <1>13 DEF vars, main
<1> QED
  BY <1>3, <1>4, <1>5, <1>6, <1>7, <1>8, <1>9, <1>10, <1>11, <1>12, <1>13 DEF Next, Main

(* Every step keeps the rest of the types. *)
LEMMA TypeStep == Typed /\ Imaged' /\ [Next]_vars => Typed'
<1> SUFFICES ASSUME Typed, Imaged', [Next]_vars PROVE Typed'
  OBVIOUS
<1> USE DEF Typed, main, expander, can
<1>0. MaxRestarts \in Nat /\ MaxFaults \in Nat /\ RxRoom \in Nat \ {0}
  BY BoardAssumption
<1>1. (UNCHANGED can) => Can!TypeOK'
  BY DEF Can!TypeOK
<1>2. ASSUME NEW u \in links, ConstructUnit(u) PROVE Typed'
  BY <1>1, <1>2 DEF ConstructUnit
<1>3. CASE NvsInit \/ NvsErase \/ NvsInitAgain \/ AccelSetup
  <2>1. UNCHANGED <<use, restarts, expander, can>>
    BY <1>3 DEF NvsInit, NvsErase, NvsInitAgain, AccelSetup
  <2>2. faults' = faults \/ (faults < MaxFaults /\ faults' = faults + 1)
    BY <1>3 DEF NvsInit, NvsErase, NvsInitAgain, FlashFails, GoOn, AccelSetup
  <2>3. faults' \in 0..MaxFaults
    BY <1>0, <2>2
  <2>4. nvs' \in {"good", "stale"}
    BY <1>3 DEF NvsInit, NvsErase, NvsInitAgain, FlashFails, GoOn, AccelSetup
  <2>5. boot' \in {"nvs", "erase", "again", "accel", "devices", "abort"}
    BY <1>3 DEF NvsInit, NvsErase, NvsInitAgain, FlashFails, GoOn, AccelSetup
  <2> QED
    BY <1>1, <2>1, <2>3, <2>4, <2>5
<1>4. CASE StartDevices
  BY <1>0, <1>4 DEF StartDevices, Can!Setup, Can!TypeOK
<1>5. CASE AccelLoop
  BY <1>1, <1>5 DEF AccelLoop
<1>6. CASE CanLoop
  <2>1. UNCHANGED <<main, expander>> /\ Can!HandleAlerts
    BY <1>6 DEF CanLoop
  <2>2. Can!TypeOK'
    <3>1. CASE Can!Begin \/ Can!ReadTimeout \/ Can!Drained
      BY <3>1 DEF Can!Begin, Can!ReadTimeout, Can!Drained, Can!driver, Can!TypeOK
    <3>2. CASE Can!ReadAlerts
      BY <3>2 DEF Can!ReadAlerts, Can!TypeOK
    <3>3. CASE Can!Drain
      <4>1. rx \in 0..RxRoom /\ rx > 0 /\ rx' = rx - 1
        BY <3>3 DEF Can!Drain, Can!TypeOK
      <4>2. rx' \in 0..RxRoom
        BY <1>0, <4>1
      <4> QED
        BY <3>3, <4>2 DEF Can!Drain, Can!TypeOK
    <3> QED
      BY <2>1, <3>1, <3>2, <3>3 DEF Can!HandleAlerts
  <2> QED
    BY <2>1, <2>2
<1>7. ASSUME NEW p \in Ports, ConsoleRead(p) PROVE Typed'
  BY <1>1, <1>7 DEF ConsoleRead
<1>8. CASE Chips
  <2>1. UNCHANGED <<main, expander>>
    BY <1>8 DEF Chips
  <2>2. Can!TypeOK'
    <3>1. CASE Can!Receive
      <4>1. rx \in 0..RxRoom /\ rx < RxRoom /\ rx' = rx + 1
        BY <3>1 DEF Can!Receive, Can!TypeOK
      <4>2. rx' \in 0..RxRoom
        BY <1>0, <4>1
      <4> QED
        BY <3>1, <4>2 DEF Can!Receive, Can!TypeOK
    <3>2. CASE Can!Degrade
      BY <3>2 DEF Can!Degrade, Can!TypeOK
    <3>3. CASE Can!Improve
      BY <3>3 DEF Can!Improve, Can!TypeOK
    <3> QED
      BY <1>1, <1>8, <3>1, <3>2, <3>3 DEF Chips, Can!Bus
  <2> QED
    BY <2>1, <2>2
<1>9. CASE Restart \/ Abort
  <2>1. Can!TypeOK'
    <3>1. 0 \in 0..RxRoom
      BY <1>0
    <3> QED
      BY <1>9, <3>1 DEF Restart, Abort, StartOver, Can!Restart, Can!TypeOK
  <2>2. restarts' \in 0..MaxRestarts
    BY <1>0, <1>9 DEF Restart, Abort
  <2>3. nvs' \in {"good", "stale"}
    BY <1>9 DEF Restart, Abort
  <2> QED
    BY <1>9, <2>1, <2>2, <2>3 DEF Restart, Abort, StartOver
<1>10. CASE UNCHANGED vars
  BY <1>1, <1>10 DEF vars
<1> QED
  BY <1>2, <1>3, <1>4, <1>5, <1>6, <1>7, <1>8, <1>9, <1>10 DEF Next, Main

(* The invariant holds in every reachable state. *)
LEMMA Invariance == Spec => []IInv
<1>1. IInv /\ [Next]_vars => IInv'
  BY ImageStep, AlertStep, FetchStep, TypeStep DEF IInv
<1> QED
  BY <1>1, InitIInv, PTL DEF Spec
-----------------------------------------------------------------------------
(* The linker's order of the translation units decides between two images  *)
(* of the expander and no others, and the console changes the pins it was  *)
(* told only: the constructors of pins.hpp and PCA9557.hpp.                *)
THEOREM ImageSafe == Spec => []ImageConsistent
<1>1. IInv => ImageConsistent
  BY DEF IInv, Imaged
<1> QED
  BY <1>1, Invariance, PTL

(* handle_alerts() of CAN.hpp never waits for an alert with a message in   *)
(* the queue and no alert set, whatever the room of the queue.             *)
THEOREM WakeupSafe == Spec => []NoLostWakeup
<1>1. IInv => NoLostWakeup
  BY DEF IInv, Alerted, NoLostWakeup, Can!NoLostWakeup
<1> QED
  BY <1>1, Invariance, PTL

(* Every variable stays in its type, those of the accelerometer and of the *)
(* CAN bus included.                                                       *)
THEOREM TypeCorrect == Spec => []TypeOK
<1>1. IInv => TypeOK
  BY DEF IInv, Imaged, Fetching, Typed, TypeOK
<1> QED
  BY <1>1, Invariance, PTL

(* read_fifo() of QMA6100P.hpp fetches whole frames that are in the queue, *)
(* from the start of one, for every length of a frame and of the queue:    *)
(* the samples behind the count, transfers that fail and restarts do not   *)
(* shift the axes, unless a fetch was cut short and no reset has come      *)
(* since.                                                                  *)
THEOREM FetchesAligned == Spec => []Aligned
<1>1. Fetching => Accel!Aligned
  BY WantedFrames DEF Fetching, Accel!Aligned
<1> QED
  BY <1>1, Invariance, PTL DEF IInv, Aligned
-----------------------------------------------------------------------------
(* Nothing it fetches goes outside process_buf, and no reading outside     *)
(* data, for every size of either and every queue whose whole frames fit;  *)
(* that the queue of the chip does is not checked by the code.             *)
THEOREM FetchesFit == Spec => []InBuffers
<1>1. Fetching => Accel!InBuffers
  BY DEF Fetching
<1> QED
  BY <1>1, Invariance, PTL DEF IInv, InBuffers

(* read_fifo() again: decrement and complement in sixteen bits, then       *)
(* negation, give the number in two's complement, for every sixteen bits,  *)
(* the smallest number included, whose magnitude has the sign bit.         *)
THEOREM DecodeIsTwosComplement ==
    \A w \in Accel!Word : Accel!Decode(w) = Accel!TwosComplement(w)
<1> SUFFICES ASSUME NEW w \in Accel!Word PROVE Accel!Decode(w) = Accel!TwosComplement(w)
  OBVIOUS
<1>1. w \in Nat /\ w < 2 * Accel!SignBit
  <2>1. Accel!SignBit \in Nat
    BY DEF Accel!SignBit
  <2>2. w \in 0..(2 * Accel!SignBit - 1)
    BY Zenon DEF Accel!Word
  <2> QED
    BY ONLY <2>1, <2>2
<1> USE DEF Accel!SignBit
<1>2. CASE w < 32768
  <2>1. w \div 32768 = 0
    BY ONLY <1>1, <1>2
  <2> QED
    BY ONLY <1>1, <1>2, <2>1 DEF Accel!Decode, Accel!TwosComplement
<1>3. CASE w >= 32768
  <2>1. w \div 32768 = 1
    BY ONLY <1>1, <1>3
  <2> QED
    BY ONLY <1>1, <1>3, <2>1 DEF Accel!Decode, Accel!TwosComplement, Accel!Inverted
<1> QED
  BY ONLY <1>1, <1>2, <1>3
=============================================================================
