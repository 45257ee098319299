-------------------------- MODULE FreqMeterProofs --------------------------
(***************************************************************************)
(* Proofs about FreqMeter, for every number of meters and of edges and     *)
(* every length of the destructor's delay.                                 *)
(***************************************************************************)
EXTENDS FreqMeter, TLAPS

(* What the console owns at every statement of new and delete. *)
Owned ==
    /\ con # "abort"
    /\ f_meter # 0 => alive = {f_meter}
    /\ con \in {"delay", "uninstall", "free"} => f_meter # 0
    /\ (con = "idle" /\ f_meter = 0) => alive = {}
    /\ con \in {"install", "add", "create"} =>
        f_meter = 0 /\ this \in Meters /\ alive = {this}
    /\ service =>
        con \in {"add", "create", "delay", "uninstall"} \/ (con = "idle" /\ f_meter # 0)
    /\ handler = IF con = "create" THEN this
                 ELSE IF con \in {"idle", "delay", "uninstall"} THEN f_meter ELSE 0
    /\ handler = 0 => ~pending

(* A task that has ended, or ends when it runs next. *)
Ends(m) == tsk[m] \in {"none", "gone"} \/ (tsk[m] = "wait" /\ notified[m] = 1)

(* A task that was inside for the whole delay. *)
Late(m) == tsk[m] \in InGetFreq /\ notified[m] = 1 /\ stay[m] = DelayTicks

(* The tasks of freed meters, of meters being made and of those going: one *)
(* that was inside when it was notified has been there since.              *)
Ended ==
    /\ \A m \in Meters \ alive : Ends(m) \/ Late(m)
    /\ con \in {"install", "add", "create"} => tsk[this] \in {"none", "gone"}
    /\ con = "delay" =>
        \/ tsk[f_meter] = "gone"
        \/ /\ notified[f_meter] = 1
           /\ tsk[f_meter] \in InGetFreq => stay[f_meter] + left >= DelayTicks
    /\ con \in {"uninstall", "free"} => Ends(f_meter) \/ Late(f_meter)

(* The count and its copy. *)
Counted ==
    /\ \A m \in Meters : tsk[m] \in {"copy", "clear"} => masked
    /\ \A m, n \in Meters :
        tsk[m] \in {"copy", "clear"} /\ tsk[n] \in {"copy", "clear"} => m = n
    /\ \A m \in Meters : tsk[m] = "clear" => cnt1 = cnt[m]
    /\ con \in {"install", "add"} => cnt[this] = 0 /\ edges[this] = 0 /\ read[this] = 0
    /\ EdgesConserved

IInv == TypeOK /\ Owned /\ Ended /\ Counted
-----------------------------------------------------------------------------
(* The invariant holds initially. *)
LEMMA InitIInv == Init => IInv
<1> SUFFICES ASSUME Init PROVE IInv
  OBVIOUS
<1>1. TypeOK
  <2>1. 0 \in 0..MaxEdges /\ 0 \in 0..MaxMeters
    BY FreqAssumption
  <2>2. /\ cnt \in [Meters -> 0..MaxEdges] /\ cnt1 \in 0..MaxEdges
        /\ edges \in [Meters -> 0..MaxEdges] /\ read \in [Meters -> Nat]
    BY <2>1 DEF Init
  <2>3. notified \in [Meters -> 0..1]
    BY DEF Init
  <2>4. tsk \in [Meters -> {"none", "wait", "gone"} \cup InGetFreq] /\ alive \subseteq Meters
    BY DEF Init
  <2>5. left \in 0..DelayTicks /\ stay \in [Meters -> 0..DelayTicks]
    <3>1. 0 \in 0..DelayTicks
      BY FreqAssumption
    <3> QED
      BY <3>1 DEF Init
  <2> QED
    BY <2>1, <2>2, <2>3, <2>4, <2>5 DEF Init, TypeOK
<1>2. Owned
  BY DEF Init, Owned
<1>3. Ended
  BY DEF Init, Ended, Ends, Late
<1>4. Counted
  BY DEF Init, Counted, EdgesConserved, Meters
<1> QED
  BY <1>1, <1>2, <1>3, <1>4 DEF IInv
-----------------------------------------------------------------------------
(* The steps of the console keep the invariant. *)
LEMMA ConsoleStep == IInv /\ Console => IInv'
<1> SUFFICES ASSUME IInv, Console PROVE IInv'
  OBVIOUS
<1> USE FreqAssumption DEF IInv, console, irq, counts, time, Meters
<1>1. ~masked /\ UNCHANGED masked
  BY DEF Console, New, Install, AddHandler, CreateTask, Notify, Delayed, Uninstall, Free
<1>2. CASE New
  <2>1. PICK m \in Meters \ alive :
            /\ tsk[m] \in {"none", "gone"} /\ this' = m /\ alive' = alive \cup {m}
            /\ cnt' = [cnt EXCEPT ![m] = 0] /\ edges' = [edges EXCEPT ![m] = 0]
            /\ read' = [read EXCEPT ![m] = 0]
    BY <1>2 DEF New
  <2>2. /\ con = "idle" /\ f_meter = 0 /\ con' = "install"
        /\ UNCHANGED <<f_meter, irq, masked, tsk, notified, cnt1, time>>
    BY <1>2 DEF New
  <2>3. alive = {} /\ handler = 0 /\ ~pending
    BY <2>2 DEF Owned
  <2>4. TypeOK'
    <3>0. 0 \in 0..MaxEdges /\ 0 \in Nat
      OBVIOUS
    <3>1. /\ cnt \in [Meters -> 0..MaxEdges] /\ edges \in [Meters -> 0..MaxEdges]
          /\ read \in [Meters -> Nat]
      BY DEF TypeOK
    <3>2. /\ cnt' \in [Meters -> 0..MaxEdges] /\ edges' \in [Meters -> 0..MaxEdges]
          /\ read' \in [Meters -> Nat]
      BY ONLY <2>1, <3>0, <3>1
    <3>3. this' \in 0..MaxMeters /\ alive' \subseteq Meters
      <4>1. m \in 0..MaxMeters /\ m \in Meters
        BY ONLY <2>1, FreqAssumption DEF Meters
      <4>2. alive \subseteq Meters
        BY DEF TypeOK
      <4> QED
        BY ONLY <2>1, <4>1, <4>2
    <3> QED
      BY <2>2, <3>2, <3>3 DEF TypeOK
  <2>5. Owned'
    BY <2>1, <2>2, <2>3 DEF Owned
  <2>6. Ended'
    BY <2>1, <2>2 DEF Ended, Ends, Late
  <2>7. Counted'
    <3>1. /\ cnt \in [Meters -> 0..MaxEdges] /\ edges \in [Meters -> 0..MaxEdges]
          /\ read \in [Meters -> Nat] /\ m \in Meters
      BY <2>1 DEF TypeOK
    <3>2. cnt'[m] = 0 /\ edges'[m] = 0 /\ read'[m] = 0
      BY ONLY <2>1, <3>1
    <3>3. \A n \in Meters : n # m => cnt'[n] = cnt[n]
      BY ONLY <2>1, <3>1
    <3>4. \A n \in Meters : tsk[n] = "clear" => n # m
      BY <2>1
    <3>5. handler' = 0
      BY <2>2, <2>3
    <3>6. EdgesConserved'
      BY <3>5 DEF EdgesConserved
    <3> QED
      BY <2>1, <2>2, <3>2, <3>3, <3>4, <3>6 DEF Counted
  <2> QED
    BY <2>4, <2>5, <2>6, <2>7
<1>3. CASE Install
  <2>1. TypeOK'
    BY <1>3 DEF Install, TypeOK
  <2>2. Owned'
    BY <1>3 DEF Install, Owned
  <2>3. Ended' /\ Counted'
    BY <1>3 DEF Install, Owned, Ended, Ends, Late, Counted, EdgesConserved
  <2> QED
    BY <2>1, <2>2, <2>3
<1>4. CASE AddHandler
  <2>1. TypeOK'
    BY <1>4 DEF AddHandler, TypeOK
  <2>2. Owned'
    BY <1>4 DEF AddHandler, Owned
  <2>3. Ended'
    BY <1>4 DEF AddHandler, Ended, Ends, Late
  <2>4. Counted'
    BY <1>4 DEF AddHandler, Owned, Counted, EdgesConserved
  <2> QED
    BY <2>1, <2>2, <2>3, <2>4
<1>5. CASE CreateTask
  <2>1. TypeOK'
    BY <1>5 DEF CreateTask, TypeOK, Owned
  <2>2. Owned'
    BY <1>5 DEF CreateTask, Owned
  <2>3. Ended'
    BY <1>5 DEF CreateTask, Owned, Ended, Ends, Late, TypeOK
  <2>4. Counted'
    BY <1>5 DEF CreateTask, Owned, Counted, EdgesConserved, TypeOK
  <2> QED
    BY <2>1, <2>2, <2>3, <2>4
<1>6. CASE Notify
  <2>0. /\ con = "idle" /\ f_meter # 0 /\ con' = "delay" /\ left' = DelayTicks
        /\ notified' = [notified EXCEPT ![f_meter] = 1]
        /\ UNCHANGED <<f_meter, this, alive, irq, masked, tsk, stay, counts>>
    BY <1>6 DEF Notify
  <2>1. TypeOK'
    <3>1. notified \in [Meters -> 0..1] /\ 1 \in 0..1
      BY DEF TypeOK
    <3>2. notified' \in [Meters -> 0..1]
      BY ONLY <2>0, <3>1
    <3>3. left' \in 0..DelayTicks
      BY <2>0
    <3> QED
      BY <2>0, <3>2, <3>3 DEF TypeOK
  <2>2. Owned'
    BY <1>6 DEF Notify, Owned
  <2>3. Ended'
    <3>1. f_meter \in Meters /\ notified \in [Meters -> 0..1] /\ alive = {f_meter}
      BY <2>0 DEF TypeOK, Owned
    <3>2. notified'[f_meter] = 1 /\ \A n \in Meters : n # f_meter => notified'[n] = notified[n]
      BY ONLY <2>0, <3>1
    <3>3. tsk[f_meter] \in InGetFreq => stay'[f_meter] + left' >= DelayTicks
      <4>1. stay[f_meter] \in Nat
        BY <3>1 DEF TypeOK
      <4> QED
        BY <2>0, <4>1
    <3>4. \A n \in Meters \ alive : (Ends(n) \/ Late(n))'
      BY <2>0, <3>1, <3>2 DEF Ended, Ends, Late
    <3> QED
      BY <2>0, <3>2, <3>3, <3>4 DEF Ended
  <2>4. Counted'
    BY <1>6 DEF Notify, Counted, EdgesConserved
  <2> QED
    BY <2>1, <2>2, <2>3, <2>4
<1>7. CASE Delayed
  <2>1. TypeOK'
    BY <1>7 DEF Delayed, TypeOK
  <2>2. Owned'
    BY <1>7 DEF Delayed, Owned
  <2>3. Ended'
    <3>1. f_meter \in Meters
      BY <1>7 DEF Delayed, Owned, TypeOK
    <3>2. Ends(f_meter) \/ Late(f_meter)
      <4>1. con = "delay" /\ left = 0
        BY <1>7 DEF Delayed
      <4>2. CASE tsk[f_meter] \in InGetFreq
        <5>1. notified[f_meter] = 1 /\ stay[f_meter] + left >= DelayTicks
          BY <4>1, <4>2 DEF Ended, InGetFreq
        <5>2. stay[f_meter] \in 0..DelayTicks
          BY <3>1 DEF TypeOK
        <5>3. stay[f_meter] = DelayTicks
          BY ONLY <4>1, <5>1, <5>2, FreqAssumption
        <5> QED
          BY ONLY <4>2, <5>1, <5>3 DEF Late
      <4>3. CASE tsk[f_meter] \notin InGetFreq
        <5>1. tsk[f_meter] \in {"none", "wait", "gone"} \cup InGetFreq
          BY <3>1 DEF TypeOK
        <5>2. tsk[f_meter] = "gone" \/ notified[f_meter] = 1
          BY <4>1 DEF Ended
        <5> QED
          BY ONLY <4>3, <5>1, <5>2 DEF Ends
      <4> QED
        BY <4>2, <4>3
    <3> QED
      BY <1>7, <3>2 DEF Delayed, Ended, Ends, Late
  <2>4. Counted'
    BY <1>7 DEF Delayed, Counted, EdgesConserved
  <2> QED
    BY <2>1, <2>2, <2>3, <2>4
<1>8. CASE Uninstall
  <2>1. TypeOK'
    <3>1. 0 \in 0..MaxMeters
      OBVIOUS
    <3> QED
      BY <1>8, <3>1 DEF Uninstall, TypeOK
  <2>2. Owned'
    BY <1>8 DEF Uninstall, Owned
  <2>3. Ended'
    BY <1>8 DEF Uninstall, Ended, Ends, Late
  <2>4. Counted'
    BY <1>8 DEF Uninstall, Counted, EdgesConserved
  <2> QED
    BY <2>1, <2>2, <2>3, <2>4
<1>9. CASE Free
  <2>1. TypeOK'
    <3>1. alive' \subseteq Meters /\ f_meter' \in 0..MaxMeters
      BY <1>9 DEF Free, TypeOK
    <3> QED
      BY <1>9, <3>1 DEF Free, TypeOK
  <2>2. Owned'
    BY <1>9 DEF Free, Owned
  <2>3. Ended'
    BY <1>9 DEF Free, Owned, Ended, Ends, Late
  <2>4. Counted'
    BY <1>9 DEF Free, Counted, EdgesConserved
  <2> QED
    BY <2>1, <2>2, <2>3, <2>4
<1> QED
  BY <1>2, <1>3, <1>4, <1>5, <1>6, <1>7, <1>8, <1>9 DEF Console
-----------------------------------------------------------------------------
(* An edge and its interrupt keep the invariant. *)
LEMMA IrqStep == IInv /\ (Edge \/ Isr) => IInv'
<1> SUFFICES ASSUME IInv, Edge \/ Isr PROVE IInv'
  OBVIOUS
<1> USE FreqAssumption DEF IInv, console, time, Meters
<1>1. handler \in Meters /\ cnt[handler] \in Nat /\ read[handler] \in Nat
        /\ edges[handler] \in 0..MaxEdges
  <2>1. handler \in Meters
    BY DEF Edge, Isr, TypeOK, Owned
  <2>2. /\ cnt \in [Meters -> 0..MaxEdges] /\ edges \in [Meters -> 0..MaxEdges]
        /\ read \in [Meters -> Nat]
    BY DEF TypeOK
  <2> QED
    BY ONLY <2>1, <2>2, FreqAssumption
<1>2. edges[handler] = read[handler] + cnt[handler] + (IF pending THEN 1 ELSE 0)
  BY <1>1 DEF Counted, EdgesConserved
<1>3. CASE Edge
  <2>1. TypeOK'
    <3>1. edges[handler] + 1 \in 0..MaxEdges
      BY <1>1, <1>3 DEF Edge
    <3>2. edges' \in [Meters -> 0..MaxEdges]
      BY <1>1, <1>3, <3>1 DEF Edge, TypeOK
    <3> QED
      BY <1>3, <3>2 DEF Edge, TypeOK
  <2>2. Owned' /\ Ended'
    BY <1>1, <1>3 DEF Edge, Owned, Ended, Ends, Late
  <2>3. Counted'
    <3>1. EdgesConserved'
      BY <1>1, <1>2, <1>3 DEF Edge, EdgesConserved, TypeOK
    <3>2. con \in {"install", "add"} => handler # this
      BY <1>1 DEF Owned
    <3> QED
      BY <1>3, <3>1, <3>2 DEF Edge, Counted, TypeOK, Owned
  <2> QED
    BY <2>1, <2>2, <2>3
<1>4. CASE Isr
  <2>1. cnt[handler] + 1 \in 0..MaxEdges
    BY <1>1, <1>2, <1>4 DEF Isr
  <2>2. TypeOK'
    BY <1>1, <1>4, <2>1 DEF Isr, TypeOK
  <2>3. Owned' /\ Ended'
    BY <1>1, <1>4 DEF Isr, Owned, Ended, Ends, Late
  <2>4. Counted'
    <3>1. EdgesConserved'
      <4>1. /\ pending /\ ~pending' /\ cnt \in [Meters -> 0..MaxEdges]
            /\ cnt' = [cnt EXCEPT ![handler] = @ + 1]
            /\ UNCHANGED <<handler, edges, read>>
        BY <1>4 DEF Isr, TypeOK
      <4>2. cnt'[handler] = cnt[handler] + 1
        BY ONLY <1>1, <4>1
      <4>3. edges[handler] = read[handler] + cnt[handler] + 1
        BY <1>2, <4>1
      <4>4. edges[handler] = read[handler] + (cnt[handler] + 1) + 0
        BY ONLY <1>1, <4>3
      <4> QED
        BY ONLY <4>1, <4>2, <4>4 DEF EdgesConserved
    <3>2. con \notin {"install", "add"}
      BY <1>1 DEF Owned
    <3> QED
      BY <1>4, <3>1, <3>2 DEF Isr, Counted
  <2> QED
    BY <2>2, <2>3, <2>4
<1> QED
  BY <1>3, <1>4
-----------------------------------------------------------------------------
(* The tasks of the meters keep the invariant: only the task of a meter    *)
(* that is alive and not notified gets into get_freq().                    *)
LEMMA TaskStep == ASSUME IInv, NEW m \in Meters, MeterTask(m) PROVE IInv'
<1> USE FreqAssumption DEF IInv, console, irq, counts, time, Meters
<1>1. TimedOut(m) => m \in alive
  BY DEF Ended, Ends, Late, InGetFreq, TimedOut
<1>3. CASE Taken(m)
  <2>1. TypeOK'
    <3>1. notified' \in [Meters -> 0..1] /\ UNCHANGED <<console, irq, masked, counts, time>>
      BY <1>3 DEF Taken, TypeOK
    <3>2. tsk' \in [Meters -> {"none", "wait", "gone"} \cup InGetFreq]
      BY <1>3 DEF Taken, TypeOK
    <3> QED
      BY <3>1, <3>2 DEF TypeOK
  <2>2. Owned'
    BY <1>3 DEF Taken, Owned
  <2>3. Ended'
    BY <1>3 DEF Taken, Ended, Ends, Late, TypeOK, Owned
  <2>4. Counted'
    BY <1>3 DEF Taken, Counted, EdgesConserved, TypeOK
  <2> QED
    BY <2>1, <2>2, <2>3, <2>4
<1>4. CASE TimedOut(m)
  <2>1. TypeOK'
    BY <1>4 DEF TimedOut, TypeOK, InGetFreq
  <2>2. Owned'
    BY <1>4 DEF TimedOut, Owned
  <2>3. Ended'
    <3>1. tsk[m] = "wait" /\ notified[m] = 0 /\ UNCHANGED <<console, notified, time>>
      BY <1>4 DEF TimedOut
    <3>2. \A n \in Meters : n # m => tsk'[n] = tsk[n]
      BY <1>4 DEF TimedOut, TypeOK
    <3>3. m \in alive
      BY <1>1, <1>4
    <3>4. con = "delay" => f_meter # m
      BY <3>1 DEF Ended, InGetFreq
    <3>5. con \in {"uninstall", "free"} => f_meter # m
      BY <3>1 DEF Ended, Ends, Late, InGetFreq
    <3>6. con \in {"install", "add", "create"} => this # m
      BY <3>1 DEF Ended
    <3>7. /\ con \in {"delay", "uninstall", "free"} => f_meter \in Meters
          /\ con \in {"install", "add", "create"} => this \in Meters
      BY DEF Owned, TypeOK
    <3> QED
      BY <3>1, <3>2, <3>3, <3>4, <3>5, <3>6, <3>7 DEF Ended, Ends, Late
  <2>4. Counted'
    BY <1>4 DEF TimedOut, Counted, EdgesConserved, TypeOK
  <2> QED
    BY <2>1, <2>2, <2>3, <2>4
<1>5. CASE Disable(m)
  <2>1. TypeOK'
    BY <1>5 DEF Disable, TypeOK, InGetFreq
  <2>2. Owned'
    BY <1>5 DEF Disable, Owned
  <2>3. Ended'
    BY <1>1, <1>5 DEF Disable, Ended, Ends, Late, TypeOK, Owned, InGetFreq
  <2>4. Counted'
    BY <1>5 DEF Disable, Counted, EdgesConserved, TypeOK
  <2> QED
    BY <2>1, <2>2, <2>3, <2>4
<1>6. CASE Copy(m)
  <2>1. TypeOK'
    BY <1>6 DEF Copy, TypeOK, InGetFreq
  <2>2. Owned'
    BY <1>6 DEF Copy, Owned
  <2>3. Ended'
    BY <1>1, <1>6 DEF Copy, Ended, Ends, Late, TypeOK, Owned, InGetFreq
  <2>4. Counted'
    <3>1. \A n \in Meters : tsk[n] = "clear" => n = m
      BY <1>6 DEF Copy, Counted
    <3> QED
      BY <1>6, <3>1 DEF Copy, Counted, EdgesConserved, TypeOK
  <2> QED
    BY <2>1, <2>2, <2>3, <2>4
<1>7. CASE ClearAndEnable(m)
  <2>1. cnt[m] \in 0..MaxEdges /\ read[m] \in Nat /\ cnt1 = cnt[m]
    BY <1>7 DEF ClearAndEnable, TypeOK, Counted
  <2>2. TypeOK'
    <3>1. /\ cnt' \in [Meters -> 0..MaxEdges] /\ cnt1' \in 0..MaxEdges
          /\ read' \in [Meters -> Nat]
      <4>1. /\ cnt \in [Meters -> 0..MaxEdges] /\ read \in [Meters -> Nat]
            /\ 0 \in 0..MaxEdges /\ cnt1 \in Nat
        <5>1. cnt \in [Meters -> 0..MaxEdges] /\ read \in [Meters -> Nat]
          BY DEF TypeOK
        <5>2. 0 \in 0..MaxEdges
          BY FreqAssumption
        <5> QED
          BY <2>1, <5>1, <5>2
      <4>2. cnt' = [cnt EXCEPT ![m] = 0] /\ read' = [read EXCEPT ![m] = @ + cnt1] /\ cnt1' = 0
        BY <1>7 DEF ClearAndEnable
      <4> QED
        BY ONLY <2>1, <4>1, <4>2
    <3>2. tsk' \in [Meters -> {"none", "wait", "gone"} \cup InGetFreq]
      <4>1. tsk \in [Meters -> {"none", "wait", "gone"} \cup InGetFreq]
        BY DEF TypeOK
      <4>2. tsk' = [tsk EXCEPT ![m] = "read_last"]
        BY <1>7 DEF ClearAndEnable
      <4> QED
        BY ONLY <4>1, <4>2 DEF InGetFreq
    <3> QED
      BY <1>7, <3>1, <3>2 DEF ClearAndEnable, TypeOK
  <2>3. Owned'
    BY <1>7 DEF ClearAndEnable, Owned
  <2>4. Ended'
    BY <1>1, <1>7 DEF ClearAndEnable, Ended, Ends, Late, TypeOK, Owned, InGetFreq
  <2>5. Counted'
    <3>1. \A n \in Meters : tsk[n] \in {"copy", "clear"} => n = m
      BY <1>7 DEF ClearAndEnable, Counted
    <3>2. con \in {"install", "add"} => m # this
      BY <1>7 DEF ClearAndEnable, Ended
    <3>3. EdgesConserved'
      <4> SUFFICES ASSUME NEW n \in Meters, n = handler
                   PROVE  edges'[n] = read'[n] + cnt'[n] + (IF pending' THEN 1 ELSE 0)
        BY <1>7 DEF ClearAndEnable, EdgesConserved
      <4>1. edges[n] = read[n] + cnt[n] + (IF pending THEN 1 ELSE 0)
        BY DEF Counted, EdgesConserved
      <4>2. CASE n = m
        <5>1. edges'[n] = edges[n] /\ read'[n] = read[n] + cnt[n] /\ cnt'[n] = 0
                /\ pending' = pending
          BY <1>7, <2>1, <4>2 DEF ClearAndEnable, TypeOK
        <5> QED
          BY <2>1, <4>1, <4>2, <5>1
      <4>3. CASE n # m
        BY <1>7, <4>1, <4>3 DEF ClearAndEnable, TypeOK
      <4> QED
        BY <4>2, <4>3
    <3> QED
      BY <1>7, <3>1, <3>2, <3>3 DEF ClearAndEnable, Counted, TypeOK, Owned
  <2> QED
    BY <2>2, <2>3, <2>4, <2>5
<1>8. CASE ReadLast(m)
  <2>1. TypeOK'
    BY <1>8 DEF ReadLast, TypeOK, InGetFreq
  <2>2. Owned'
    BY <1>8 DEF ReadLast, Owned
  <2>3. Ended'
    BY <1>8 DEF ReadLast, Ended, Ends, Late, TypeOK, Owned, InGetFreq
  <2>4. Counted'
    BY <1>8 DEF ReadLast, Counted, EdgesConserved, TypeOK
  <2> QED
    BY <2>1, <2>2, <2>3, <2>4
<1>9. CASE WriteLast(m)
  <2>1. TypeOK'
    <3>1. 0 \in 0..DelayTicks
      OBVIOUS
    <3>2. stay' \in [Meters -> 0..DelayTicks] /\ left' = left
      BY <1>9, <3>1 DEF WriteLast, TypeOK
    <3>3. tsk' \in [Meters -> {"none", "wait", "gone"} \cup InGetFreq]
      BY <1>9 DEF WriteLast, TypeOK
    <3> QED
      BY <1>9, <3>2, <3>3 DEF WriteLast, TypeOK
  <2>2. Owned'
    BY <1>9 DEF WriteLast, Owned
  <2>3. Ended'
    BY <1>9 DEF WriteLast, Ended, Ends, Late, TypeOK, Owned, InGetFreq
  <2>4. Counted'
    BY <1>9 DEF WriteLast, Counted, EdgesConserved, TypeOK
  <2> QED
    BY <2>1, <2>2, <2>3, <2>4
<1> QED
  BY <1>3, <1>4, <1>5, <1>6, <1>7, <1>8, <1>9 DEF MeterTask
-----------------------------------------------------------------------------
(* A tick keeps the invariant: it counts for the console and for the task  *)
(* inside alike.                                                           *)
LEMMA TickStep == IInv /\ Tick => IInv'
<1> SUFFICES ASSUME IInv, Tick PROVE IInv'
  OBVIOUS
<1> USE FreqAssumption DEF IInv, console, irq, counts, Meters
<1>1. left \in 0..DelayTicks /\ stay \in [Meters -> 0..DelayTicks] /\ DelayTicks \in Nat
  BY DEF TypeOK
<1>2. /\ left' = IF left = 0 THEN 0 ELSE left - 1
      /\ stay' = [m \in Meters |-> IF tsk[m] \in InGetFreq /\ stay[m] < DelayTicks
                                   THEN stay[m] + 1 ELSE stay[m]]
      /\ UNCHANGED <<console, irq, masked, tsk, notified, counts>>
  BY DEF Tick
<1>3. left' \in 0..DelayTicks /\ left' + 1 >= left
  BY ONLY <1>1, <1>2
<1>4. ASSUME NEW m \in Meters
      PROVE  /\ stay'[m] \in 0..DelayTicks
             /\ stay[m] = DelayTicks => stay'[m] = DelayTicks
             /\ tsk[m] \in InGetFreq => stay'[m] = DelayTicks \/ stay'[m] = stay[m] + 1
  <2>1. stay[m] \in 0..DelayTicks
    BY <1>1
  <2>2. stay'[m] = IF tsk[m] \in InGetFreq /\ stay[m] < DelayTicks
                   THEN stay[m] + 1 ELSE stay[m]
    BY <1>2
  <2> QED
    BY ONLY <1>1, <2>1, <2>2
<1>5. TypeOK'
  <2>1. stay' \in [Meters -> 0..DelayTicks]
    BY <1>2, <1>4
  <2> QED
    BY <1>2, <1>3, <2>1 DEF TypeOK
<1>6. Owned' /\ Counted'
  BY <1>2 DEF Owned, Counted, EdgesConserved
<1>7. Ended'
  <2>1. ASSUME con = "delay", tsk[f_meter] \in InGetFreq
        PROVE  stay'[f_meter] + left' >= DelayTicks
    <3>1. f_meter \in Meters
      BY <2>1 DEF Owned, TypeOK
    <3>2. stay[f_meter] + left >= DelayTicks
      BY <2>1 DEF Ended, InGetFreq
    <3>3. stay'[f_meter] = DelayTicks \/ stay'[f_meter] = stay[f_meter] + 1
      BY <1>4, <2>1, <3>1
    <3>4. stay[f_meter] \in Nat
      BY <1>1, <3>1
    <3>5. PICK l \in Nat : l = left'
      BY <1>3
    <3>6. PICK t \in Nat : t = stay'[f_meter]
      BY <1>1, <3>3, <3>4
    <3>7. l + 1 >= left /\ (t = DelayTicks \/ t = stay[f_meter] + 1)
      BY <1>3, <3>3, <3>5, <3>6
    <3>8. t + l >= DelayTicks
      BY ONLY <1>1, <3>2, <3>4, <3>7
    <3> QED
      BY <3>5, <3>6, <3>8
  <2>2. \A m \in Meters : Ends(m) \/ Late(m) => (Ends(m) \/ Late(m))'
    BY <1>2, <1>4 DEF Ends, Late
  <2>3. \A m \in Meters \ alive' : (Ends(m) \/ Late(m))'
    BY <1>2, <2>2 DEF Ended
  <2>4. con' \in {"uninstall", "free"} => (Ends(f_meter) \/ Late(f_meter))'
    <3>1. con \in {"uninstall", "free"} => f_meter \in Meters
      BY DEF Owned, TypeOK
    <3> QED
      BY <1>2, <2>2, <3>1 DEF Ended
  <2> QED
    BY <1>2, <2>1, <2>3, <2>4 DEF Ended
<1> QED
  BY <1>5, <1>6, <1>7

(* The invariant holds in every reachable state. *)
LEMMA Invariance == Spec => []IInv
<1>1. IInv /\ UNCHANGED vars => IInv'
  BY DEF IInv, vars, console, irq, counts, time, TypeOK, Owned, Ended, Ends, Late, Counted,
     EdgesConserved
<1>2. IInv /\ [Next]_vars => IInv'
  BY <1>1, ConsoleStep, IrqStep, TickStep, TaskStep DEF Next
<1> QED
  BY <1>2, InitIInv, PTL DEF Spec
-----------------------------------------------------------------------------
(* Every variable of the meter stays in its type; no count exceeds the     *)
(* number of edges.                                                        *)
THEOREM TypeCorrect == Spec => []TypeOK
<1>1. IInv => TypeOK
  BY DEF IInv
<1> QED
  BY <1>1, Invariance, PTL

(* The destructor of freq_meter.hpp frees a meter whose interrupt handler  *)
(* is gone and whose task is outside, unless that was kept inside          *)
(* get_freq() for as long as the destructor sleeps: for every number of    *)
(* ticks it sleeps, and however long the task is kept off the processor.   *)
THEOREM NoUseAfterFree == Spec => []OnlyLiveTouched
<1>1. IInv => OnlyLiveTouched
  <2> SUFFICES ASSUME IInv PROVE OnlyLiveTouched
    OBVIOUS
  <2>1. ASSUME NEW m \in Meters, tsk[m] \in InGetFreq, stay[m] < DelayTicks
        PROVE  m \in alive
    <3>1. ~Ends(m)
      BY <2>1 DEF Ends, InGetFreq
    <3>2. ~Late(m)
      BY <2>1, FreqAssumption DEF Late
    <3> QED
      BY <3>1, <3>2 DEF IInv, Ended
  <2>2. handler # 0 => handler \in alive
    BY DEF IInv, Owned, TypeOK
  <2> QED
    BY <2>1, <2>2 DEF OnlyLiveTouched
<1> QED
  BY <1>1, Invariance, PTL

(* get_freq() loses no edge and counts none twice. *)
THEOREM EdgesCountedOnce == Spec => []EdgesConserved
<1>1. IInv => EdgesConserved
  BY DEF IInv, Counted
<1> QED
  BY <1>1, Invariance, PTL

(* toggle_f_meter() of console.hpp may be called any number of times. *)
THEOREM ToggleSafe == Spec => []NeverAborts
<1>1. IInv => NeverAborts
  BY DEF IInv, Owned, NeverAborts
<1> QED
  BY <1>1, Invariance, PTL
=============================================================================
