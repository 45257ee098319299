----------------------------- MODULE FreqMeter -----------------------------
(***************************************************************************)
(* The frequency meter (src/main/freq_meter.hpp) and the console command   *)
(* that makes and deletes it (toggle_f_meter() in src/main/console.hpp).   *)
(* Three parties share a Freq_meter: the console task, which constructs    *)
(* and destroys it, the interrupt handler, which counts edges in it, and   *)
(* its own task, which reads the count every three seconds.                *)
(*                                                                         *)
(* One core: while interrupts are disabled only who disabled them runs,    *)
(* and the clock stands still for the others.  The task has the lowest     *)
(* priority and may be kept off the processor for any number of ticks,     *)
(* wherever it is.                                                         *)
(*                                                                         *)
(* A meter is an object, not its memory: a new one is another one as long  *)
(* as a task is left behind, and what that task does to memory which is in *)
(* use again is not followed.                                              *)
(***************************************************************************)
EXTENDS Naturals

CONSTANTS
    MaxMeters,   \* bound: meters alive or with a task left behind
    MaxEdges,    \* bound: edges of the input counted for one meter
    DelayTicks   \* ticks the destructor sleeps, 10 in the code

ASSUME FreqAssumption ==
    MaxMeters \in Nat \ {0} /\ MaxEdges \in Nat /\ DelayTicks \in Nat

Meters == 1..MaxMeters

VARIABLES
    f_meter,   \* the console's pointer: a meter, or 0 for null
    con,       \* the console task: which statement of new or delete is next
    this,      \* the meter being constructed
    alive,     \* meters not freed
    service,   \* the ISR service is installed
    handler,   \* whom it calls for the pin, 0 for nobody
    pending,   \* an edge the processor has not taken the interrupt for
    masked,    \* interrupts are disabled
    tsk,       \* the task of every meter
    left,      \* ticks the console has still to sleep
    stay,      \* ghost: ticks since the task woke for a reading, up to DelayTicks
    notified,  \* its notification count, 0 or 1
    cnt,       \* Freq_meter::cnt
    cnt1,      \* get_freq()'s copy
    edges,     \* ghost: edges since the handler was added
    read       \* ghost: edges in the frequencies computed so far

console == <<f_meter, con, this, alive>>
irq     == <<service, handler, pending>>
counts  == <<cnt, cnt1, edges, read>>
time    == <<left, stay>>
vars == <<console, irq, masked, tsk, notified, counts, time>>

Init ==
    /\ f_meter = 0 /\ con = "idle" /\ this = 0 /\ alive = {}
    /\ service = FALSE /\ handler = 0 /\ pending = FALSE
    /\ masked = FALSE
    /\ tsk = [m \in Meters |-> "none"]
    /\ notified = [m \in Meters |-> 0]
    /\ left = 0 /\ stay = [m \in Meters |-> 0]
    /\ cnt = [m \in Meters |-> 0] /\ cnt1 = 0
    /\ edges = [m \in Meters |-> 0] /\ read = [m \in Meters |-> 0]
-----------------------------------------------------------------------------
(* mistake: the count of a new meter is what the memory held *)
NewKeepsCount ==
    /\ con = "idle" /\ f_meter = 0 /\ ~masked
    /\ \E m \in Meters \ alive :
        /\ tsk[m] \in {"none", "gone"}
        /\ this' = m
        /\ alive' = alive \cup {m}
        /\ edges' = [edges EXCEPT ![m] = 0]
        /\ read' = [read EXCEPT ![m] = 0]
    /\ con' = "install"
    /\ UNCHANGED <<f_meter, irq, masked, tsk, notified, cnt, cnt1, time>>

(* toggle_f_meter(): new Freq_meter *)
New ==
    /\ con = "idle" /\ f_meter = 0 /\ ~masked
    /\ \E m \in Meters \ alive :
        /\ tsk[m] \in {"none", "gone"}
        /\ this' = m
        /\ alive' = alive \cup {m}
        /\ cnt' = [cnt EXCEPT ![m] = 0]
        /\ edges' = [edges EXCEPT ![m] = 0]
        /\ read' = [read EXCEPT ![m] = 0]
    /\ con' = "install"
    /\ UNCHANGED <<f_meter, irq, masked, tsk, notified, cnt1, time>>

(* a second installation is an error, and ESP_ERROR_CHECK aborts on it *)
Install ==
    /\ con = "install" /\ ~masked
    /\ con' = IF service THEN "abort" ELSE "add"
    /\ service' = TRUE
    /\ UNCHANGED <<f_meter, this, alive, handler, pending, masked, tsk, notified, counts, time>>

AddHandler ==
    /\ con = "add" /\ ~masked
    /\ handler' = this
    /\ con' = "create"
    /\ UNCHANGED <<f_meter, this, alive, service, pending, masked, tsk, notified, counts, time>>

CreateTask ==
    /\ con = "create" /\ ~masked
    /\ tsk' = [tsk EXCEPT ![this] = "wait"]
    /\ f_meter' = this
    /\ con' = "idle"
    /\ UNCHANGED <<this, alive, irq, masked, notified, counts, time>>

(* mistake: the destructor does not wait for the task *)
NotifyAndGoOn ==
    /\ con = "idle" /\ f_meter # 0 /\ ~masked
    /\ notified' = [notified EXCEPT ![f_meter] = 1]
    /\ con' = "uninstall"
    /\ UNCHANGED <<f_meter, this, alive, irq, masked, tsk, counts, time>>

(* toggle_f_meter(): delete f_meter *)
Notify ==
    /\ con = "idle" /\ f_meter # 0 /\ ~masked
    /\ notified' = [notified EXCEPT ![f_meter] = 1]
    /\ con' = "delay"
    /\ left' = DelayTicks
    /\ UNCHANGED <<f_meter, this, alive, irq, masked, tsk, stay, counts>>

(* vTaskDelay(10) is over, wherever the task of the meter is *)
Delayed ==
    /\ con = "delay" /\ ~masked
    /\ left = 0
    /\ con' = "uninstall"
    /\ UNCHANGED <<f_meter, this, alive, irq, masked, tsk, notified, counts, time>>

(* mistake: the handler of the pin stays *)
ResetPinOnly ==
    /\ con = "uninstall" /\ ~masked
    /\ con' = "free"
    /\ UNCHANGED <<f_meter, this, alive, irq, masked, tsk, notified, counts, time>>

Uninstall ==
    /\ con = "uninstall" /\ ~masked
    /\ service' = FALSE /\ handler' = 0 /\ pending' = FALSE
    /\ con' = "free"
    /\ UNCHANGED <<f_meter, this, alive, masked, tsk, notified, counts, time>>

Free ==
    /\ con = "free" /\ ~masked
    /\ alive' = alive \ {f_meter}
    /\ f_meter' = 0
    /\ con' = "idle"
    /\ UNCHANGED <<this, irq, masked, tsk, notified, counts, time>>

Console == New \/ Install \/ AddHandler \/ CreateTask
           \/ Notify \/ Delayed \/ Uninstall \/ Free
-----------------------------------------------------------------------------
(* An edge of the input raises the interrupt; edges come no faster than it *)
(* is taken.                                                               *)
Edge ==
    /\ handler # 0 /\ ~pending
    /\ edges[handler] < MaxEdges
    /\ edges' = [edges EXCEPT ![handler] = @ + 1]
    /\ pending' = TRUE
    /\ UNCHANGED <<console, service, handler, masked, tsk, notified, cnt, cnt1, read, time>>

(* the tick interrupt *)
InGetFreq == {"woken", "copy", "clear", "read_last", "write_last"}
Tick ==
    /\ ~masked
    /\ left' = IF left = 0 THEN 0 ELSE left - 1
    /\ stay' = [m \in Meters |-> IF tsk[m] \in InGetFreq /\ stay[m] < DelayTicks
                                 THEN stay[m] + 1 ELSE stay[m]]
    /\ UNCHANGED <<console, irq, masked, tsk, notified, counts>>

(* isr() *)
Isr ==
    /\ pending /\ ~masked
    /\ cnt' = [cnt EXCEPT ![handler] = @ + 1]
    /\ pending' = FALSE
    /\ UNCHANGED <<console, service, handler, masked, tsk, notified, cnt1, edges, read, time>>
-----------------------------------------------------------------------------
(* task(): ulTaskNotifyTake() with three seconds *)

(* mistake: the notification is not taken for the order to end *)
TakenIgnored(m) ==
    /\ tsk[m] = "wait" /\ ~masked
    /\ notified[m] = 1
    /\ tsk' = [tsk EXCEPT ![m] = "woken"]
    /\ notified' = [notified EXCEPT ![m] = 0]
    /\ UNCHANGED <<console, irq, masked, counts, time>>

Taken(m) ==
    /\ tsk[m] = "wait" /\ ~masked
    /\ notified[m] = 1
    /\ tsk' = [tsk EXCEPT ![m] = "gone"]
    /\ notified' = [notified EXCEPT ![m] = 0]
    /\ UNCHANGED <<console, irq, masked, counts, time>>

TimedOut(m) ==
    /\ tsk[m] = "wait" /\ ~masked
    /\ notified[m] = 0
    /\ tsk' = [tsk EXCEPT ![m] = "woken"]
    /\ UNCHANGED <<console, irq, masked, notified, counts, time>>

(* mistake: interrupts stay enabled *)
NoDisable(m) ==
    /\ tsk[m] = "woken"
    /\ tsk' = [tsk EXCEPT ![m] = "copy"]
    /\ UNCHANGED <<console, irq, masked, notified, counts, time>>

(* get_freq(): interrupts off, copy, clear, interrupts on, last_update *)
Disable(m) ==
    /\ tsk[m] = "woken" /\ ~masked
    /\ masked' = TRUE
    /\ tsk' = [tsk EXCEPT ![m] = "copy"]
    /\ UNCHANGED <<console, irq, notified, counts, time>>

Copy(m) ==
    /\ tsk[m] = "copy"
    /\ cnt1' = cnt[m]
    /\ tsk' = [tsk EXCEPT ![m] = "clear"]
    /\ UNCHANGED <<console, irq, masked, notified, cnt, edges, read, time>>

ClearAndEnable(m) ==
    /\ tsk[m] = "clear"
    /\ cnt' = [cnt EXCEPT ![m] = 0]
    /\ read' = [read EXCEPT ![m] = @ + cnt1]
    /\ cnt1' = 0
    /\ masked' = FALSE
    /\ tsk' = [tsk EXCEPT ![m] = "read_last"]
    /\ UNCHANGED <<console, irq, notified, edges, time>>

(* last_update is read, and then written; the rest is arithmetic and the log *)
ReadLast(m) ==
    /\ tsk[m] = "read_last" /\ ~masked
    /\ tsk' = [tsk EXCEPT ![m] = "write_last"]
    /\ UNCHANGED <<console, irq, masked, notified, counts, time>>

WriteLast(m) ==
    /\ tsk[m] = "write_last" /\ ~masked
    /\ tsk' = [tsk EXCEPT ![m] = "wait"]
    /\ stay' = [stay EXCEPT ![m] = 0]
    /\ UNCHANGED <<console, irq, masked, notified, counts, left>>

MeterTask(m) ==
    \/ Taken(m) \/ TimedOut(m)
    \/ Disable(m) \/ Copy(m) \/ ClearAndEnable(m) \/ ReadLast(m) \/ WriteLast(m)

Next == Console \/ Edge \/ Isr \/ Tick \/ \E m \in Meters : MeterTask(m)

Spec == Init /\ [][Next]_vars

(* A task that is ready again and again runs: interrupts are never off for *)
(* longer than the copy, and tasks of one priority take turns.             *)
FairSpec == Spec /\ \A m \in Meters : SF_vars(MeterTask(m))
-----------------------------------------------------------------------------
(* Every variable stays in its type. *)
TypeOK ==
    /\ f_meter \in 0..MaxMeters /\ this \in 0..MaxMeters /\ alive \subseteq Meters
    /\ con \in {"idle", "install", "add", "create", "delay", "uninstall",
                "free", "abort"}
    /\ service \in BOOLEAN /\ handler \in 0..MaxMeters
    /\ pending \in BOOLEAN /\ masked \in BOOLEAN
    /\ tsk \in [Meters -> {"none", "wait", "gone"} \cup InGetFreq]
    /\ notified \in [Meters -> 0..1]
    /\ left \in 0..DelayTicks /\ stay \in [Meters -> 0..DelayTicks]
    /\ cnt \in [Meters -> 0..MaxEdges] /\ cnt1 \in 0..MaxEdges
    /\ edges \in [Meters -> 0..MaxEdges] /\ read \in [Meters -> Nat]

(* The interrupt handler never touches a meter that was freed.  The task   *)
(* does only if it was kept off the processor inside get_freq() for the    *)
(* whole delay of the destructor, which does not wait for it: nothing in   *)
(* the code rules that out, but less than that is never enough, wherever   *)
(* the task was when it was notified.                                      *)
OnlyLiveTouched ==
    /\ \A m \in Meters : tsk[m] \in InGetFreq /\ stay[m] < DelayTicks => m \in alive
    /\ handler # 0 => handler \in alive

(* Every edge is counted in exactly one reading: the handler does not come *)
(* between the copy of the count and its reset.  (Of a meter whose memory  *)
(* no late task of another one is writing to.)                             *)
EdgesConserved ==
    \A m \in Meters :
        m = handler =>
            edges[m] = read[m] + cnt[m] + (IF pending THEN 1 ELSE 0)

(* Making and deleting meters in turn never trips ESP_ERROR_CHECK: the     *)
(* destructor takes down all that the constructor installs.                *)
NeverAborts == con # "abort"

(* The task of a deleted meter ends. *)
DeletedEnds ==
    \A m \in Meters : (con = "delay" /\ f_meter = m) ~> tsk[m] = "gone"
=============================================================================
