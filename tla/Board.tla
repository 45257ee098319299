------------------------------- MODULE Board -------------------------------
(***************************************************************************)
(* The start of the application (src/main/main.cpp) and what it starts on  *)
(* the board: the constructors of the global objects, which write to the   *)
(* image the port expander has in memory (src/main/PCA9557.hpp,            *)
(* src/main/pins.hpp), the flash partition, the accelerometer, the CAN     *)
(* driver, and the console, which writes to the same image.                *)
(*                                                                         *)
(* app_main() ends in one of the loops it has at its end: the one that     *)
(* reads the accelerometer, the one that handles the CAN bus, or none (all *)
(* three are commented out now).  The device may restart at any moment;    *)
(* the chips and the flash then keep what they have.                       *)
(***************************************************************************)
EXTENDS Integers, Sequences

CONSTANTS
    Ports,       \* pin numbers the console can be told, 0..9 in the code
    Declared,    \* those pins.hpp declares as outputs
    FrameLen, MaxBytes, BufLen, DataLen,   \* see Accelerometer
    RxRoom,               \* see CanBus
    MaxRestarts, \* bound: restarts of the device, aborts apart
    MaxFaults    \* bound: errors of the flash

ASSUME BoardAssumption ==
    /\ Ports \subseteq 0..9 /\ Declared \subseteq Ports \cap 0..7
    /\ FrameLen \in Nat \ {0}
    /\ MaxBytes \in Nat /\ BufLen \in Nat /\ DataLen \in Nat
    /\ RxRoom \in Nat \ {0} /\ MaxRestarts \in Nat /\ MaxFaults \in Nat

VARIABLES
    boot,      \* "construct", "nvs", "erase", "again", "accel", "devices",
               \* "loop" or "abort"
    links,     \* translation units whose objects are not constructed yet
    config,    \* regs[addr_config] of the expander object: pins that are inputs
    read,      \* ghost: pins the console has made inputs
    nvs,       \* flash: "good", or "stale" (no free pages, a new version)
    faults,    \* errors of the flash so far
    use,       \* the loop at the end of app_main(): "none", "accel" or "can"
    restarts,  \* restarts so far
    todo, regs, fill, phase, count, cut, astray,   \* see Accelerometer
    node, rx, alerts, call                         \* see CanBus

Accel == INSTANCE Accelerometer
Can   == INSTANCE CanBus

main == <<boot, links, nvs, faults, use, restarts>>
expander == <<config, read>>
accel == <<todo, regs, fill, phase, count, cut, astray>>
can == <<node, rx, alerts, call>>
vars == <<main, expander, accel, can>>

(* every one of them includes pins.hpp; main.cpp has the expander object *)
Units == {"main", "wifi", "bluetooth", "i2c"}
Bits == Ports \cap 0..7      \* those that have a bit in the byte
Input(c, p) == c \cup ({p} \cap Bits)

Init ==
    /\ boot = "construct" /\ links = Units
    /\ config = {} /\ read = {}
    /\ nvs \in {"good", "stale"}
    /\ use \in {"none", "accel", "can"}
    /\ restarts = 0 /\ faults = 0
    /\ Accel!Init
    /\ Can!Init
-----------------------------------------------------------------------------
(* mistake: the expander object is not reset by its constructor *)
ConstructUnitOnly(u) ==
    /\ boot = "construct"
    /\ links' = links \ {u}
    /\ config' = config \ Declared
    /\ boot' = IF links = {u} THEN "nvs" ELSE boot
    /\ UNCHANGED <<read, nvs, faults, use, restarts, accel, can>>

(* The constructors of a unit, the units in the order of the linker.  The  *)
(* unit's own copies of the pins come first and make theirs outputs; in    *)
(* main.cpp the expander follows them, and makes every pin an input.       *)
ConstructUnit(u) ==
    /\ boot = "construct"
    /\ links' = links \ {u}
    /\ config' = IF u = "main" THEN Bits ELSE config \ Declared
    /\ boot' = IF links = {u} THEN "nvs" ELSE boot
    /\ UNCHANGED <<read, nvs, faults, use, restarts, accel, can>>

(* The flash gives an error other than that of a stale partition, and      *)
(* ESP_ERROR_CHECK aborts on it.                                           *)
FlashFails ==
    /\ faults < MaxFaults
    /\ faults' = faults + 1
    /\ boot' = "abort"
    /\ UNCHANGED <<nvs, accel>>

(* the flash is ready: then the bus, and accel.setup() begins *)
GoOn ==
    /\ boot' = "accel"
    /\ Accel!BeginSetup
    /\ UNCHANGED <<nvs, faults>>

(* nvs_flash_init() *)
NvsInit ==
    /\ boot = "nvs"
    /\ \/ nvs = "good" /\ GoOn
       \/ nvs = "stale" /\ boot' = "erase" /\ UNCHANGED <<nvs, faults, accel>>
       \/ FlashFails
    /\ UNCHANGED <<links, use, restarts, expander, can>>

(* mistake: the partition is not erased *)
NvsEraseNothing ==
    /\ boot = "erase"
    /\ boot' = "again"
    /\ UNCHANGED <<links, nvs, faults, use, restarts, expander, accel, can>>

(* nvs_flash_erase(): it may also leave the partition as it was *)
NvsErase ==
    /\ boot = "erase"
    /\ \/ nvs' = "good" /\ boot' = "again" /\ UNCHANGED <<faults, accel>>
       \/ /\ faults < MaxFaults /\ faults' = faults + 1
          /\ boot' = "again"
          /\ UNCHANGED <<nvs, accel>>
       \/ FlashFails
    /\ UNCHANGED <<links, use, restarts, expander, can>>

(* nvs_flash_init() once more: any error aborts now *)
NvsInitAgain ==
    /\ boot = "again"
    /\ \/ nvs = "good" /\ GoOn
       \/ nvs = "stale" /\ boot' = "abort" /\ UNCHANGED <<nvs, faults, accel>>
       \/ FlashFails
    /\ UNCHANGED <<links, use, restarts, expander, can>>

AccelSetup ==
    /\ boot = "accel"
    /\ Accel!WriteReg
    /\ boot' = IF todo' = <<>> THEN "devices" ELSE boot
    /\ UNCHANGED <<links, nvs, faults, use, restarts, expander, can>>

(* Wi-Fi, the GPS receiver, the modem, can.setup(), the reporting task and *)
(* the console.  gps.setup() sends the levels of the expander, not which   *)
(* pins are outputs.                                                       *)
StartDevices ==
    /\ boot = "devices"
    /\ Can!Setup
    /\ boot' = "loop"
    /\ UNCHANGED <<links, nvs, faults, use, restarts, expander, accel>>

AccelLoop ==
    /\ boot = "loop" /\ use = "accel"
    /\ (Accel!ReadCount \/ Accel!Fetch)
    /\ UNCHANGED <<main, expander, can>>

CanLoop ==
    /\ boot = "loop" /\ use = "can"
    /\ Can!HandleAlerts
    /\ UNCHANGED <<main, expander, accel>>

(* the processor starts from the beginning *)
StartOver ==
    /\ boot' = "construct" /\ links' = Units
    /\ config' = {} /\ read' = {}
    /\ Accel!Restart
    /\ Can!Restart
    /\ UNCHANGED <<faults, use>>

(* nothing was stored before this abort *)
Abort ==
    /\ boot = "abort"
    /\ StartOver
    /\ UNCHANGED <<nvs, restarts>>

Main ==
    \/ \E u \in links : ConstructUnit(u)
    \/ NvsInit \/ NvsErase \/ NvsInitAgain \/ AccelSetup \/ StartDevices
    \/ AccelLoop \/ CanLoop \/ Abort
-----------------------------------------------------------------------------
(* expander_read: the image only, nothing is sent *)
ConsoleRead(p) ==
    /\ boot = "loop"
    /\ config' = Input(config, p)
    /\ read' = Input(read, p)
    /\ UNCHANGED <<main, accel, can>>

Chips ==
    /\ \/ Accel!SampleByte /\ UNCHANGED can
       \/ Can!Bus /\ UNCHANGED accel
    /\ UNCHANGED <<main, expander>>

(* "reset", "erase_log", an abort elsewhere or the power; what was stored  *)
(* meanwhile may have filled the pages of the partition                    *)
Restart ==
    /\ restarts < MaxRestarts
    /\ restarts' = restarts + 1
    /\ nvs' \in {nvs, "stale"}
    /\ StartOver

Next == Main \/ (\E p \in Ports : ConsoleRead(p)) \/ Chips \/ Restart

(* the main task is scheduled whenever it can run *)
Spec == Init /\ [][Next]_vars /\ WF_vars(Main)
-----------------------------------------------------------------------------
(* Every variable stays in its type. *)
TypeOK ==
    /\ boot \in {"construct", "nvs", "erase", "again", "accel", "devices",
                 "loop", "abort"}
    /\ links \subseteq Units
    /\ config \subseteq Bits /\ read \subseteq Bits
    /\ nvs \in {"good", "stale"} /\ use \in {"none", "accel", "can"}
    /\ restarts \in 0..MaxRestarts /\ faults \in 0..MaxFaults
    /\ Accel!TypeOK
    /\ Can!TypeOK

(* Whatever order the units are constructed in, the image is one of two    *)
(* when main() begins: every declared pin is an output, or none is (the    *)
(* expander came last); the others are inputs.  After that only the pins   *)
(* the console was told change.                                            *)
ImageConsistent ==
    links = {} =>
        /\ (Bits \ Declared) \cup read \subseteq config
        /\ \/ Declared \cap config \subseteq read
           \/ Declared \subseteq config

(* The application comes up once the restarts and the errors of the flash  *)
(* end: an abort is a new start, one erase heals a stale partition, and no *)
(* failing register write stops it.                                        *)
ComesUp == <>[](boot = "loop")

(* The fetches of the accelerometer, and the alerts of the CAN driver.     *)
Aligned == Accel!Aligned
InBuffers == Accel!InBuffers
NoLostWakeup == Can!NoLostWakeup
=============================================================================
