----------------------------- MODULE GattServer -----------------------------
(***************************************************************************)
(* The Bluetooth server (src/main/bluetooth.cpp).  app_main() has its      *)
(* setup() commented out at this commit; the file is built with the rest.  *)
(*                                                                         *)
(* The stack (external) carries out the calls later and reports them, and  *)
(* what the client does, as events; the two event handlers run in one task *)
(* of the stack, one event at a time, in the order of the queue.           *)
(*                                                                         *)
(* The bytes of the buffer for prepared writes are followed.  What a byte  *)
(* stored beside it hits is not, only that there was one.                  *)
(***************************************************************************)
EXTENDS Integers, Sequences

CONSTANTS
    Capacity,     \* PREPARE_BUF_MAX_SIZE, 1024 in the code
    Offsets,      \* where a piece is to go that a client prepares, two bytes
    Values,       \* values of a byte
    Pieces,       \* what is to go there; an attribute has 600 bytes at most
    MaxPrepared,  \* bound: bytes there are already when a piece is prepared
    MaxRestarts   \* bound: restarts of the device

ASSUME GattAssumption ==
    /\ Capacity \in Nat \ {0}
    /\ Offsets \subseteq Nat
    /\ Pieces \subseteq Seq(Values)
    /\ \A p \in Pieces : Len(p) <= Capacity
    /\ MaxPrepared \in Nat /\ MaxRestarts \in Nat

VARIABLES
    queue,            \* events not handled yet, oldest first
    built,            \* gl_profile_tab: "if", "service", "char", "descr"
    adv_config_done,  \* its flags: "adv" and "rsp"
    configured,       \* what the stack has to advertise
    refused,          \* what of it the stack failed to take
    advertising,      \* the stack advertises
    link,             \* a client is connected
    wants,            \* client: the request it waits for an answer to
    prepare_buf,      \* whether it is allocated
    bytes,            \* what is in it
    prepare_len,
    told,             \* ghost: the pieces answered with OK, one after the other
    ordered,          \* ghost: each of them began where the one before ended
    astray,           \* ghost: those stored outside the buffer: "first", "later"
    restarts          \* restarts so far

profile == <<built, adv_config_done>>
radio   == <<configured, refused, advertising, link>>
env     == <<prepare_buf, bytes, prepare_len, told, ordered, astray>>
vars    == <<queue, profile, radio, wants, env, restarts>>

Event(what) == [is |-> what, offset |-> 0, value |-> <<>>]

Unset == "unset"
Blank == [b \in 1..Capacity |-> Unset]

Init ==
    /\ queue = <<Event("REG")>>
    /\ built = {} /\ adv_config_done = {}
    /\ configured = {} /\ refused = {} /\ advertising = FALSE /\ link = FALSE
    /\ wants = "none"
    /\ prepare_buf = FALSE /\ bytes = Blank /\ prepare_len = 0
    /\ told = <<>> /\ ordered = TRUE /\ astray = {}
    /\ restarts = 0

Handles(what) == queue # <<>> /\ Head(queue).is = what
ThenPost(new) == queue' = Tail(queue) \o new
Done == queue' = Tail(queue)
-----------------------------------------------------------------------------
(* gatts_event_handler() and its profile's handler: the service is built   *)
(* step by step, each step begun by the event of the one before.           *)

(* both advertising data are given to the stack, and the flags say so      *)
(* before either of its answers can be handled                             *)
OnReg ==
    /\ Handles("REG")
    /\ built' = built \cup {"if"}
    /\ adv_config_done' = {"adv", "rsp"}
    /\ ThenPost(<<Event("adv data"), Event("rsp data"), Event("CREATE")>>)
    /\ UNCHANGED <<radio, wants, env, restarts>>

OnCreate ==
    /\ Handles("CREATE")
    /\ built' = built \cup {"service"}
    /\ ThenPost(<<Event("START"), Event("ADD_CHAR")>>)
    /\ UNCHANGED <<adv_config_done, radio, wants, env, restarts>>

OnAddChar ==
    /\ Handles("ADD_CHAR")
    /\ built' = built \cup {"char"}
    /\ ThenPost(<<Event("ADD_CHAR_DESCR")>>)
    /\ UNCHANGED <<adv_config_done, radio, wants, env, restarts>>

OnAddCharDescr ==
    /\ Handles("ADD_CHAR_DESCR")
    /\ built' = built \cup {"descr"}
    /\ Done
    /\ UNCHANGED <<adv_config_done, radio, wants, env, restarts>>

(* START, MTU, CONF and what else is only logged *)
OnOther ==
    /\ Handles("START") \/ Handles("READ")
    /\ Done
    /\ UNCHANGED <<profile, radio, wants, env, restarts>>

(* the connection parameters are asked to be updated *)
OnConnect ==
    /\ Handles("CONNECT")
    /\ Done
    /\ UNCHANGED <<profile, radio, wants, env, restarts>>

(* mistake: advertising is not taken up again *)
OnDisconnectSilent ==
    /\ Handles("DISCONNECT")
    /\ Done
    /\ UNCHANGED <<profile, radio, wants, env, restarts>>

OnDisconnect ==
    /\ Handles("DISCONNECT")
    /\ advertising' = TRUE
    /\ Done
    /\ UNCHANGED <<profile, configured, refused, link, wants, env, restarts>>
-----------------------------------------------------------------------------
(* gap_event_handler() *)

(* mistake: either answer starts it *)
OnDataSetEither(flag, is) ==
    /\ Handles(is)
    /\ adv_config_done' = adv_config_done \ {flag}
    /\ advertising' = TRUE
    /\ Done
    /\ UNCHANGED <<built, configured, refused, link, wants, env, restarts>>

OnDataSet(flag, is) ==
    /\ Handles(is)
    /\ adv_config_done' = adv_config_done \ {flag}
    /\ advertising' = (advertising \/ adv_config_done' = {})
    /\ Done
    /\ UNCHANGED <<built, configured, refused, link, wants, env, restarts>>
-----------------------------------------------------------------------------
(* Writes.  A client waits for the answer to one request before the next.  *)

Answer == wants' = "none"

(* a plain write, answered if the client wants an answer *)
OnWrite ==
    /\ Handles("WRITE") \/ Handles("WRITE_NO_RSP")
    /\ IF Handles("WRITE") THEN Answer ELSE UNCHANGED wants
    /\ Done
    /\ UNCHANGED <<profile, radio, env, restarts>>

(* example_write_event_env(): where the piece goes is looked at only when  *)
(* the buffer is there already                                             *)

(* mistake: the end of the piece is not looked at *)
PieceStatusOfBegin(e) ==
    IF ~prepare_buf THEN {"OK", "NO_RESOURCES"}
    ELSE IF e.offset > Capacity THEN {"INVALID_OFFSET"}
    ELSE {"OK"}

PieceStatus(e) ==
    IF ~prepare_buf THEN {"OK", "NO_RESOURCES"}
    ELSE IF e.offset > Capacity THEN {"INVALID_OFFSET"}
    ELSE IF e.offset + Len(e.value) > Capacity THEN {"INVALID_ATTR_LEN"}
    ELSE {"OK"}

(* the piece is copied, into a buffer just allocated or to those before it *)
Stored(e) ==
    [b \in 1..Capacity |->
        IF b \in (e.offset + 1)..(e.offset + Len(e.value)) THEN e.value[b - e.offset]
        ELSE IF prepare_buf THEN bytes[b] ELSE Unset]

Stray(e) ==
    IF e.offset + Len(e.value) <= Capacity THEN {}
    ELSE IF prepare_buf THEN {"later"} ELSE {"first"}

Store(e) ==
    /\ prepare_buf' = TRUE
    /\ bytes' = Stored(e)
    /\ astray' = astray \cup Stray(e)
    /\ prepare_len' = prepare_len + Len(e.value)
    /\ told' = told \o e.value
    /\ ordered' = (ordered /\ e.offset = Len(told))

(* mistakes: the answer is sent for a stored piece only; the length counts *)
(* a refused piece                                                         *)
OnPrepareWriteMute ==
    /\ Handles("PREPARE")
    /\ \E status \in PieceStatus(Head(queue)) :
        IF status = "OK" THEN Answer /\ Store(Head(queue))
        ELSE UNCHANGED <<wants, env>>
    /\ Done
    /\ UNCHANGED <<profile, radio, restarts>>
OnPrepareWriteEarly ==
    /\ Handles("PREPARE")
    /\ \E status \in PieceStatus(Head(queue)) :
        /\ Answer
        /\ IF status = "OK" THEN Store(Head(queue))
           ELSE /\ prepare_len' = prepare_len + Len(Head(queue).value)
                /\ UNCHANGED <<prepare_buf, bytes, told, ordered, astray>>
    /\ Done
    /\ UNCHANGED <<profile, radio, restarts>>

OnPrepareWrite ==
    /\ Handles("PREPARE")
    /\ \E status \in PieceStatus(Head(queue)) :
        /\ Answer
        /\ IF status = "OK" THEN Store(Head(queue)) ELSE UNCHANGED env
    /\ Done
    /\ UNCHANGED <<profile, radio, restarts>>

Drop ==
    /\ prepare_buf' = FALSE /\ bytes' = Blank /\ prepare_len' = 0
    /\ told' = <<>> /\ ordered' = TRUE /\ astray' = {}

(* example_exec_write_event_env(): executed or cancelled, all is dropped *)
OnExecWrite ==
    /\ Handles("EXEC_WRITE")
    /\ Answer
    /\ Drop
    /\ Done
    /\ UNCHANGED <<profile, radio, restarts>>

Handler ==
    \/ OnReg \/ OnCreate \/ OnAddChar \/ OnAddCharDescr \/ OnOther
    \/ OnConnect \/ OnDisconnect
    \/ OnDataSet("adv", "ADV_DATA_SET") \/ OnDataSet("rsp", "SCAN_RSP_DATA_SET")
    \/ OnWrite \/ OnPrepareWrite \/ OnExecWrite
-----------------------------------------------------------------------------
(* The stack (external) and the client. *)

(* esp_ble_gap_config_adv_data() is carried out or fails; its event, which *)
(* tells which, is posted in either case                                   *)
Configures(data, is) ==
    /\ \/ configured' = configured \cup {data} /\ UNCHANGED refused
       \/ refused' = refused \cup {data} /\ UNCHANGED configured
    /\ ThenPost(<<Event(is)>>)

StackConfigures ==
    /\ \/ Handles("adv data") /\ Configures("adv", "ADV_DATA_SET")
       \/ Handles("rsp data") /\ Configures("rsp", "SCAN_RSP_DATA_SET")
    /\ UNCHANGED <<profile, advertising, link, wants, env, restarts>>

(* a connection ends the advertising *)
ClientConnects ==
    /\ advertising
    /\ advertising' = FALSE /\ link' = TRUE
    /\ queue' = Append(queue, Event("CONNECT"))
    /\ UNCHANGED <<profile, configured, refused, wants, env, restarts>>

(* events of the connection that are not handled yet are still to come *)
ClientGoes ==
    /\ link
    /\ link' = FALSE
    /\ wants' = "none"
    /\ queue' = Append(queue, Event("DISCONNECT"))
    /\ UNCHANGED <<profile, configured, refused, advertising, env, restarts>>

(* the characteristic is there when the service has been built *)
Asks(e, waits) ==
    /\ link /\ wants = "none" /\ "char" \in built
    /\ queue' = Append(queue, e)
    /\ wants' = waits
    /\ UNCHANGED <<profile, radio, env, restarts>>

ClientWrites ==
    \/ Asks(Event("WRITE"), "write")
    \/ queue = <<>> /\ Asks(Event("WRITE_NO_RSP"), "none")
    \/ Asks(Event("EXEC_WRITE"), "write")
    \/ /\ Len(told) < MaxPrepared
       /\ \E o \in Offsets, p \in Pieces :
            Asks([is |-> "PREPARE", offset |-> o, value |-> p], "write")

(* the code that answered a read is commented out *)
ClientReads == Asks(Event("READ"), "read")

(* A handler aborts when the stack takes no data or no answer, and fails   *)
(* when there is no memory for the answer; "reset" of the console, or the  *)
(* power.  Nothing is kept, and the client is gone.                        *)
Restart ==
    /\ restarts < MaxRestarts
    /\ restarts' = restarts + 1
    /\ queue' = <<Event("REG")>>
    /\ built' = {} /\ adv_config_done' = {}
    /\ configured' = {} /\ refused' = {} /\ advertising' = FALSE /\ link' = FALSE
    /\ wants' = "none"
    /\ Drop

Next == Handler \/ StackConfigures \/ ClientConnects \/ ClientGoes
        \/ ClientWrites \/ ClientReads \/ Restart

Spec == Init /\ [][Next]_vars

(* The handlers' task runs, and the stack does what it is told or reports  *)
(* that it failed.                                                         *)
FairSpec == Spec /\ WF_vars(Handler \/ StackConfigures)
-----------------------------------------------------------------------------
EventNames == {"REG", "adv data", "rsp data", "CREATE", "START", "ADD_CHAR",
    "ADD_CHAR_DESCR", "ADV_DATA_SET", "SCAN_RSP_DATA_SET", "CONNECT", "DISCONNECT",
    "READ", "WRITE", "WRITE_NO_RSP", "PREPARE", "EXEC_WRITE"}

(* Every variable stays in its type. *)
TypeOK ==
    /\ queue \in Seq([is : EventNames, offset : Offsets \cup {0}, value : Pieces \cup {<<>>}])
    /\ built \subseteq {"if", "service", "char", "descr"}
    /\ adv_config_done \subseteq {"adv", "rsp"} /\ configured \subseteq {"adv", "rsp"}
    /\ refused \subseteq {"adv", "rsp"}
    /\ advertising \in BOOLEAN /\ link \in BOOLEAN
    /\ wants \in {"none", "write", "read"}
    /\ prepare_buf \in BOOLEAN /\ bytes \in [1..Capacity -> Values \cup {Unset}]
    /\ prepare_len \in 0..(MaxPrepared + Capacity)
    /\ told \in Seq(Values) /\ ordered \in BOOLEAN /\ astray \subseteq {"first", "later"}
    /\ restarts \in 0..MaxRestarts

(* The device is never to be seen before the stack has answered for both   *)
(* halves of its data, whichever answer comes last, nor beside a client:   *)
(* an old disconnection that is handled late never lets a second one in.   *)
(* (A half the stack failed to take is missing: the handlers do not look   *)
(* at what the answer says.)                                               *)
AdvertisedWhole == advertising => configured \cup refused = {"adv", "rsp"} /\ ~link

(* What is prepared, whatever was refused in between:                      *)
(*  - the length is that of the pieces answered with OK, which are in a    *)
(*    buffer;                                                              *)
(*  - none but the first is stored outside the buffer;                     *)
(*  - if each began where the one before ended, none is, and the buffer    *)
(*    begins with them.                                                    *)
(* Of pieces that come otherwise the last is not true: the code neither    *)
(* looks where the first goes nor keeps the length within the buffer.      *)
PreparedAsAnswered ==
    /\ prepare_len = Len(told)
    /\ told # <<>> => prepare_buf
    /\ "later" \notin astray
    /\ ordered => /\ astray = {} /\ Len(told) <= Capacity
                  /\ \A b \in 1..Len(told) : bytes[b] = told[b]

(* A device without a client is found again. *)
FoundAgain == ~link ~> advertising

(* A write that wants an answer gets one, or the client goes. *)
WriteAnswered == wants = "write" ~> wants = "none"
=============================================================================
