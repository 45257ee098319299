-------------------------- MODULE GattServerProofs --------------------------
(***************************************************************************)
(* Proofs about GattServer: advertising, and the pieces of a prepared      *)
(* write, for every buffer, every piece a client prepares and every length *)
(* of the stack's queue.                                                   *)
(***************************************************************************)
EXTENDS GattServer, TLAPS

Item == [is : EventNames, offset : Offsets \cup {0}, value : Pieces \cup {<<>>}]

In(q, what)   == \E j \in 1..Len(q) : q[j].is = what
Once(q, what) == \A j, l \in 1..Len(q) : q[j].is = what /\ q[l].is = what => j = l

DataEvents == {"adv data", "rsp data", "ADV_DATA_SET", "SCAN_RSP_DATA_SET"}
Watched == DataEvents \cup {"REG", "DISCONNECT"}

(* the data are not all given and answered yet *)
Starting == In(queue, "REG") \/ adv_config_done # {}

(* The queue holds an event that matters once, and what it says of the     *)
(* flags and of the stack.                                                 *)
Queued ==
    /\ queue \in Seq(Item)
    /\ \A what \in Watched : Once(queue, what)
    /\ In(queue, "REG") =>
        adv_config_done = {} /\ \A what \in DataEvents : ~In(queue, what)
    /\ In(queue, "adv data") => "adv" \in adv_config_done /\ ~In(queue, "ADV_DATA_SET")
    /\ In(queue, "rsp data") => "rsp" \in adv_config_done /\ ~In(queue, "SCAN_RSP_DATA_SET")
    /\ In(queue, "ADV_DATA_SET") => "adv" \in adv_config_done \cap (configured \cup refused)
    /\ In(queue, "SCAN_RSP_DATA_SET") => "rsp" \in adv_config_done \cap (configured \cup refused)

Given ==
    /\ adv_config_done \subseteq {"adv", "rsp"}
    /\ configured \subseteq {"adv", "rsp"} /\ refused \subseteq {"adv", "rsp"}
    /\ ~In(queue, "REG") => {"adv", "rsp"} \subseteq adv_config_done \cup configured \cup refused

(* A device that advertises has no client and none to say goodbye to. *)
Linked ==
    /\ Starting => ~advertising /\ ~link /\ ~In(queue, "DISCONNECT")
    /\ In(queue, "DISCONNECT") => ~advertising /\ ~link
    /\ advertising => ~link

IInv == Queued /\ Given /\ Linked
-----------------------------------------------------------------------------
(* What is in a queue after a removal and after a post. *)
LEMMA Removed ==
    ASSUME NEW q \in Seq(Item), q # <<>>
    PROVE  /\ Tail(q) \in Seq(Item)
           /\ \A what : In(q, what) <=> (Head(q).is = what \/ In(Tail(q), what))
           /\ \A what : Once(q, what) =>
                /\ Once(Tail(q), what)
                /\ Head(q).is = what => ~In(Tail(q), what)
<1>1. Len(q) \in Nat /\ Len(q) > 0 /\ Head(q) = q[1]
  OBVIOUS
<1>2. Tail(q) \in Seq(Item) /\ Len(Tail(q)) = Len(q) - 1
  BY <1>1
<1>3. \A l \in 1..Len(Tail(q)) : Tail(q)[l] = q[l + 1]
  BY <1>1
<1>4. \A what : In(Tail(q), what) => In(q, what)
  BY <1>1, <1>2, <1>3 DEF In
<1>5. \A what : Head(q).is = what => In(q, what)
  BY <1>1 DEF In
<1>6. ASSUME NEW what, In(q, what), Head(q).is # what PROVE In(Tail(q), what)
  <2>1. PICK j \in 1..Len(q) : q[j].is = what
    BY <1>6 DEF In
  <2>2. j # 1
    BY <2>1, <1>1, <1>6
  <2>3. j - 1 \in 1..Len(Tail(q)) /\ Tail(q)[j - 1] = q[j]
    BY <2>1, <2>2, <1>1, <1>2, <1>3
  <2> QED
    BY <2>1, <2>3 DEF In
<1>7. ASSUME NEW what, Once(q, what) PROVE Once(Tail(q), what)
  BY <1>1, <1>2, <1>3, <1>7 DEF Once
<1>8. ASSUME NEW what, Once(q, what), Head(q).is = what PROVE ~In(Tail(q), what)
  <2> SUFFICES ASSUME NEW l \in 1..Len(Tail(q)), Tail(q)[l].is = what PROVE FALSE
    BY DEF In
  <2>1. l + 1 \in 1..Len(q) /\ 1 \in 1..Len(q) /\ l + 1 # 1
    BY <1>1, <1>2
  <2> QED
    BY <2>1, <1>1, <1>3, <1>8 DEF Once
<1> QED
  BY <1>2, <1>4, <1>5, <1>6, <1>7, <1>8

(* An event posted is behind all others, and in the queue with them. *)
LEMMA Posted ==
    ASSUME NEW q \in Seq(Item), NEW e \in Item
    PROVE  /\ Append(q, e) \in Seq(Item)
           /\ \A what : In(Append(q, e), what) <=> (In(q, what) \/ e.is = what)
           /\ \A what : Once(q, what) /\ (In(q, what) => e.is # what) =>
                Once(Append(q, e), what)
<1>1. /\ Append(q, e) \in Seq(Item) /\ Len(q) \in Nat
      /\ Len(Append(q, e)) = Len(q) + 1 /\ Append(q, e)[Len(q) + 1] = e
  OBVIOUS
<1>2. \A l \in 1..Len(q) : Append(q, e)[l] = q[l]
  OBVIOUS
<1>3. \A what : In(q, what) => In(Append(q, e), what)
  BY <1>1, <1>2 DEF In
<1>4. \A what : e.is = what => In(Append(q, e), what)
  BY <1>1 DEF In
<1>5. \A what : In(Append(q, e), what) => In(q, what) \/ e.is = what
  BY <1>1, <1>2 DEF In
<1>6. ASSUME NEW what, Once(q, what), In(q, what) => e.is # what
      PROVE  Once(Append(q, e), what)
  <2> SUFFICES ASSUME NEW j \in 1..(Len(q) + 1), NEW l \in 1..(Len(q) + 1),
                      Append(q, e)[j].is = what, Append(q, e)[l].is = what
               PROVE  j = l
    BY <1>1 DEF Once
  <2>1. CASE j = Len(q) + 1
    BY <1>1, <1>2, <1>6, <2>1 DEF In
  <2>2. CASE l = Len(q) + 1
    BY <1>1, <1>2, <1>6, <2>2 DEF In
  <2>3. CASE j # Len(q) + 1 /\ l # Len(q) + 1
    BY <1>1, <1>2, <1>6, <2>3 DEF Once
  <2> QED
    BY <2>1, <2>2, <2>3
<1> QED
  BY <1>1, <1>3, <1>4, <1>5, <1>6

(* Events posted at once are events posted one after the other. *)
LEMMA PostedTogether ==
    ASSUME NEW q \in Seq(Item), NEW e \in Item, NEW f \in Item, NEW g \in Item
    PROVE  /\ q \o <<e>> = Append(q, e)
           /\ q \o <<e, f, g>> = Append(Append(Append(q, e), f), g)
<1>1. q \o <<e>> = Append(q, e)
  OBVIOUS
<1>2. q \o <<e, f, g>> = Append(Append(Append(q, e), f), g)
  OBVIOUS
<1> QED
  BY <1>1, <1>2

(* An event that does not matter to advertising comes or goes. *)
LEMMA Unwatched ==
    ASSUME IInv, UNCHANGED <<adv_config_done, configured, refused, advertising, link>>,
           queue' \in Seq(Item),
           \A what \in Watched : Once(queue', what) /\ (In(queue', what) <=> In(queue, what))
    PROVE  IInv'
<1>1. Queued'
  BY DEF IInv, Queued, Watched, DataEvents
<1>2. Given' /\ Linked'
  BY DEF IInv, Given, Linked, Starting, Watched
<1> QED
  BY <1>1, <1>2 DEF IInv

(* An event that does not matter to advertising is handled. *)
LEMMA HandledUnwatched ==
    ASSUME IInv, queue # <<>>, Head(queue).is \notin Watched, queue' = Tail(queue),
           UNCHANGED <<adv_config_done, configured, refused, advertising, link>>
    PROVE  IInv'
  BY Removed, Unwatched DEF IInv, Queued

(* An event that does not matter to advertising is posted. *)
LEMMA PostedUnwatched ==
    ASSUME IInv, NEW e \in Item, e.is \notin Watched, queue' = Append(queue, e),
           UNCHANGED <<adv_config_done, configured, refused, advertising, link>>
    PROVE  IInv'
  BY Posted, Unwatched DEF IInv, Queued
-----------------------------------------------------------------------------
(* An event without a piece, as the queue holds it. *)
LEMMA EventIsItem ==
    ASSUME NEW what \in EventNames
    PROVE  Event(what) \in Item /\ Event(what).is = what
  BY DEF Event, Item

(* The state of a server that has just started. *)
Begun ==
    /\ queue = <<Event("REG")>>
    /\ built = {} /\ adv_config_done = {}
    /\ configured = {} /\ refused = {} /\ advertising = FALSE /\ link = FALSE
    /\ wants = "none"
    /\ prepare_buf = FALSE /\ bytes = Blank /\ prepare_len = 0
    /\ told = <<>> /\ ordered = TRUE /\ astray = {}

(* It is the first one, and the one after every restart. *)
LEMMA Begins == (Init => Begun) /\ (Restart => Begun')
  BY DEF Init, Restart, Drop, Begun, Blank, Event

(* The invariant holds when the server starts. *)
LEMMA BegunIInv == Begun => IInv
<1> SUFFICES ASSUME Begun PROVE IInv
  OBVIOUS
<1>1. queue = <<Event("REG")>> /\ Event("REG") \in Item /\ Event("REG").is = "REG"
  BY EventIsItem DEF Begun, EventNames
<1>2. Len(queue) = 1 /\ queue[1].is = "REG" /\ queue \in Seq(Item)
  BY <1>1
<1>3. /\ \A what : In(queue, what) <=> what = "REG"
      /\ \A what : Once(queue, what)
  BY <1>2 DEF In, Once
<1>4. Queued
  BY <1>2, <1>3 DEF Queued, DataEvents, Begun
<1> QED
  BY <1>3, <1>4 DEF IInv, Given, Linked, Starting, Begun

(* The service is built: the events of it do not matter to advertising. *)
LEMMA BuildStep == IInv /\ (OnCreate \/ OnAddChar \/ OnAddCharDescr) => IInv'
<1> SUFFICES ASSUME IInv, OnCreate \/ OnAddChar \/ OnAddCharDescr PROVE IInv'
  OBVIOUS
<1> USE DEF radio, profile
<1>0. queue \in Seq(Item) /\ queue # <<>> /\ Head(queue).is \notin Watched
  BY DEF IInv, Queued, OnCreate, OnAddChar, OnAddCharDescr, Handles, Watched, DataEvents
<1>1. /\ Tail(queue) \in Seq(Item)
      /\ \A what \in Watched : Once(Tail(queue), what) /\ (In(Tail(queue), what) <=> In(queue, what))
  BY <1>0, Removed DEF IInv, Queued
<1>2. UNCHANGED <<adv_config_done, configured, refused, advertising, link>>
  BY DEF OnCreate, OnAddChar, OnAddCharDescr
<1>3. CASE OnCreate
  <2> DEFINE q == Append(Tail(queue), Event("START"))
  <2>1. queue' = Append(q, Event("ADD_CHAR"))
    BY <1>1, <1>3 DEF OnCreate, ThenPost
  <2>2. /\ Event("START") \in Item /\ Event("START").is \notin Watched
        /\ Event("ADD_CHAR") \in Item /\ Event("ADD_CHAR").is \notin Watched
    BY EventIsItem DEF EventNames, Watched, DataEvents
  <2>3. /\ q \in Seq(Item)
        /\ \A what \in Watched : Once(q, what) /\ (In(q, what) <=> In(queue, what))
    BY <1>1, <2>2, Posted
  <2>4. /\ queue' \in Seq(Item)
        /\ \A what \in Watched : Once(queue', what) /\ (In(queue', what) <=> In(queue, what))
    BY <2>1, <2>2, <2>3, Posted
  <2> QED
    BY <1>2, <2>4, Unwatched
<1>4. CASE OnAddChar
  <2>1. queue' = Append(Tail(queue), Event("ADD_CHAR_DESCR"))
    BY <1>1, <1>4 DEF OnAddChar, ThenPost
  <2>2. Event("ADD_CHAR_DESCR") \in Item /\ Event("ADD_CHAR_DESCR").is \notin Watched
    BY EventIsItem DEF EventNames, Watched, DataEvents
  <2>3. /\ queue' \in Seq(Item)
        /\ \A what \in Watched : Once(queue', what) /\ (In(queue', what) <=> In(queue, what))
    BY <1>1, <2>1, <2>2, Posted
  <2> QED
    BY <1>2, <2>3, Unwatched
<1>5. CASE OnAddCharDescr
  BY <1>0, <1>2, <1>5, HandledUnwatched DEF OnAddCharDescr, Done
<1> QED
  BY <1>3, <1>4, <1>5

(* REG: both data are given to the stack. *)
LEMMA RegStep == IInv /\ OnReg => IInv'
<1> SUFFICES ASSUME IInv, OnReg PROVE IInv'
  OBVIOUS
<1> USE DEF radio
<1>0. queue \in Seq(Item) /\ queue # <<>> /\ Head(queue).is = "REG"
  BY DEF IInv, Queued, OnReg, Handles
<1>1. /\ Tail(queue) \in Seq(Item) /\ In(queue, "REG")
      /\ \A what \in Watched : Once(Tail(queue), what) /\ ~In(Tail(queue), what)
  <2>1. In(queue, "REG") /\ Tail(queue) \in Seq(Item)
    BY <1>0, Removed
  <2>2. \A what \in DataEvents \cup {"DISCONNECT"} : ~In(queue, what)
    BY <2>1 DEF IInv, Queued, Linked, Starting
  <2> QED
    BY <1>0, <2>1, <2>2, Removed DEF IInv, Queued, Watched
<1> DEFINE q1 == Append(Tail(queue), Event("adv data"))
           q2 == Append(q1, Event("rsp data"))
<1>2. \A what \in {"adv data", "rsp data", "CREATE"} :
        Event(what) \in Item /\ Event(what).is = what
  BY EventIsItem DEF EventNames
<1>3. queue' = Append(q2, Event("CREATE"))
  <2>1. queue' = Tail(queue) \o <<Event("adv data"), Event("rsp data"), Event("CREATE")>>
    BY DEF OnReg, ThenPost
  <2>2. Event("adv data") \in Item /\ Event("rsp data") \in Item /\ Event("CREATE") \in Item
    BY <1>2
  <2>3. Tail(queue) \in Seq(Item)
    BY <1>1
  <2> HIDE DEF q1, q2
  <2>4. queue' = Append(Append(Append(Tail(queue), Event("adv data")), Event("rsp data")),
                        Event("CREATE"))
    BY <2>1, <2>2, <2>3, PostedTogether, ZenonT(60)
  <2> QED
    BY <2>4 DEF q1, q2
<1>4. /\ q1 \in Seq(Item)
      /\ \A what \in Watched : Once(q1, what) /\ (In(q1, what) <=> what = "adv data")
  BY <1>1, <1>2, Posted
<1>5. /\ q2 \in Seq(Item)
      /\ \A what \in Watched :
            Once(q2, what) /\ (In(q2, what) <=> what \in {"adv data", "rsp data"})
  BY <1>2, <1>4, Posted
<1>6. /\ queue' \in Seq(Item)
      /\ \A what \in Watched :
            Once(queue', what) /\ (In(queue', what) <=> what \in {"adv data", "rsp data"})
  <2>1. Event("CREATE").is \notin Watched
    BY <1>2 DEF Watched, DataEvents
  <2> QED
    BY <1>2, <1>3, <1>5, <2>1, Posted
<1>7. adv_config_done' = {"adv", "rsp"} /\ UNCHANGED <<configured, refused, advertising, link>>
  BY DEF OnReg
<1>8. Queued'
  <2>1. \A what \in {"REG", "ADV_DATA_SET", "SCAN_RSP_DATA_SET", "DISCONNECT"} : ~In(queue', what)
    BY <1>6 DEF Watched, DataEvents
  <2> QED
    BY <1>6, <1>7, <2>1 DEF Queued
<1>9. Given'
  BY <1>7 DEF IInv, Given
<1>10. Linked'
  <2>1. ~advertising /\ ~link
    BY <1>1 DEF IInv, Linked, Starting
  <2>2. ~In(queue', "DISCONNECT")
    <3>1. "DISCONNECT" \in Watched /\ "DISCONNECT" \notin {"adv data", "rsp data"}
      BY DEF Watched
    <3> QED
      BY <1>6, <3>1
  <2> QED
    BY <1>7, <2>1, <2>2 DEF Linked
<1> QED
  BY <1>8, <1>9, <1>10 DEF IInv

(* The stack has carried out one of the two. *)
LEMMA ConfigureStep ==
    ASSUME IInv, StackConfigures PROVE IInv'
<1> USE DEF profile
<1> DEFINE Step(data, set, flag) ==
        /\ queue # <<>> /\ Head(queue).is = data
        /\ \/ configured' = configured \cup {flag} /\ refused' = refused
           \/ refused' = refused \cup {flag} /\ configured' = configured
        /\ queue' = Append(Tail(queue), Event(set))
<1>1. UNCHANGED <<adv_config_done, advertising, link>>
  BY DEF StackConfigures
<1>2. queue \in Seq(Item)
  BY DEF IInv, Queued
<1>3. Step("adv data", "ADV_DATA_SET", "adv") \/ Step("rsp data", "SCAN_RSP_DATA_SET", "rsp")
  <2>1. queue # <<>> => Tail(queue) \in Seq(Item)
    BY <1>2, Removed
  <2>2. /\ Event("ADV_DATA_SET") \in Item /\ Event("SCAN_RSP_DATA_SET") \in Item
    BY EventIsItem DEF EventNames
  <2> QED
    BY <2>1, <2>2, PostedTogether DEF StackConfigures, Configures, Handles, ThenPost
<1>4. ASSUME NEW data \in {"adv data", "rsp data"},
             NEW set \in {"ADV_DATA_SET", "SCAN_RSP_DATA_SET"}, NEW flag \in {"adv", "rsp"},
             Step(data, set, flag), ~In(queue, set)
      PROVE  /\ queue' \in Seq(Item)
             /\ \A what \in Watched : Once(queue', what)
             /\ In(queue, data)
             /\ \A what \in Watched :
                  In(queue', what) <=> (what = set \/ (what # data /\ In(queue, what)))
  <2>1. Event(set) \in Item /\ Event(set).is = set
    BY EventIsItem DEF EventNames
  <2>2. /\ Tail(queue) \in Seq(Item) /\ In(queue, data)
        /\ \A what \in Watched :
             /\ Once(Tail(queue), what)
             /\ In(Tail(queue), what) <=> (what # data /\ In(queue, what))
    BY <1>2, <1>4, Removed DEF IInv, Queued, Watched, DataEvents
  <2>3. \A what \in Watched : In(Tail(queue), what) => set # what
    BY <1>4, <2>2
  <2> QED
    BY <1>4, <2>1, <2>2, <2>3, Posted DEF Watched, DataEvents
<1>5. CASE Step("adv data", "ADV_DATA_SET", "adv")
  <2>1. In(queue, "adv data")
    BY <1>2, <1>5, Removed
  <2>2. "adv" \in adv_config_done /\ ~In(queue, "ADV_DATA_SET") /\ ~In(queue, "REG")
    BY <2>1 DEF IInv, Queued, DataEvents
  <2>3. /\ queue' \in Seq(Item)
        /\ \A what \in Watched : Once(queue', what)
        /\ \A what \in Watched :
             In(queue', what) <=> (what = "ADV_DATA_SET" \/ (what # "adv data" /\ In(queue, what)))
    BY <1>4, <1>5, <2>2
  <2>4. Queued'
    BY <1>1, <1>5, <2>2, <2>3 DEF IInv, Queued, Watched, DataEvents
  <2>5. Given' /\ Linked'
    BY <1>1, <1>5, <2>2, <2>3 DEF IInv, Given, Linked, Starting, Watched
  <2> QED
    BY <2>4, <2>5 DEF IInv
<1>6. CASE Step("rsp data", "SCAN_RSP_DATA_SET", "rsp")
  <2>1. In(queue, "rsp data")
    BY <1>2, <1>6, Removed
  <2>2. "rsp" \in adv_config_done /\ ~In(queue, "SCAN_RSP_DATA_SET") /\ ~In(queue, "REG")
    BY <2>1 DEF IInv, Queued, DataEvents
  <2>3. /\ queue' \in Seq(Item)
        /\ \A what \in Watched : Once(queue', what)
        /\ \A what \in Watched :
             In(queue', what) <=> (what = "SCAN_RSP_DATA_SET" \/ (what # "rsp data" /\ In(queue, what)))
    BY <1>4, <1>6, <2>2
  <2>4. Queued'
    BY <1>1, <1>6, <2>2, <2>3 DEF IInv, Queued, Watched, DataEvents
  <2>5. Given' /\ Linked'
    BY <1>1, <1>6, <2>2, <2>3 DEF IInv, Given, Linked, Starting, Watched
  <2> QED
    BY <2>4, <2>5 DEF IInv
<1> QED
  BY <1>3, <1>5, <1>6

(* One of the two answers is handled: the last one starts the advertising. *)
LEMMA DataSetStep ==
    ASSUME IInv,
           OnDataSet("adv", "ADV_DATA_SET") \/ OnDataSet("rsp", "SCAN_RSP_DATA_SET")
    PROVE  IInv'
<1>1. queue \in Seq(Item) /\ queue # <<>> /\ queue' = Tail(queue) /\ UNCHANGED <<configured, refused, link>>
  BY DEF IInv, Queued, OnDataSet, Handles, Done
<1>2. /\ queue' \in Seq(Item)
      /\ \A what \in Watched :
           /\ Once(queue', what)
           /\ In(queue, what) <=> (Head(queue).is = what \/ In(queue', what))
           /\ Head(queue).is = what => ~In(queue', what)
  BY <1>1, Removed DEF IInv, Queued
<1>3. adv_config_done # {} /\ ~In(queue, "REG") /\ ~In(queue, "DISCONNECT") /\ ~link
  BY <1>2 DEF IInv, Queued, Linked, Starting, OnDataSet, Handles, Watched, DataEvents
<1>4. ~In(queue', "REG") /\ ~In(queue', "DISCONNECT")
  BY <1>2, <1>3 DEF Watched
<1>5. Queued'
  BY <1>1, <1>2, <1>3 DEF IInv, Queued, OnDataSet, Handles, Watched, DataEvents
<1>6. Given'
  BY <1>1, <1>2, <1>3 DEF IInv, Queued, Given, OnDataSet, Handles, Watched, DataEvents
<1>7. Linked'
  <2>1. ~advertising
    BY <1>3 DEF IInv, Linked, Starting
  <2> QED
    BY <1>1, <1>3, <1>4, <2>1 DEF Linked, Starting, OnDataSet
<1> QED
  BY <1>5, <1>6, <1>7 DEF IInv

(* A client has gone, and its goodbye is handled: nobody else is there. *)
LEMMA DisconnectStep == ASSUME IInv, OnDisconnect PROVE IInv'
<1> USE DEF profile
<1>1. queue \in Seq(Item) /\ queue # <<>> /\ queue' = Tail(queue)
        /\ Head(queue).is = "DISCONNECT"
        /\ advertising' = TRUE /\ UNCHANGED <<adv_config_done, configured, refused, link>>
  BY DEF IInv, Queued, OnDisconnect, Handles, Done
<1>2. /\ queue' \in Seq(Item)
      /\ \A what \in Watched :
           /\ Once(queue', what)
           /\ In(queue, what) <=> (what = "DISCONNECT" \/ In(queue', what))
      /\ ~In(queue', "DISCONNECT")
  BY <1>1, Removed DEF IInv, Queued, Watched
<1>3. In(queue, "DISCONNECT") /\ ~link /\ ~Starting
  BY <1>2 DEF IInv, Linked, Watched
<1>4. Queued'
  BY <1>1, <1>2 DEF IInv, Queued, Watched, DataEvents
<1>5. Given' /\ Linked'
  BY <1>1, <1>2, <1>3 DEF IInv, Given, Linked, Starting, Watched
<1> QED
  BY <1>4, <1>5 DEF IInv

(* The client goes, which is posted. *)
LEMMA GoesStep == ASSUME IInv, ClientGoes PROVE IInv'
<1> USE DEF profile
<1>1. queue \in Seq(Item) /\ queue' = Append(queue, Event("DISCONNECT"))
        /\ link /\ link' = FALSE /\ UNCHANGED <<adv_config_done, configured, refused, advertising>>
  BY DEF IInv, Queued, ClientGoes
<1>2. Event("DISCONNECT") \in Item /\ Event("DISCONNECT").is = "DISCONNECT"
  BY EventIsItem DEF EventNames
<1>3. ~In(queue, "DISCONNECT") /\ ~advertising /\ ~Starting
  BY <1>1 DEF IInv, Linked
<1>4. /\ queue' \in Seq(Item)
      /\ \A what \in Watched :
           Once(queue', what) /\ (In(queue', what) <=> (what = "DISCONNECT" \/ In(queue, what)))
  BY <1>1, <1>2, <1>3, Posted, ZenonT(30) DEF IInv, Queued
<1>5. Queued'
  BY <1>1, <1>4 DEF IInv, Queued, Watched, DataEvents
<1>6. Given' /\ Linked'
  BY <1>1, <1>3, <1>4 DEF IInv, Given, Linked, Starting, Watched
<1> QED
  BY <1>5, <1>6 DEF IInv

(* A client connects, which ends the advertising. *)
LEMMA ConnectStep == ASSUME IInv, ClientConnects PROVE IInv'
<1> USE DEF profile
<1>1. queue \in Seq(Item) /\ queue' = Append(queue, Event("CONNECT"))
        /\ advertising /\ advertising' = FALSE /\ link' = TRUE
        /\ UNCHANGED <<adv_config_done, configured, refused>>
  BY DEF IInv, Queued, ClientConnects
<1>2. Event("CONNECT") \in Item /\ Event("CONNECT").is \notin Watched
  BY EventIsItem DEF EventNames, Watched, DataEvents
<1>3. ~In(queue, "DISCONNECT") /\ ~Starting
  BY <1>1 DEF IInv, Linked
<1>4. /\ queue' \in Seq(Item)
      /\ \A what \in Watched : Once(queue', what) /\ (In(queue', what) <=> In(queue, what))
  BY <1>1, <1>2, Posted DEF IInv, Queued
<1>5. Queued'
  BY <1>1, <1>4 DEF IInv, Queued, Watched, DataEvents
<1>6. Given' /\ Linked'
  BY <1>1, <1>3, <1>4 DEF IInv, Given, Linked, Starting, Watched
<1> QED
  BY <1>5, <1>6 DEF IInv

(* The requests of a client do not matter to advertising. *)
LEMMA AskStep ==
    ASSUME IInv, NEW e \in Item, e.is \notin Watched, NEW waits, Asks(e, waits)
    PROVE  IInv'
  BY PostedUnwatched DEF Asks, profile, radio
-----------------------------------------------------------------------------
(* The invariant holds in every reachable state. *)
LEMMA Invariance == Spec => []IInv
<1>1. ASSUME IInv, [Next]_vars PROVE IInv'
  <2> USE DEF profile, radio
  <2>1. CASE OnReg
    BY <1>1, <2>1, RegStep
  <2>2. CASE OnCreate \/ OnAddChar \/ OnAddCharDescr
    BY <1>1, <2>2, BuildStep
  <2>3. CASE OnOther \/ OnConnect \/ OnWrite \/ OnPrepareWrite \/ OnExecWrite
    <3>1. queue # <<>> /\ Head(queue).is \notin Watched /\ queue' = Tail(queue)
      BY <2>3 DEF OnOther, OnConnect, OnWrite, OnPrepareWrite, OnExecWrite, Handles,
         Done, Watched, DataEvents
    <3>2. UNCHANGED <<adv_config_done, configured, refused, advertising, link>>
      BY <2>3 DEF OnOther, OnConnect, OnWrite, OnPrepareWrite, OnExecWrite
    <3> QED
      BY <1>1, <3>1, <3>2, HandledUnwatched
  <2>4. CASE OnDisconnect
    BY <1>1, <2>4, DisconnectStep
  <2>5. CASE OnDataSet("adv", "ADV_DATA_SET") \/ OnDataSet("rsp", "SCAN_RSP_DATA_SET")
    BY <1>1, <2>5, DataSetStep
  <2>6. CASE StackConfigures
    BY <1>1, <2>6, ConfigureStep
  <2>7. CASE ClientConnects
    BY <1>1, <2>7, ConnectStep
  <2>8. CASE ClientGoes
    BY <1>1, <2>8, GoesStep
  <2>9. CASE ClientWrites \/ ClientReads
    <3>1. \A what \in {"WRITE", "WRITE_NO_RSP", "EXEC_WRITE", "READ"} :
            Event(what) \in Item /\ Event(what).is \notin Watched
      BY EventIsItem DEF EventNames, Watched, DataEvents
    <3>2. \A o \in Offsets, p \in Pieces :
            /\ [is |-> "PREPARE", offset |-> o, value |-> p] \in Item
            /\ [is |-> "PREPARE", offset |-> o, value |-> p].is \notin Watched
      BY DEF Item, EventNames, Watched, DataEvents
    <3>3. \E e \in Item, waits \in {"none", "write", "read"} :
            e.is \notin Watched /\ Asks(e, waits)
      BY <2>9, <3>1, <3>2 DEF ClientWrites, ClientReads
    <3> QED
      BY <1>1, <3>3, AskStep
  <2>10. CASE UNCHANGED vars
    BY <1>1, <2>10 DEF vars, IInv, Queued, Given, Linked, Starting
  <2>11. CASE Restart
    <3>1. Begun'
      BY <2>11, Begins
    <3>2. Begun' => IInv'
      BY BegunIInv, PTL
    <3> QED
      BY <3>1, <3>2
  <2> QED
    BY <1>1, <2>1, <2>2, <2>3, <2>4, <2>5, <2>6, <2>7, <2>8, <2>9, <2>10, <2>11
    DEF Next, Handler
<1>2. Init => IInv
  BY Begins, BegunIInv
<1> QED
  BY <1>1, <1>2, PTL DEF Spec

(* gap_event_handler() of bluetooth.cpp starts to advertise behind the     *)
(* last of two answers, in either order, and the handler of a              *)
(* disconnection never does so beside a client, however late it runs.      *)
THEOREM AdvertisingSafe == Spec => []AdvertisedWhole
<1>1. IInv => AdvertisedWhole
  BY DEF IInv, Given, Linked, Starting, AdvertisedWhole
<1> QED
  BY <1>1, Invariance, PTL
-----------------------------------------------------------------------------
(* What a client asks the server for and waits to be answered.             *)
Requests == {"WRITE", "PREPARE", "EXEC_WRITE"}

Asked(q)      == \E j \in 1..Len(q) : q[j].is \in Requests
OneAsked(q)   == \A j, l \in 1..Len(q) : q[j].is \in Requests /\ q[l].is \in Requests => j = l
AskedFirst(q) == \A j, l \in 1..Len(q) :
                    q[j].is \in Requests /\ q[l].is = "DISCONNECT" => j < l

(* A request is in the queue once: its client waits for the answer, or has *)
(* gone, with the goodbye behind the request.  So a piece is asked for only *)
(* when there is room for it, and there still is when it is handled.       *)
Asking ==
    /\ OneAsked(queue) /\ AskedFirst(queue)
    /\ Asked(queue) => IF link THEN wants = "write" ELSE In(queue, "DISCONNECT")
    /\ In(queue, "PREPARE") => Len(told) < MaxPrepared
    /\ wants \in {"none", "write", "read"}
    /\ built \subseteq {"if", "service", "char", "descr"}
    /\ advertising \in BOOLEAN /\ link \in BOOLEAN

(* The buffer, and what is known of what was put there. *)
Prepared ==
    /\ told \in Seq(Values) /\ Len(told) <= MaxPrepared + Capacity
    /\ prepare_buf \in BOOLEAN /\ ordered \in BOOLEAN
    /\ bytes \in [1..Capacity -> Values \cup {Unset}]
    /\ astray \subseteq {"first", "later"}
    /\ PreparedAsAnswered
-----------------------------------------------------------------------------
(* A handled event leaves the requests and the goodbyes in their order. *)
LEMMA RemovedAsked ==
    ASSUME NEW q \in Seq(Item), q # <<>>, OneAsked(q), AskedFirst(q)
    PROVE  /\ OneAsked(Tail(q)) /\ AskedFirst(Tail(q))
           /\ Asked(Tail(q)) => Asked(q)
           /\ Head(q).is \in Requests \cup {"DISCONNECT"} => ~Asked(Tail(q))
<1>1. Len(q) \in Nat /\ Len(q) > 0 /\ Head(q) = q[1]
  OBVIOUS
<1>2. Tail(q) \in Seq(Item) /\ Len(Tail(q)) = Len(q) - 1
  BY <1>1
<1>3. \A l \in 1..Len(Tail(q)) : l + 1 \in 1..Len(q) /\ Tail(q)[l] = q[l + 1]
  BY <1>1, <1>2
<1>4. OneAsked(Tail(q))
  BY <1>1, <1>2, <1>3 DEF OneAsked
<1>5. AskedFirst(Tail(q))
  <2> SUFFICES ASSUME NEW j \in 1..Len(Tail(q)), NEW l \in 1..Len(Tail(q)),
                      Tail(q)[j].is \in Requests, Tail(q)[l].is = "DISCONNECT"
               PROVE  j < l
    BY DEF AskedFirst
  <2>1. j + 1 < l + 1
    BY <1>3 DEF AskedFirst
  <2> QED
    BY <2>1, <1>2
<1>6. Asked(Tail(q)) => Asked(q)
  BY <1>3 DEF Asked
<1>7. Head(q).is \in Requests \cup {"DISCONNECT"} => ~Asked(Tail(q))
  <2> SUFFICES ASSUME Head(q).is \in Requests \cup {"DISCONNECT"},
                      NEW l \in 1..Len(Tail(q)), Tail(q)[l].is \in Requests
               PROVE  FALSE
    BY DEF Asked
  <2>1. l + 1 \in 1..Len(q) /\ q[l + 1].is \in Requests /\ l + 1 > 1 /\ 1 \in 1..Len(q)
    BY <1>1, <1>2, <1>3
  <2> QED
    BY <2>1, <1>1 DEF OneAsked, AskedFirst
<1> QED
  BY <1>4, <1>5, <1>6, <1>7

(* A request is posted where none is and nobody has said goodbye. *)
LEMMA PostedAsked ==
    ASSUME NEW q \in Seq(Item), OneAsked(q), AskedFirst(q), NEW e \in Item,
           e.is \in Requests => ~Asked(q) /\ ~In(q, "DISCONNECT")
    PROVE  /\ OneAsked(Append(q, e)) /\ AskedFirst(Append(q, e))
           /\ Asked(Append(q, e)) => Asked(q) \/ e.is \in Requests
<1> DEFINE p == Append(q, e)
           n == Len(q)
<1>1. /\ n \in Nat /\ Len(p) = n + 1 /\ p[n + 1] = e
      /\ \A l \in 1..n : p[l] = q[l]
  OBVIOUS
<1> HIDE DEF p, n
<1>2. \A l \in 1..(n + 1) : l = n + 1 \/ l \in 1..n
  BY <1>1
<1>3. Asked(p) => Asked(q) \/ e.is \in Requests
  BY <1>1, <1>2 DEF Asked, n
<1>4. e.is \in Requests => \A l \in 1..n : q[l].is \notin Requests /\ q[l].is # "DISCONNECT"
  BY DEF Asked, In, n
<1>5. OneAsked(p)
  BY <1>1, <1>2, <1>4 DEF OneAsked, n
<1>6. AskedFirst(p)
  <2> SUFFICES ASSUME NEW j \in 1..(n + 1), NEW l \in 1..(n + 1),
                      p[j].is \in Requests, p[l].is = "DISCONNECT"
               PROVE  j < l
    BY <1>1 DEF AskedFirst
  <2>1. CASE l = n + 1
    <3>1. j # n + 1
      BY <1>1, <2>1 DEF Requests
    <3> QED
      BY <1>1, <1>2, <2>1, <3>1
  <2>2. CASE j = n + 1 /\ l # n + 1
    BY <1>1, <1>2, <1>4, <2>2
  <2>3. CASE j \in 1..n /\ l \in 1..n
    BY <1>1, <2>3 DEF AskedFirst, n
  <2> QED
    BY <1>2, <2>1, <2>2, <2>3
<1> QED
  BY <1>3, <1>5, <1>6 DEF p

(* No request is lost or made by what does not touch the queue or the pieces. *)
LEMMA AskingKept ==
    ASSUME IInv, Asking, queue # <<>>, Head(queue).is # "DISCONNECT",
           queue' = Tail(queue), told' = told \/ Head(queue).is \in Requests,
           wants' = wants \/ (wants' = "none" /\ Head(queue).is \in Requests),
           link' = link, advertising' \in BOOLEAN,
           built' \subseteq {"if", "service", "char", "descr"}
    PROVE  Asking'
<1>1. queue \in Seq(Item)
  BY DEF IInv, Queued
<1>2. /\ OneAsked(queue') /\ AskedFirst(queue')
      /\ Asked(queue') => Asked(queue)
      /\ Head(queue).is \in Requests => ~Asked(queue')
  BY <1>1, RemovedAsked DEF Asking
<1>3. \A what : In(queue, what) /\ Head(queue).is # what => In(queue', what)
  BY <1>1, Removed
<1>4. In(queue', "PREPARE") => In(queue, "PREPARE") /\ Asked(queue')
  BY <1>1, Removed DEF In, Asked, Requests
<1>5. In(queue', "PREPARE") => Len(told') < MaxPrepared
  BY <1>2, <1>4 DEF Asking
<1>6. Asked(queue') => IF link' THEN wants' = "write" ELSE In(queue', "DISCONNECT")
  BY <1>2, <1>3 DEF Asking
<1> QED
  BY <1>2, <1>5, <1>6 DEF Asking

(* An event that is no request is posted behind a handled one. *)
LEMMA PostedNoRequest ==
    ASSUME NEW q \in Seq(Item), OneAsked(q), AskedFirst(q), NEW e \in Item,
           e.is \notin Requests
    PROVE  /\ Append(q, e) \in Seq(Item)
           /\ OneAsked(Append(q, e)) /\ AskedFirst(Append(q, e))
           /\ Asked(Append(q, e)) => Asked(q)
           /\ \A what : In(q, what) => In(Append(q, e), what)
           /\ In(Append(q, e), "PREPARE") => In(q, "PREPARE")
<1>1. e.is # "PREPARE"
  BY DEF Requests
<1> QED
  BY <1>1, PostedAsked, Posted

(* The same when the queue gets what is no request. *)
LEMMA AskingUntouched ==
    ASSUME Asking, UNCHANGED <<told, wants, link>>,
           advertising' \in BOOLEAN, built' \subseteq {"if", "service", "char", "descr"},
           OneAsked(queue'), AskedFirst(queue'), Asked(queue') => Asked(queue),
           In(queue, "DISCONNECT") => In(queue', "DISCONNECT"),
           In(queue', "PREPARE") => In(queue, "PREPARE")
    PROVE  Asking'
  BY DEF Asking

(* What the handled event leaves, unless it is a goodbye. *)
LEMMA TailAsked ==
    ASSUME IInv, Asking, queue # <<>>, Head(queue).is # "DISCONNECT"
    PROVE  /\ Tail(queue) \in Seq(Item)
           /\ OneAsked(Tail(queue)) /\ AskedFirst(Tail(queue))
           /\ Asked(Tail(queue)) => Asked(queue)
           /\ In(queue, "DISCONNECT") => In(Tail(queue), "DISCONNECT")
           /\ In(Tail(queue), "PREPARE") => In(queue, "PREPARE")
<1>1. queue \in Seq(Item)
  BY DEF IInv, Queued
<1> QED
  BY <1>1, Removed, RemovedAsked DEF Asking

(* The events of the service and of the stack. *)
LEMMA BuildAsking ==
    IInv /\ Asking /\ (OnReg \/ OnCreate \/ OnAddChar \/ OnAddCharDescr \/ StackConfigures)
    => Asking'
<1> SUFFICES ASSUME IInv, Asking,
                    OnReg \/ OnCreate \/ OnAddChar \/ OnAddCharDescr \/ StackConfigures
             PROVE  Asking'
  OBVIOUS
<1> DEFINE t == Tail(queue)
<1>1. /\ queue # <<>> /\ Head(queue).is # "DISCONNECT"
      /\ UNCHANGED <<told, wants, link>> /\ advertising' \in BOOLEAN
      /\ built' \subseteq {"if", "service", "char", "descr"}
  BY DEF Asking, OnReg, OnCreate, OnAddChar, OnAddCharDescr, StackConfigures, Handles,
     radio, env, profile
<1>2. /\ t \in Seq(Item) /\ OneAsked(t) /\ AskedFirst(t)
      /\ Asked(t) => Asked(queue)
      /\ In(queue, "DISCONNECT") => In(t, "DISCONNECT")
      /\ In(t, "PREPARE") => In(queue, "PREPARE")
  BY <1>1, TailAsked
<1>3. \A what \in EventNames \ Requests :
        Event(what) \in Item /\ Event(what).is \notin Requests
  BY EventIsItem
<1>4. {"adv data", "rsp data", "CREATE", "START", "ADD_CHAR", "ADD_CHAR_DESCR",
       "ADV_DATA_SET", "SCAN_RSP_DATA_SET"} \subseteq EventNames \ Requests
  BY DEF EventNames, Requests
<1>5. \/ queue' = t
      \/ \E e \in EventNames \ Requests : queue' = Append(t, Event(e))
      \/ \E e, f \in EventNames \ Requests : queue' = Append(Append(t, Event(e)), Event(f))
      \/ \E e, f, g \in EventNames \ Requests :
            queue' = Append(Append(Append(t, Event(e)), Event(f)), Event(g))
  <2>1. CASE OnReg
    <3>1. queue' = t \o <<Event("adv data"), Event("rsp data"), Event("CREATE")>>
      BY <2>1 DEF OnReg, ThenPost
    <3>2. queue' = Append(Append(Append(t, Event("adv data")), Event("rsp data")), Event("CREATE"))
      <4>1. Event("adv data") \in Item /\ Event("rsp data") \in Item /\ Event("CREATE") \in Item
        BY <1>3, <1>4
      <4>2. t \in Seq(Item)
        BY <1>2
      <4> HIDE DEF t
      <4> QED
        BY <3>1, <4>1, <4>2, PostedTogether, ZenonT(30)
    <3> QED
      BY <1>4, <3>2
  <2>2. CASE OnCreate
    <3>1. queue' = Append(Append(t, Event("START")), Event("ADD_CHAR"))
      BY <1>2, <2>2 DEF OnCreate, ThenPost
    <3> QED
      BY <1>4, <3>1
  <2>3. CASE OnAddChar
    <3>1. queue' = Append(t, Event("ADD_CHAR_DESCR"))
      BY <1>2, <2>3 DEF OnAddChar, ThenPost
    <3> QED
      BY <1>4, <3>1
  <2>4. CASE OnAddCharDescr
    BY <2>4 DEF OnAddCharDescr, Done
  <2>5. CASE StackConfigures
    <3>1. \/ queue' = t \o <<Event("ADV_DATA_SET")>>
          \/ queue' = t \o <<Event("SCAN_RSP_DATA_SET")>>
      BY <2>5 DEF StackConfigures, Configures, ThenPost
    <3>2. /\ t \in Seq(Item)
          /\ Event("ADV_DATA_SET") \in Item /\ Event("SCAN_RSP_DATA_SET") \in Item
      BY <1>2, <1>3, <1>4
    <3>3. queue' = Append(t, Event("ADV_DATA_SET")) \/ queue' = Append(t, Event("SCAN_RSP_DATA_SET"))
      <4> HIDE DEF t
      <4> QED
        BY <3>1, <3>2, PostedTogether
    <3> QED
      BY <1>4, <3>3
  <2> QED
    BY <2>1, <2>2, <2>3, <2>4, <2>5
<1> DEFINE Fit(q) ==
        /\ q \in Seq(Item) /\ OneAsked(q) /\ AskedFirst(q)
        /\ Asked(q) => Asked(queue)
        /\ In(queue, "DISCONNECT") => In(q, "DISCONNECT")
        /\ In(q, "PREPARE") => In(queue, "PREPARE")
<1>6. ASSUME NEW q, Fit(q), NEW e \in EventNames \ Requests
      PROVE  Fit(Append(q, Event(e)))
  <2>1. Event(e) \in Item /\ Event(e).is \notin Requests
    BY <1>3
  <2> QED
    BY <1>6, <2>1, PostedNoRequest
<1>7. Fit(t)
  BY <1>2
<1> HIDE DEF Fit, t
<1>8. Fit(queue')
  BY <1>5, <1>6, <1>7
<1> QED
  BY <1>1, <1>8, AskingUntouched DEF Fit

(* A write of pieces, or what is only looked at or answered, is handled. *)
LEMMA HandledAsking ==
    IInv /\ Asking /\ (\/ OnOther \/ OnConnect \/ OnWrite \/ OnPrepareWrite \/ OnExecWrite
                       \/ OnDataSet("adv", "ADV_DATA_SET") \/ OnDataSet("rsp", "SCAN_RSP_DATA_SET"))
    => Asking'
<1> SUFFICES ASSUME IInv, Asking,
                    \/ OnOther \/ OnConnect \/ OnWrite \/ OnPrepareWrite \/ OnExecWrite
                    \/ OnDataSet("adv", "ADV_DATA_SET") \/ OnDataSet("rsp", "SCAN_RSP_DATA_SET")
             PROVE  Asking'
  OBVIOUS
<1> USE DEF profile, radio, env
<1>1. /\ queue # <<>> /\ Head(queue).is # "DISCONNECT" /\ queue' = Tail(queue)
      /\ link' = link /\ advertising' \in BOOLEAN
      /\ built' \subseteq {"if", "service", "char", "descr"}
  BY DEF Asking, OnOther, OnConnect, OnWrite, OnPrepareWrite, OnExecWrite, OnDataSet,
     Handles, Done
<1>2. told' = told \/ Head(queue).is \in Requests
  BY DEF OnOther, OnConnect, OnWrite, OnPrepareWrite, OnExecWrite, OnDataSet, Handles, Requests
<1>3. wants' = wants \/ (wants' = "none" /\ Head(queue).is \in Requests)
  BY DEF OnOther, OnConnect, OnWrite, OnPrepareWrite, OnExecWrite, OnDataSet, Handles,
     Requests, Answer
<1> QED
  BY <1>1, <1>2, <1>3, AskingKept

(* The goodbye is handled behind the last request. *)
LEMMA DisconnectAsking == IInv /\ Asking /\ OnDisconnect => Asking'
<1> SUFFICES ASSUME IInv, Asking, OnDisconnect PROVE Asking'
  OBVIOUS
<1>1. /\ queue \in Seq(Item) /\ queue # <<>> /\ Head(queue).is = "DISCONNECT"
      /\ queue' = Tail(queue) /\ advertising' = TRUE
      /\ UNCHANGED <<built, link, wants, told>>
  BY DEF IInv, Queued, OnDisconnect, Handles, Done, profile, env
<1>2. OneAsked(queue') /\ AskedFirst(queue') /\ ~Asked(queue')
  BY <1>1, RemovedAsked DEF Asking
<1>3. In(queue', "PREPARE") => In(queue, "PREPARE")
  BY <1>1, Removed
<1> QED
  BY <1>1, <1>2, <1>3 DEF Asking

(* A client comes, and goes. *)
LEMMA LinkAsking == IInv /\ Asking /\ (ClientConnects \/ ClientGoes) => Asking'
<1> SUFFICES ASSUME IInv, Asking, ClientConnects \/ ClientGoes PROVE Asking'
  OBVIOUS
<1>0. queue \in Seq(Item)
  BY DEF IInv, Queued
<1>1. CASE ClientConnects
  <2>1. /\ queue' = Append(queue, Event("CONNECT")) /\ advertising /\ ~link
        /\ advertising' \in BOOLEAN /\ link' = TRUE /\ UNCHANGED <<built, wants, told>>
    BY <1>1 DEF ClientConnects, profile, env, IInv, Linked
  <2>2. Event("CONNECT") \in Item /\ Event("CONNECT").is \notin Requests
    BY EventIsItem DEF EventNames, Requests
  <2>3. /\ OneAsked(queue') /\ AskedFirst(queue')
        /\ Asked(queue') => Asked(queue)
        /\ In(queue', "PREPARE") => In(queue, "PREPARE")
    BY <1>0, <2>1, <2>2, PostedNoRequest DEF Asking
  <2>4. ~Asked(queue)
    BY <2>1 DEF Asking, IInv, Linked
  <2>5. ~Asked(queue') /\ wants' = wants /\ built' = built /\ link' \in BOOLEAN
    BY <2>1, <2>3, <2>4
  <2>6. In(queue', "PREPARE") => Len(told') < MaxPrepared
    BY <2>1, <2>3 DEF Asking
  <2> QED
    BY <2>1, <2>3, <2>5, <2>6 DEF Asking
<1>2. CASE ClientGoes
  <2>1. /\ queue' = Append(queue, Event("DISCONNECT"))
        /\ link' = FALSE /\ wants' = "none" /\ UNCHANGED <<built, advertising, told>>
    BY <1>2 DEF ClientGoes, profile, env
  <2>2. Event("DISCONNECT") \in Item /\ Event("DISCONNECT").is \notin Requests
    BY EventIsItem DEF EventNames, Requests
  <2>3. /\ OneAsked(queue') /\ AskedFirst(queue')
        /\ In(queue', "PREPARE") => In(queue, "PREPARE")
    BY <1>0, <2>1, <2>2, PostedNoRequest DEF Asking
  <2>4. In(queue', "DISCONNECT")
    <3>1. Event("DISCONNECT") \in Item /\ Event("DISCONNECT").is = "DISCONNECT"
      BY EventIsItem DEF EventNames
    <3> QED
      BY <1>0, <2>1, <3>1, Posted
  <2> QED
    BY <2>1, <2>3, <2>4 DEF Asking
<1> QED
  BY <1>1, <1>2

(* A client asks: nothing it asked before is in the queue, and no goodbye. *)
LEMMA AskAsking ==
    ASSUME IInv, Asking, NEW e \in Item, NEW waits \in {"none", "write", "read"}, Asks(e, waits),
           e.is \in Requests => waits = "write",
           e.is = "PREPARE" => Len(told) < MaxPrepared, e.is # "DISCONNECT"
    PROVE  Asking'
<1>1. /\ queue \in Seq(Item) /\ queue' = Append(queue, e)
      /\ link /\ link' = link /\ wants = "none" /\ wants' = waits
      /\ UNCHANGED <<built, advertising, told>>
  BY DEF IInv, Queued, Asks, profile, radio, env
<1>2. ~Asked(queue) /\ ~In(queue, "DISCONNECT")
  BY <1>1 DEF Asking, IInv, Linked
<1>3. /\ OneAsked(queue') /\ AskedFirst(queue')
      /\ Asked(queue') => e.is \in Requests
  BY <1>1, <1>2, PostedAsked DEF Asking
<1>4. In(queue', "PREPARE") => In(queue, "PREPARE") \/ e.is = "PREPARE"
  BY <1>1, Posted
<1>5. In(queue', "PREPARE") => Len(told') < MaxPrepared
  BY <1>1, <1>4 DEF Asking
<1>6. Asked(queue') => wants' = "write" /\ link'
  BY <1>1, <1>3
<1> QED
  BY <1>1, <1>3, <1>5, <1>6 DEF Asking

(* What a client asks. *)
LEMMA ClientAsking == IInv /\ Asking /\ (ClientWrites \/ ClientReads) => Asking'
<1> SUFFICES ASSUME IInv, Asking, ClientWrites \/ ClientReads PROVE Asking'
  OBVIOUS
<1>1. \A what \in {"WRITE", "EXEC_WRITE", "WRITE_NO_RSP", "READ"} :
        /\ Event(what) \in Item /\ Event(what).is = what
        /\ Event(what).is # "PREPARE" /\ Event(what).is # "DISCONNECT"
  BY EventIsItem DEF EventNames
<1>2. Event("WRITE_NO_RSP").is \notin Requests /\ Event("READ").is \notin Requests
  BY <1>1 DEF Requests
<1>3. CASE Asks(Event("WRITE"), "write") \/ Asks(Event("EXEC_WRITE"), "write")
  BY <1>1, <1>3, AskAsking
<1>4. CASE Asks(Event("WRITE_NO_RSP"), "none") \/ Asks(Event("READ"), "read")
  BY <1>1, <1>2, <1>4, AskAsking
<1>5. ASSUME NEW o \in Offsets, NEW p \in Pieces, Len(told) < MaxPrepared,
             Asks([is |-> "PREPARE", offset |-> o, value |-> p], "write")
      PROVE  Asking'
  <2> DEFINE e == [is |-> "PREPARE", offset |-> o, value |-> p]
  <2>1. e \in Item /\ e.is = "PREPARE" /\ e.is # "DISCONNECT"
    BY DEF Item, EventNames
  <2>2. Asks(e, "write")
    BY <1>5
  <2> HIDE DEF e
  <2> QED
    BY <1>5, <2>1, <2>2, AskAsking
<1> QED
  BY <1>3, <1>4, <1>5 DEF ClientWrites, ClientReads
-----------------------------------------------------------------------------
(* What a sequence is of that another one is added to. *)
LEMMA Joined ==
    ASSUME NEW S, NEW p \in Seq(S), NEW q \in Seq(S)
    PROVE  /\ p \o q \in Seq(S) /\ Len(p \o q) = Len(p) + Len(q)
           /\ Len(p) \in Nat /\ Len(q) \in Nat
           /\ \A i \in 1..Len(p) : (p \o q)[i] = p[i]
           /\ \A i \in Len(p) + 1..Len(p) + Len(q) : (p \o q)[i] = q[i - Len(p)]
  OBVIOUS

(* The buffer after a piece was copied. *)
LEMMA StoredType ==
    ASSUME Prepared, NEW e \in Item
    PROVE  /\ Stored(e) \in [1..Capacity -> Values \cup {Unset}]
           /\ e.value \in Seq(Values) /\ Len(e.value) \in 0..Capacity /\ e.offset \in Nat
<1>1. e.value \in Seq(Values) /\ Len(e.value) \in 0..Capacity /\ e.offset \in Nat
  <2>1. e.value \in Pieces \cup {<<>>} /\ e.offset \in Offsets \cup {0}
    BY DEF Item
  <2>2. Capacity \in Nat /\ \A p \in Pieces : p \in Seq(Values) /\ Len(p) <= Capacity
    BY GattAssumption
  <2>3. \A p \in Seq(Values) : Len(p) \in Nat
    OBVIOUS
  <2>4. <<>> \in Seq(Values) /\ Len(<<>>) = 0
    OBVIOUS
  <2>5. ASSUME NEW p \in Pieces PROVE p \in Seq(Values) /\ Len(p) \in 0..Capacity
    <3>1. p \in Seq(Values) /\ Len(p) <= Capacity
      BY <2>2
    <3>2. Len(p) \in Nat
      BY <2>3, <3>1
    <3> DEFINE l == Len(p)
    <3>3. l \in Nat /\ l <= Capacity
      BY <3>1, <3>2
    <3> HIDE DEF l
    <3>4. l \in 0..Capacity
      BY ONLY <2>2, <3>3
    <3> QED
      BY <3>1, <3>4 DEF l
  <2>6. Len(<<>>) \in 0..Capacity
    BY ONLY <2>2, <2>4
  <2>7. e.offset \in Nat
    <3>1. Offsets \subseteq Nat
      BY GattAssumption
    <3>2. e.offset \in Offsets \cup {0}
      BY <2>1
    <3>3. 0 \in Nat
      OBVIOUS
    <3> QED
      BY ONLY <3>1, <3>2, <3>3, Zenon
  <2> QED
    BY ONLY <2>1, <2>4, <2>5, <2>6, <2>7
<1>2. ASSUME NEW b \in 1..Capacity, b \in (e.offset + 1)..(e.offset + Len(e.value))
      PROVE  e.value[b - e.offset] \in Values
  <2>1. Capacity \in Nat
    BY GattAssumption
  <2>2. b - e.offset \in 1..Len(e.value)
    BY <1>1, <1>2, <2>1
  <2> QED
    BY <1>1, <2>2
<1>3. \A b \in 1..Capacity : bytes[b] \in Values \cup {Unset}
  BY DEF Prepared
<1> QED
  BY <1>1, <1>2, <1>3 DEF Stored

(* A piece is stored that may be: behind the first, none outside.  The     *)
(* bytes are those that were there, and in their order if it continues it. *)
LEMMA StoreStep ==
    ASSUME Prepared, NEW e \in Item, e.is = "PREPARE", Len(told) < MaxPrepared,
           "OK" \in PieceStatus(e), Store(e)
    PROVE  Prepared'
<1> DEFINE v == e.value
           n == Len(told)
           o == e.offset
<1>1. Capacity \in Nat /\ MaxPrepared \in Nat
  BY GattAssumption
<1>2. /\ v \in Seq(Values) /\ Len(v) \in 0..Capacity /\ o \in Nat
      /\ told \in Seq(Values)
      /\ bytes' \in [1..Capacity -> Values \cup {Unset}]
  BY StoredType DEF Prepared, Store
<1>3. told' = told \o v
  BY DEF Store
<1>4. /\ told' \in Seq(Values) /\ Len(told') = n + Len(v) /\ n \in Nat /\ Len(v) \in Nat
      /\ \A i \in 1..n : told'[i] = told[i]
      /\ \A i \in n + 1..n + Len(v) : told'[i] = v[i - n]
  BY <1>2, <1>3, Joined
<1>5. Len(told') <= MaxPrepared + Capacity
  <2>1. n < MaxPrepared /\ Len(v) <= Capacity
    BY <1>2
  <2> HIDE DEF n, v
  <2> QED
    BY <1>1, <1>4, <2>1
<1>6. prepare_len' = Len(told')
  <2>1. prepare_len = n /\ prepare_len' = prepare_len + Len(v)
    BY DEF Prepared, PreparedAsAnswered, Store
  <2> QED
    BY <1>4, <2>1
<1>7. prepare_buf => o + Len(v) <= Capacity
  <2> SUFFICES ASSUME prepare_buf, ~(o + Len(v) <= Capacity) PROVE FALSE
    OBVIOUS
  <2>1. o + Len(v) > Capacity
    BY <1>1, <1>2, <1>4
  <2>2. "OK" \notin PieceStatus(e)
    BY <2>1 DEF PieceStatus
  <2> QED
    BY <2>2
<1>8. "later" \notin astray' /\ astray' \subseteq {"first", "later"}
  BY <1>7 DEF Store, Stray, Prepared, PreparedAsAnswered
<1>9. ASSUME ordered'
      PROVE  /\ astray' = {} /\ Len(told') <= Capacity
             /\ \A b \in 1..Len(told') : bytes'[b] = told'[b]
  <2>1. ordered /\ o = n
    BY <1>9 DEF Store
  <2>2. o + Len(v) <= Capacity
    <3>1. CASE prepare_buf
      BY <1>7, <3>1
    <3>2. CASE ~prepare_buf
      <4>1. told = <<>>
        BY <3>2 DEF Prepared, PreparedAsAnswered
      <4>2. n = 0
        BY <4>1
      <4> HIDE DEF n, o, v
      <4> QED
        BY <1>1, <1>2, <1>4, <2>1, <4>2
    <3> QED
      BY <3>1, <3>2
  <2>3. Len(told') <= Capacity
    BY <1>4, <2>1, <2>2
  <2>4. astray' = {}
    BY <2>1, <2>2 DEF Store, Stray, Prepared, PreparedAsAnswered
  <2>5. ASSUME NEW b \in 1..Len(told') PROVE bytes'[b] = told'[b]
    <3>1. b \in 1..Capacity /\ Len(told') \in Nat
      BY <1>1, <1>4, <2>3
    <3>2. bytes'[b] = IF b \in (o + 1)..(o + Len(v)) THEN v[b - o]
                      ELSE IF prepare_buf THEN bytes[b] ELSE Unset
      BY <3>1 DEF Store, Stored
    <3>3. CASE b \in (n + 1)..(n + Len(v))
      BY <1>4, <2>1, <3>2, <3>3
    <3>4. CASE b \notin (n + 1)..(n + Len(v))
      <4>1. b \in 1..n
        <5> HIDE DEF n, v
        <5> QED
          BY <1>4, <3>1, <3>4
      <4>2. prepare_buf
        <5>1. told # <<>>
          BY <4>1
        <5> QED
          BY <5>1 DEF Prepared, PreparedAsAnswered
      <4>3. bytes[b] = told[b]
        BY <2>1, <4>1 DEF Prepared, PreparedAsAnswered
      <4>4. bytes'[b] = bytes[b] /\ told'[b] = told[b]
        BY <1>4, <2>1, <3>2, <3>4, <4>1, <4>2
      <4> QED
        BY <4>3, <4>4
    <3> QED
      BY <3>3, <3>4
  <2> QED
    BY <2>3, <2>4, <2>5
<1>10. prepare_buf' = TRUE /\ ordered' \in BOOLEAN
  BY DEF Store, Prepared
<1>11. PreparedAsAnswered'
  BY <1>6, <1>8, <1>9, <1>10 DEF PreparedAsAnswered
<1> QED
  BY <1>2, <1>4, <1>5, <1>8, <1>10, <1>11 DEF Prepared

(* A piece is prepared: it is refused, or stored where it may be. *)
LEMMA PiecePrepared ==
    ASSUME IInv, Asking, Prepared, OnPrepareWrite PROVE Prepared'
<1>1. /\ queue \in Seq(Item) /\ queue # <<>> /\ Head(queue).is = "PREPARE"
      /\ Head(queue) \in Item
  <2>1. queue \in Seq(Item) /\ queue # <<>> /\ Head(queue).is = "PREPARE"
    BY DEF IInv, Queued, OnPrepareWrite, Handles
  <2>2. \A q \in Seq(Item) : q # <<>> => Head(q) \in Item
    OBVIOUS
  <2> QED
    BY <2>1, <2>2
<1>2. In(queue, "PREPARE")
  BY <1>1, Removed
<1>3. Len(told) < MaxPrepared
  BY <1>2 DEF Asking
<1>4. \/ UNCHANGED env
      \/ "OK" \in PieceStatus(Head(queue)) /\ Store(Head(queue))
  BY DEF OnPrepareWrite
<1>5. CASE UNCHANGED env
  BY <1>5 DEF env, Prepared, PreparedAsAnswered
<1> QED
  BY <1>1, <1>3, <1>4, <1>5, StoreStep

(* With nothing told, nothing is prepared. *)
LEMMA NothingPrepared ==
    prepare_buf = FALSE /\ bytes = Blank /\ prepare_len = 0
    /\ told = <<>> /\ ordered = TRUE /\ astray = {} => Prepared
<1> SUFFICES ASSUME prepare_buf = FALSE, bytes = Blank, prepare_len = 0,
                    told = <<>>, ordered = TRUE, astray = {}
             PROVE  Prepared
  OBVIOUS
<1>1. Capacity \in Nat /\ MaxPrepared \in Nat
  BY GattAssumption
<1>2. Len(told) = 0 /\ told \in Seq(Values)
  OBVIOUS
<1>3. Len(told) <= MaxPrepared + Capacity /\ Len(told) <= Capacity
  BY <1>1, <1>2
<1>4. bytes \in [1..Capacity -> Values \cup {Unset}]
  BY DEF Blank
<1>5. \A b \in 1..Len(told) : bytes[b] = told[b]
  BY <1>2
<1> QED
  BY <1>2, <1>3, <1>4, <1>5 DEF Prepared, PreparedAsAnswered

(* Whether executed or cancelled, nothing is left of the pieces. *)
LEMMA PiecesDropped == Drop => Prepared'
<1>1. Drop => (/\ prepare_buf = FALSE /\ bytes = Blank /\ prepare_len = 0
               /\ told = <<>> /\ ordered = TRUE /\ astray = {})'
  BY DEF Drop, Blank
<1>2. (/\ prepare_buf = FALSE /\ bytes = Blank /\ prepare_len = 0
       /\ told = <<>> /\ ordered = TRUE /\ astray = {})' => Prepared'
  BY NothingPrepared, PTL
<1> QED
  BY <1>1, <1>2

(* When the server starts, nothing is asked or prepared. *)
LEMMA BegunAsking == Begun => Asking /\ Prepared
<1> SUFFICES ASSUME Begun PROVE Asking /\ Prepared
  OBVIOUS
<1>1. queue = <<Event("REG")>> /\ Event("REG").is = "REG"
  BY EventIsItem DEF Begun, EventNames
<1>2. Len(queue) = 1 /\ queue[1].is = "REG"
  BY <1>1
<1>3. ~Asked(queue) /\ ~In(queue, "PREPARE")
  BY <1>2 DEF Asked, In, Requests
<1>4. OneAsked(queue) /\ AskedFirst(queue)
  BY <1>3 DEF OneAsked, AskedFirst, Asked
<1>5. Asking
  BY <1>3, <1>4 DEF Begun, Asking
<1>6. Prepared
  BY NothingPrepared DEF Begun
<1> QED
  BY <1>5, <1>6

(* The requests and the pieces, in every reachable state. *)
LEMMA AskingInvariance == Spec => [](IInv /\ Asking /\ Prepared)
<1>1. Init => Asking /\ Prepared
  BY Begins, BegunAsking
<1>2. IInv /\ Asking /\ Prepared /\ [Next]_vars => Asking' /\ Prepared'
  <2> SUFFICES ASSUME IInv, Asking, Prepared, [Next]_vars PROVE Asking' /\ Prepared'
    OBVIOUS
  <2>1. CASE Restart
    <3>1. Begun'
      BY <2>1, Begins
    <3>2. Begun' => Asking' /\ Prepared'
      BY BegunAsking, PTL
    <3> QED
      BY <3>1, <3>2
  <2>2. CASE UNCHANGED vars
    BY <2>2 DEF vars, profile, radio, env, Asking, Prepared, PreparedAsAnswered
  <2>3. ~Restart /\ ~UNCHANGED vars => Asking'
    BY BuildAsking, HandledAsking, DisconnectAsking, LinkAsking, ClientAsking
    DEF Next, Handler
  <2>4. ~Restart /\ ~UNCHANGED vars => Prepared'
    <3>1. UNCHANGED env => Prepared'
      BY DEF env, Prepared, PreparedAsAnswered
    <3>2. OnReg \/ OnCreate \/ OnAddChar \/ OnAddCharDescr \/ OnOther \/ OnConnect => UNCHANGED env
      BY DEF OnReg, OnCreate, OnAddChar, OnAddCharDescr, OnOther, OnConnect
    <3>3. \/ OnDisconnect \/ OnWrite \/ StackConfigures
          \/ OnDataSet("adv", "ADV_DATA_SET") \/ OnDataSet("rsp", "SCAN_RSP_DATA_SET")
          => UNCHANGED env
      BY DEF OnDisconnect, OnWrite, StackConfigures, OnDataSet
    <3>4. ClientConnects \/ ClientGoes \/ ClientWrites \/ ClientReads => UNCHANGED env
      BY DEF ClientConnects, ClientGoes, ClientWrites, ClientReads, Asks
    <3>5. OnExecWrite => Prepared'
      BY PiecesDropped DEF OnExecWrite
    <3>6. OnPrepareWrite => Prepared'
      BY PiecePrepared
    <3> QED
      BY <3>1, <3>2, <3>3, <3>4, <3>5, <3>6 DEF Next, Handler
  <2> QED
    BY <2>1, <2>2, <2>3, <2>4
<1> QED
  BY <1>1, <1>2, Invariance, PTL DEF Spec

(* The restarts are counted up to their bound. *)
LEMMA RestartsBounded == Spec => [](restarts \in 0..MaxRestarts)
<1>1. Init => restarts \in 0..MaxRestarts
  BY GattAssumption DEF Init
<1>2. restarts \in 0..MaxRestarts /\ [Next]_vars => (restarts \in 0..MaxRestarts)'
  <2> SUFFICES ASSUME restarts \in 0..MaxRestarts, [Next]_vars
               PROVE  restarts' \in 0..MaxRestarts
    OBVIOUS
  <2>1. restarts' = restarts \/ (restarts < MaxRestarts /\ restarts' = restarts + 1)
    <3>1. CASE OnReg \/ OnCreate \/ OnAddChar \/ OnAddCharDescr \/ OnOther \/ OnConnect
      BY <3>1 DEF OnReg, OnCreate, OnAddChar, OnAddCharDescr, OnOther, OnConnect
    <3>2. CASE \/ OnDisconnect \/ OnWrite \/ StackConfigures \/ OnPrepareWrite \/ OnExecWrite
               \/ OnDataSet("adv", "ADV_DATA_SET") \/ OnDataSet("rsp", "SCAN_RSP_DATA_SET")
      BY <3>2 DEF OnDisconnect, OnWrite, StackConfigures, OnDataSet, OnPrepareWrite, OnExecWrite
    <3>3. CASE ClientConnects \/ ClientGoes \/ ClientWrites \/ ClientReads
      BY <3>3 DEF ClientConnects, ClientGoes, ClientWrites, ClientReads, Asks
    <3>4. CASE Restart \/ UNCHANGED vars
      BY <3>4 DEF Restart, vars
    <3> QED
      BY <3>1, <3>2, <3>3, <3>4 DEF Next, Handler
  <2> QED
    BY <2>1, GattAssumption
<1> QED
  BY <1>1, <1>2, PTL DEF Spec

(* Every variable of the server stays in its type. *)
THEOREM TypeCorrect == Spec => []TypeOK
<1>1. IInv /\ Asking /\ Prepared /\ restarts \in 0..MaxRestarts => TypeOK
  <2> SUFFICES ASSUME IInv, Asking, Prepared, restarts \in 0..MaxRestarts PROVE TypeOK
    OBVIOUS
  <2>1. prepare_len \in 0..(MaxPrepared + Capacity)
    BY GattAssumption DEF Prepared, PreparedAsAnswered
  <2>2. queue \in Seq([is : EventNames, offset : Offsets \cup {0}, value : Pieces \cup {<<>>}])
    BY DEF IInv, Queued, Item
  <2> QED
    BY <2>1, <2>2 DEF IInv, Given, Asking, Prepared, TypeOK
<1> QED
  BY <1>1, AskingInvariance, RestartsBounded, PTL

(* The handler of a prepared write in bluetooth.cpp counts the bytes of    *)
(* the pieces it answered with OK and of no others; it stores none but the *)
(* first outside the buffer, and none at all if they come in their order,  *)
(* in which case the buffer begins with them: for any pieces, any size of  *)
(* the buffer, clients that leave in between and any number of restarts.   *)
(* Where the first piece goes is not looked at, which the theorem leaves   *)
(* open as the code does.                                                  *)
THEOREM PreparedSafe == Spec => []PreparedAsAnswered
<1>1. Prepared => PreparedAsAnswered
  BY DEF Prepared
<1> QED
  BY <1>1, AskingInvariance, PTL
=============================================================================
