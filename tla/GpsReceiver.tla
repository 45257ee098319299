---------------------------- MODULE GpsReceiver ----------------------------
(***************************************************************************)
(* The GPS task (src/main/GPS.hpp): read NMEA sentences from the UART,     *)
(* parse GGA and VTG sentences in place into gps.data under its mutex, let *)
(* readers copy from it.                                                   *)
(*                                                                         *)
(* The unit of the model is the segment, the characters up to and with one *)
(* separator: every parse function consumes one or two segments.  A        *)
(* segment is what it is in its sentence (`is') and the number of the      *)
(* sentence it was sent in (`val'); 0 stands for a blank segment and for   *)
(* an empty optional, -1 for the number zero.                              *)
(***************************************************************************)
EXTENDS Integers, Sequences, SequencesExt

CONSTANTS
    Sources,     \* numbers of the sentences the receiver sends, 1..Sources
    Room,        \* segments the UART driver holds (its ring of 1024 bytes)
    MaxLost,     \* bound: segments lost because the ring was full
    MaxRestarts  \* bound: restarts of the device

ASSUME GpsAssumption ==
    /\ Sources \in Nat \ {0}
    /\ Room \in Nat \ {0}
    /\ MaxLost \in Nat /\ MaxRestarts \in Nat

GgaFields == {"time", "lat", "lon", "quality", "num_sats", "hdop", "alt",
              "undulation", "age", "stn_ID"}
VtgFields == {"course_measured", "course_magnetic", "speed_km", "mode"}

(* The statements of parse_gga() and parse_vtg(), one slot per segment they *)
(* consume: a field on its own, or its number and then its unit.  A unit    *)
(* other than "" must be the one the code expects.                         *)
Whole(f)   == [to |-> f, part |-> "whole", unit |-> ""]
Number(f)  == [to |-> f, part |-> "number", unit |-> ""]
Unit(f, u) == [to |-> f, part |-> "unit", unit |-> u]

(* mistake: a number whose unit is not consumed *)
GgaSlotsBareAlt ==
    <<Whole("time"), Number("lat"), Unit("lat", ""), Number("lon"), Unit("lon", ""),
      Whole("quality"), Whole("num_sats"), Whole("hdop"), Whole("alt"),
      Number("undulation"), Unit("undulation", "M"),
      Whole("age"), Whole("stn_ID"), Whole("csum")>>

GgaSlots ==
    <<Whole("time"), Number("lat"), Unit("lat", ""), Number("lon"), Unit("lon", ""),
      Whole("quality"), Whole("num_sats"), Whole("hdop"), Number("alt"), Unit("alt", "M"),
      Number("undulation"), Unit("undulation", "M"),
      Whole("age"), Whole("stn_ID"), Whole("csum")>>
VtgSlots ==
    <<Number("course_measured"), Unit("course_measured", "T"),
      Number("course_magnetic"), Unit("course_magnetic", "M"),
      Number("knots"), Unit("knots", "N"), Number("speed_km"), Unit("speed_km", "K"),
      Whole("mode"), Whole("csum")>>

(* slots whose first character must be a digit *)
Strict == {"time", "lat", "lon"}

NoGga == [f \in GgaFields |-> 0]
NoVtg == [f \in VtgFields |-> 0]

VARIABLES
    line,      \* segments received and not yet parsed, in order
    buffered,  \* how many of them are in the task's own Buffer
    ask,       \* how many end in the characters it asks for next
    mode,      \* "hunt", "lock" (waits for the mutex) or "parse"
    what,      \* the sentence being parsed, "gga" or "vtg"
    k,         \* the slot the next segment goes to
    acc,       \* the number read, while its unit is not
    gga, vtg,  \* gps.data
    lock,      \* holder of its mutex: "free", "gps" or "reader"
    rd,        \* the reader: "idle", "lock" or "copy"
    tosend,    \* receiver: segments of the current sentence still to send
    turn,      \* receiver: the next sentence
    lost,      \* segments lost so far
    restarts   \* restarts so far

parser == <<buffered, ask, mode, what, k, acc, gga, vtg>>
sender == <<tosend, turn, lost>>
vars   == <<line, parser, lock, rd, sender, restarts>>

Init ==
    /\ line = <<>> /\ buffered = 0 /\ ask \in 1..Room
    /\ mode = "hunt" /\ what = "gga" /\ k = 1 /\ acc = 0
    /\ gga = NoGga /\ vtg = NoVtg
    /\ lock = "free"
    /\ rd = "idle"
    /\ tosend = <<>> /\ turn = [kind |-> "gga", n |-> 1] /\ lost = 0
    /\ restarts = 0
-----------------------------------------------------------------------------
(* ch(): uart_read_bytes() refills the task's buffer when it is empty, and *)
(* waits until there are as many characters as it holds.  It holds fewer   *)
(* than the driver's ring, and how many segments end in it depends on what *)
(* is received.  (A segment of which it holds the beginning counts to the  *)
(* next buffer, where the task finds its end.)                             *)
Refill ==
    /\ buffered = 0
    /\ Len(line) >= ask
    /\ buffered' = ask
    /\ ask' \in 1..Room
    /\ UNCHANGED <<line, mode, what, k, acc, gga, vtg, lock, rd, sender, restarts>>

Take == /\ buffered > 0
        /\ line' = Tail(line)
        /\ buffered' = buffered - 1
        /\ UNCHANGED ask

Keep == UNCHANGED <<line, buffered, ask>>

(* task(): skip to a '$', read the name, see whether it is one to parse *)
Hunt ==
    /\ mode = "hunt"
    /\ Take
    /\ IF Head(line).is \in {"$gga", "$vtg"}
       THEN /\ mode' = "lock"
            /\ what' = IF Head(line).is = "$gga" THEN "gga" ELSE "vtg"
       ELSE UNCHANGED <<mode, what>>
    /\ UNCHANGED <<k, acc, gga, vtg, lock, rd, sender, restarts>>

(* mistakes: the place in the sentence is not reset; the mutex is not      *)
(* waited for                                                              *)
LockKeepsSlot ==
    /\ mode = "lock"
    /\ lock = "free"
    /\ lock' = "gps"
    /\ mode' = "parse"
    /\ UNCHANGED <<line, buffered, ask, what, k, acc, gga, vtg, rd, sender, restarts>>
LockWithoutWaiting ==
    /\ mode = "lock"
    /\ lock' = "gps"
    /\ mode' = "parse"
    /\ k' = 1
    /\ UNCHANGED <<line, buffered, ask, what, acc, gga, vtg, rd, sender, restarts>>

(* data.get() *)
Lock ==
    /\ mode = "lock"
    /\ lock = "free"
    /\ lock' = "gps"
    /\ mode' = "parse"
    /\ k' = 1
    /\ UNCHANGED <<line, buffered, ask, what, acc, gga, vtg, rd, sender, restarts>>

Slots == IF what = "gga" THEN GgaSlots ELSE VtgSlots
Slot  == Slots[k]

(* out.<field> = v: the fields of the data only *)
Assign(f, v) ==
    /\ gga' = IF what = "gga" /\ f \in GgaFields THEN [gga EXCEPT ![f] = v] ELSE gga
    /\ vtg' = IF what = "vtg" /\ f \in VtgFields THEN [vtg EXCEPT ![f] = v] ELSE vtg

(* What the two segments of a number with its unit come to.  Without a     *)
(* unit letter the coordinates keep the bare number.                       *)
WithUnit(seg) ==
    IF Slot.unit = "" \/ (seg.val # 0 /\ seg.is = Slot.unit) THEN acc ELSE 0

(* mistake: the mutex is kept *)
LeaveLocked == mode' = "hunt" /\ UNCHANGED lock

Leave == /\ lock' = "free"
         /\ mode' = "hunt"

(* one segment goes where its slot says; the last one is parse_csum(),     *)
(* after which the reference to the data goes out of scope                 *)
Parse ==
    /\ mode = "parse"
    /\ Take
    /\ CASE Slot.part = "whole"  -> Assign(Slot.to, Head(line).val) /\ UNCHANGED acc
         [] Slot.part = "number" -> acc' = Head(line).val /\ UNCHANGED <<gga, vtg>>
         [] Slot.part = "unit"   -> Assign(Slot.to, WithUnit(Head(line))) /\ acc' = 0
    /\ IF k = Len(Slots)
       THEN Leave /\ UNCHANGED k
       ELSE k' = k + 1 /\ UNCHANGED <<lock, mode>>
    /\ UNCHANGED <<what, rd, sender, restarts>>

(* A segment that is not what its slot expects may not begin with a digit: *)
(* the data is cleared and the exception leaves through task().  A '$'     *)
(* behind the bad character is still to come, and is hunted next.          *)
Bad ==
    /\ mode = "parse"
    /\ buffered > 0
    /\ Slot.to \in Strict /\ Slot.part # "unit"
    /\ Head(line).is # Slot.to
    /\ gga' = IF what = "gga" THEN NoGga ELSE gga
    /\ vtg' = IF what = "vtg" THEN NoVtg ELSE vtg
    /\ acc' = 0
    /\ Leave
    /\ IF Head(line).is \in {"$gga", "$vtg", "$other"} THEN Keep ELSE Take
    /\ UNCHANGED <<what, k, rd, sender, restarts>>

Task == Refill \/ Hunt \/ Lock \/ Parse \/ Bad
-----------------------------------------------------------------------------
(* A reader: dump(), or any other holder of data.get(), copies the data.   *)
Want ==
    /\ rd = "idle"
    /\ rd' = "lock"
    /\ UNCHANGED <<line, parser, lock, sender, restarts>>

ReaderLock ==
    /\ rd = "lock"
    /\ lock = "free"
    /\ lock' = "reader"
    /\ rd' = "copy"
    /\ UNCHANGED <<line, parser, sender, restarts>>

(* mistake: the reader keeps the mutex *)
ReaderKeeps ==
    /\ rd = "copy"
    /\ rd' = "idle"
    /\ UNCHANGED <<line, parser, lock, sender, restarts>>

ReaderGive ==
    /\ rd = "copy"
    /\ lock' = "free"
    /\ rd' = "idle"
    /\ UNCHANGED <<line, parser, sender, restarts>>

Reader == Want \/ ReaderLock \/ ReaderGive
-----------------------------------------------------------------------------
(* The receiver (external) sends its sentences segment by segment.         *)
GgaLayout == <<"time", "lat", "NS", "lon", "EW", "quality", "num_sats", "hdop",
               "alt", "M", "undulation", "M", "age", "stn_ID", "csum">>
VtgLayout == <<"course_measured", "T", "course_magnetic", "M", "knots", "N",
               "speed_km", "K", "mode", "csum">>

GgaVal(n, fixed, f) ==
    IF fixed \/ f \in {"time", "num_sats", "hdop", "csum"} THEN n
    ELSE IF f = "quality" THEN -1 ELSE 0
VtgVal(n, fixed, f) == IF fixed \/ f \in {"mode", "csum"} THEN n ELSE 0

Sentence(kind, n, fixed) ==
    CASE kind = "gga" -> <<[is |-> "$gga", val |-> n]>>
            \o [j \in 1..15 |-> [is |-> GgaLayout[j], val |-> GgaVal(n, fixed, GgaLayout[j])]]
      [] kind = "vtg" -> <<[is |-> "$vtg", val |-> n]>>
            \o [j \in 1..10 |-> [is |-> VtgLayout[j], val |-> VtgVal(n, fixed, VtgLayout[j])]]
      [] OTHER -> <<[is |-> "$other", val |-> n], [is |-> "csum", val |-> n]>>

NextTurn(t) ==
    CASE t.kind = "gga" -> [t EXCEPT !.kind = "vtg"]
      [] t.kind = "vtg" -> [t EXCEPT !.kind = "other"]
      [] OTHER -> [kind |-> "gga", n |-> (t.n % Sources) + 1]

Compose ==
    /\ tosend = <<>>
    /\ \E fixed \in BOOLEAN : tosend' = Sentence(turn.kind, turn.n, fixed)
    /\ turn' = NextTurn(turn)
    /\ UNCHANGED <<line, parser, lock, rd, lost, restarts>>

Send ==
    /\ tosend # <<>>
    /\ Len(line) < Room
    /\ line' = Append(line, Head(tosend))
    /\ tosend' = Tail(tosend)
    /\ UNCHANGED <<parser, lock, rd, turn, lost, restarts>>

(* The ring is full: a segment is gone, or only its beginning and the end  *)
(* of the one before, so that the two have become one.                     *)
Overrun ==
    /\ tosend # <<>>
    /\ Len(line) = Room
    /\ lost < MaxLost
    /\ lost' = lost + 1
    /\ tosend' = Tail(tosend)
    /\ \/ UNCHANGED line
       \/ /\ buffered < Room
          /\ line' = [line EXCEPT ![Room] = [is |-> "junk", val |-> @.val]]
    /\ UNCHANGED <<parser, lock, rd, turn, restarts>>

(* The device restarts: the data, the mutex and the characters the driver  *)
(* had are gone; the receiver goes on with its sentence.                   *)
Restart ==
    /\ restarts < MaxRestarts
    /\ restarts' = restarts + 1
    /\ line' = <<>> /\ buffered' = 0 /\ ask' \in 1..Room
    /\ mode' = "hunt" /\ what' = "gga" /\ k' = 1 /\ acc' = 0
    /\ gga' = NoGga /\ vtg' = NoVtg
    /\ lock' = "free"
    /\ rd' = "idle"
    /\ UNCHANGED sender

Environment == Compose \/ Send \/ Overrun \/ Restart

Next == Task \/ Reader \/ Environment

Spec == Init /\ [][Next]_vars

(* The task runs when it can, the receiver keeps sending, a reader copies  *)
(* and gives back, and the mutex reaches whoever waits for it.             *)
FairSpec ==
    /\ Spec
    /\ WF_vars(Refill \/ Hunt \/ Parse \/ Bad) /\ SF_vars(Lock)
    /\ WF_vars(Compose \/ Send)
    /\ WF_vars(ReaderGive) /\ SF_vars(ReaderLock)
-----------------------------------------------------------------------------
(* What one sentence means, field by field (not slot by slot). *)
GgaOf(n, fixed) == [f \in GgaFields |-> GgaVal(n, fixed, f)]
VtgOf(n, fixed) == [f \in VtgFields |-> VtgVal(n, fixed, f)]

WholeGga == {NoGga} \cup {GgaOf(n, fixed) : n \in 1..Sources, fixed \in BOOLEAN}
WholeVtg == {NoVtg} \cup {VtgOf(n, fixed) : n \in 1..Sources, fixed \in BOOLEAN}

Val == -1..Sources

(* Every variable stays in its type. *)
TypeOK ==
    /\ buffered \in 0..Len(line) /\ Len(line) <= Room /\ ask \in 1..Room
    /\ mode \in {"hunt", "lock", "parse"} /\ what \in {"gga", "vtg"}
    /\ k \in 1..Len(Slots) \/ mode # "parse"
    /\ acc \in Val
    /\ gga \in [GgaFields -> Val] /\ vtg \in [VtgFields -> Val]
    /\ lock \in {"free", "gps", "reader"}
    /\ rd \in {"idle", "lock", "copy"}
    /\ turn \in [kind : {"gga", "vtg", "other"}, n : 1..Sources]
    /\ lost \in 0..MaxLost /\ restarts \in 0..MaxRestarts

(* The mutex is held by who is inside: the task while it parses, through   *)
(* every refill it waits for and every way out, the reader while it copies.*)
MutexHeld ==
    /\ lock = "gps" <=> mode = "parse"
    /\ lock = "reader" <=> rd = "copy"

(* While no segment is lost, what can be read between two sentences is     *)
(* what one GGA and one VTG sentence said, all of it and nothing else:     *)
(* every parse function consumes as many segments as its field has, blank  *)
(* or not, and a restart in the middle of a sentence begins with the next. *)
Coherent ==
    (lost = 0 /\ lock # "gps") => gga \in WholeGga /\ vtg \in WholeVtg

(* After the last loss the parser finds its way back: from some time on    *)
(* every fix that can be read is of one sentence again.                    *)
Resync == <>[](lock # "gps" => gga \in WholeGga /\ vtg \in WholeVtg)

(* A reader that waits for the data gets it, though the task holds the     *)
(* lock while it waits for characters, unless a restart ends it.           *)
ReaderServed == (rd = "lock") ~> (rd # "lock")
=============================================================================
