------------------------- MODULE GpsReceiverProofs -------------------------
(***************************************************************************)
(* Proofs about GpsReceiver, for every number of sentences, every ring of  *)
(* the driver and every number of losses and restarts.                     *)
(***************************************************************************)
EXTENDS GpsReceiver, TLAPS

IInv ==
    /\ mode \in {"hunt", "lock", "parse"}
    /\ rd \in {"idle", "lock", "copy"}
    /\ lock \in {"free", "gps", "reader"}
    /\ MutexHeld

(* The invariant holds initially. *)
LEMMA InitIInv == Init => IInv
  BY DEF Init, IInv, MutexHeld

(* Every step keeps it: the task's ways in and out, the reader's, the rest.*)
LEMMA NextIInv == IInv /\ [Next]_vars => IInv'
<1> SUFFICES ASSUME IInv, [Next]_vars PROVE IInv'
  OBVIOUS
<1> USE DEF IInv, MutexHeld
<1>1. ASSUME mode = "parse", Leave, rd' = rd PROVE IInv'
  BY <1>1 DEF Leave
<1>2. CASE Refill
  BY <1>2 DEF Refill
<1>3. CASE Hunt
  <2>1. mode = "hunt" /\ mode' \in {"hunt", "lock"} /\ UNCHANGED <<lock, rd>>
    BY <1>3 DEF Hunt
  <2> QED
    BY <2>1
<1>4. CASE Lock
  BY <1>4 DEF Lock
<1>5. CASE Parse
  <2>1. mode = "parse" /\ rd' = rd
    BY <1>5 DEF Parse
  <2>2. Leave \/ UNCHANGED <<lock, mode>>
    BY <1>5 DEF Parse
  <2> QED
    BY <1>1, <2>1, <2>2
<1>6. CASE Bad
  BY <1>1, <1>6 DEF Bad
<1>7. CASE Reader
  BY <1>7 DEF Reader, Want, ReaderLock, ReaderGive, parser
<1>8. CASE Compose \/ Send \/ Overrun
  BY <1>8 DEF Compose, Send, Overrun, parser
<1>9. CASE Restart
  BY <1>9 DEF Restart
<1>10. CASE UNCHANGED vars
  BY <1>10 DEF vars, parser
<1> QED
  BY <1>2, <1>3, <1>4, <1>5, <1>6, <1>7, <1>8, <1>9, <1>10 DEF Next, Task, Environment

(* The task and the readers of GPS.hpp are never inside gps.data together, *)
(* and the mutex of Mutex.hpp is given back on every way out: the end of a *)
(* sentence, the exception in the middle of one, a restart.                *)
THEOREM MutexSafe == Spec => []MutexHeld
<1>1. IInv => MutexHeld
  BY DEF IInv
<1> QED
  BY <1>1, InitIInv, NextIInv, PTL DEF Spec
-----------------------------------------------------------------------------
(* The two sentences and what belongs to each. *)
Kinds == {"gga", "vtg"}
Dollar(w)  == IF w = "gga" THEN "$gga" ELSE "$vtg"
Size(w)    == IF w = "gga" THEN 15 ELSE 10
SlotsOf(w) == IF w = "gga" THEN GgaSlots ELSE VtgSlots
Layout(w)  == IF w = "gga" THEN GgaLayout ELSE VtgLayout
Fields(w)  == IF w = "gga" THEN GgaFields ELSE VtgFields
ValOf(w, n, fixed, f) == IF w = "gga" THEN GgaVal(n, fixed, f) ELSE VtgVal(n, fixed, f)

(* The slot of a unit is behind that of its number.  The code expects no    *)
(* letter, or the one the receiver sends, and a number without a fix is    *)
(* blank.                                                                  *)
UnitFits(w, b, j) ==
    /\ b # 0
    /\ SlotsOf(w)[b].part = "number"
    /\ SlotsOf(w)[b].to = SlotsOf(w)[j].to

LetterFits(w, j) ==
    /\ SlotsOf(w)[j].unit = Layout(w)[j]
    /\ Layout(w)[j] \in {"T", "M", "N", "K"}
    /\ SlotsOf(w)[j].to \in {"alt", "undulation", "course_measured",
                             "course_magnetic", "knots", "speed_km"}

(* What slot j, behind slot b, expects is what the receiver sends there. *)
SlotFits(w, b, j) ==
    /\ SlotsOf(w)[j].part \in {"whole", "number", "unit"}
    /\ SlotsOf(w)[j].part # "unit" => Layout(w)[j] = SlotsOf(w)[j].to
    /\ SlotsOf(w)[j].part = "unit" => UnitFits(w, b, j)
    /\ SlotsOf(w)[j].unit # "" => LetterFits(w, j)

(* What the slots of a field on its own and of a number are. *)
LEMMA SlotParts ==
    ASSUME NEW f
    PROVE  /\ Whole(f).to = f /\ Whole(f).part = "whole" /\ Whole(f).unit = ""
           /\ Number(f).to = f /\ Number(f).part = "number" /\ Number(f).unit = ""
<1>1. Whole(f).to = f
  BY DEF Whole
<1>2. Whole(f).part = "whole"
  BY DEF Whole
<1>3. Whole(f).unit = ""
  BY DEF Whole
<1>4. Number(f).to = f
  BY DEF Number
<1>5. Number(f).part = "number"
  BY DEF Number
<1>6. Number(f).unit = ""
  BY DEF Number
<1> QED
  BY <1>1, <1>2, <1>3, <1>4, <1>5, <1>6

(* A slot for a field on its own fits a segment of its name. *)
LEMMA WholeFits ==
    ASSUME NEW w, NEW b, NEW j, NEW f,
           SlotsOf(w)[j] = Whole(f), Layout(w)[j] = f
    PROVE  SlotFits(w, b, j)
<1>1. Whole(f).to = f /\ Whole(f).part = "whole" /\ Whole(f).unit = ""
  BY SlotParts
<1> QED
  BY <1>1 DEF SlotFits

(* So does a slot for a number. *)
LEMMA NumberFits ==
    ASSUME NEW w, NEW b, NEW j, NEW f,
           SlotsOf(w)[j] = Number(f), Layout(w)[j] = f
    PROVE  SlotFits(w, b, j)
<1>1. Number(f).to = f /\ Number(f).part = "number" /\ Number(f).unit = ""
  BY SlotParts
<1> QED
  BY <1>1 DEF SlotFits

(* A slot for a unit fits its letter, behind the slot of its number. *)
LEMMA UnitSlotFits ==
    ASSUME NEW w, NEW b, NEW j, NEW f, NEW u, b # 0,
           SlotsOf(w)[b] = Number(f), SlotsOf(w)[j] = Unit(f, u)
    PROVE  (u # "" => /\ Layout(w)[j] = u /\ u \in {"T", "M", "N", "K"}
                      /\ f \in {"alt", "undulation", "course_measured",
                               "course_magnetic", "knots", "speed_km"})
           => SlotFits(w, b, j)
<1> DEFINE s == SlotsOf(w)[j]
           r == SlotsOf(w)[b]
           Fits == u # "" => /\ Layout(w)[j] = u /\ u \in {"T", "M", "N", "K"}
                             /\ f \in {"alt", "undulation", "course_measured",
                                      "course_magnetic", "knots", "speed_km"}
<1>1. s.to = f
  BY DEF Unit
<1>2. s.unit = u
  BY DEF Unit
<1>3. s.part = "unit"
  BY DEF Unit
<1>4. Number(f).to = f /\ Number(f).part = "number"
  BY SlotParts
<1>5. UnitFits(w, b, j)
  BY <1>1, <1>4 DEF UnitFits
<1>6. ASSUME Fits, s.unit # "" PROVE LetterFits(w, j)
  BY <1>1, <1>2, <1>6 DEF LetterFits
<1> QED
  BY <1>3, <1>5, <1>6 DEF SlotFits

(* Every slot of both sentences fits. *)
LEMMA SlotsFit == \A w \in Kinds : \A j \in 1..Size(w) : SlotFits(w, j - 1, j)
<1>1. \A j \in 1..15 : SlotFits("gga", j - 1, j)
  <2> DEFINE S == SlotsOf("gga")
             L == Layout("gga")
  <2>1. /\ S[1] = Whole("time") /\ S[2] = Number("lat") /\ S[3] = Unit("lat", "")
        /\ S[4] = Number("lon") /\ S[5] = Unit("lon", "") /\ S[6] = Whole("quality")
        /\ S[7] = Whole("num_sats") /\ S[8] = Whole("hdop")
        /\ S[9] = Number("alt") /\ S[10] = Unit("alt", "M")
        /\ S[11] = Number("undulation") /\ S[12] = Unit("undulation", "M")
        /\ S[13] = Whole("age") /\ S[14] = Whole("stn_ID") /\ S[15] = Whole("csum")
    BY DEF SlotsOf, GgaSlots
  <2>2. /\ L[1] = "time" /\ L[2] = "lat" /\ L[4] = "lon" /\ L[6] = "quality"
        /\ L[7] = "num_sats" /\ L[8] = "hdop" /\ L[9] = "alt" /\ L[10] = "M"
        /\ L[11] = "undulation" /\ L[12] = "M" /\ L[13] = "age"
        /\ L[14] = "stn_ID" /\ L[15] = "csum"
    BY DEF Layout, GgaLayout
  <2>3. SlotFits("gga", 0, 1)
    BY <2>1, <2>2, WholeFits
  <2>4. SlotFits("gga", 1, 2)
    BY <2>1, <2>2, NumberFits
  <2>5. SlotFits("gga", 3, 4)
    BY <2>1, <2>2, NumberFits
  <2>6. SlotFits("gga", 5, 6)
    BY <2>1, <2>2, WholeFits
  <2>7. SlotFits("gga", 6, 7)
    BY <2>1, <2>2, WholeFits
  <2>8. SlotFits("gga", 7, 8)
    BY <2>1, <2>2, WholeFits
  <2>9. SlotFits("gga", 8, 9)
    BY <2>1, <2>2, NumberFits
  <2>10. SlotFits("gga", 10, 11)
    BY <2>1, <2>2, NumberFits
  <2>11. SlotFits("gga", 12, 13)
    BY <2>1, <2>2, WholeFits
  <2>12. SlotFits("gga", 13, 14)
    BY <2>1, <2>2, WholeFits
  <2>13. SlotFits("gga", 14, 15)
    BY <2>1, <2>2, WholeFits
  <2>14. SlotFits("gga", 2, 3)
    BY <2>1, <2>2, UnitSlotFits
  <2>15. SlotFits("gga", 4, 5)
    BY <2>1, <2>2, UnitSlotFits
  <2>16. SlotFits("gga", 9, 10)
    BY <2>1, <2>2, UnitSlotFits
  <2>17. SlotFits("gga", 11, 12)
    BY <2>1, <2>2, UnitSlotFits
  <2> QED
    BY <2>3, <2>4, <2>5, <2>6, <2>7, <2>8, <2>9,
       <2>10, <2>11, <2>12, <2>13, <2>14, <2>15, <2>16, <2>17
<1>2. \A j \in 1..10 : SlotFits("vtg", j - 1, j)
  <2> DEFINE S == SlotsOf("vtg")
             L == Layout("vtg")
  <2>1. /\ S[1] = Number("course_measured") /\ S[2] = Unit("course_measured", "T")
        /\ S[3] = Number("course_magnetic") /\ S[4] = Unit("course_magnetic", "M")
        /\ S[5] = Number("knots") /\ S[6] = Unit("knots", "N")
        /\ S[7] = Number("speed_km") /\ S[8] = Unit("speed_km", "K")
        /\ S[9] = Whole("mode") /\ S[10] = Whole("csum")
    BY DEF SlotsOf, VtgSlots
  <2>2. /\ L[1] = "course_measured" /\ L[2] = "T" /\ L[3] = "course_magnetic"
        /\ L[4] = "M" /\ L[5] = "knots" /\ L[6] = "N" /\ L[7] = "speed_km"
        /\ L[8] = "K" /\ L[9] = "mode" /\ L[10] = "csum"
    BY DEF Layout, VtgLayout
  <2>3. SlotFits("vtg", 0, 1)
    BY <2>1, <2>2, NumberFits
  <2>4. SlotFits("vtg", 2, 3)
    BY <2>1, <2>2, NumberFits
  <2>5. SlotFits("vtg", 4, 5)
    BY <2>1, <2>2, NumberFits
  <2>6. SlotFits("vtg", 6, 7)
    BY <2>1, <2>2, NumberFits
  <2>7. SlotFits("vtg", 8, 9)
    BY <2>1, <2>2, WholeFits
  <2>8. SlotFits("vtg", 9, 10)
    BY <2>1, <2>2, WholeFits
  <2>9. SlotFits("vtg", 1, 2)
    BY <2>1, <2>2, UnitSlotFits
  <2>10. SlotFits("vtg", 3, 4)
    BY <2>1, <2>2, UnitSlotFits
  <2>11. SlotFits("vtg", 5, 6)
    BY <2>1, <2>2, UnitSlotFits
  <2>12. SlotFits("vtg", 7, 8)
    BY <2>1, <2>2, UnitSlotFits
  <2> QED
    BY <2>3, <2>4, <2>5, <2>6, <2>7, <2>8, <2>9,
       <2>10, <2>11, <2>12
<1> QED
  BY <1>1, <1>2 DEF Kinds, Size

(* What the receiver sends without a fix, and as a unit. *)
LEMMA UnitVal ==
    ASSUME NEW w \in Kinds, NEW n,
           NEW u \in {"T", "M", "N", "K"},
           NEW f \in {"alt", "undulation", "course_measured", "course_magnetic",
                      "knots", "speed_km"}
    PROVE  /\ ValOf(w, n, TRUE, u) = n /\ ValOf(w, n, FALSE, u) = 0
           /\ ValOf(w, n, TRUE, f) = n /\ ValOf(w, n, FALSE, f) = 0
<1>1. u \notin {"time", "num_sats", "hdop", "csum", "quality", "mode"}
  OBVIOUS
<1>2. f \notin {"time", "num_sats", "hdop", "csum", "quality", "mode"}
  OBVIOUS
<1> QED
  BY <1>1, <1>2 DEF ValOf, GgaVal, VtgVal

(* There are as many slots as the sentence has segments. *)
LEMMA SlotCount ==
    ASSUME NEW w \in Kinds PROVE Len(SlotsOf(w)) = Size(w)
<1>1. CASE w = "gga"
  BY <1>1 DEF Size, SlotsOf, GgaSlots, Whole, Number, Unit
<1>2. CASE w = "vtg"
  BY <1>2 DEF Size, SlotsOf, VtgSlots, Whole, Number, Unit
<1> QED
  BY <1>1, <1>2 DEF Kinds

(* Every field of the data is the field of a slot that assigns it. *)
LEMMA EveryField ==
    ASSUME NEW w \in Kinds, NEW f \in Fields(w)
    PROVE  \E j \in 1..Size(w) : SlotsOf(w)[j].to = f /\ SlotsOf(w)[j].part # "number"
<1>1. CASE w = "gga"
  <2> USE <1>1 DEF Size, SlotsOf, GgaSlots, Whole, Number, Unit
  <2>1. CASE f \in {"time", "lat", "lon", "quality", "num_sats"}
    <3>1. 1 \in 1..15 /\ 3 \in 1..15 /\ 5 \in 1..15 /\ 6 \in 1..15 /\ 7 \in 1..15
      OBVIOUS
    <3> QED
      BY <2>1, <3>1
  <2>2. CASE f \in {"hdop", "alt", "undulation", "age", "stn_ID"}
    <3>1. 8 \in 1..15 /\ 10 \in 1..15 /\ 12 \in 1..15 /\ 13 \in 1..15 /\ 14 \in 1..15
      OBVIOUS
    <3> QED
      BY <2>2, <3>1
  <2> QED
    BY <2>1, <2>2 DEF Fields, GgaFields
<1>2. CASE w = "vtg"
  <2>1. 2 \in 1..10 /\ 4 \in 1..10 /\ 8 \in 1..10 /\ 9 \in 1..10
    OBVIOUS
  <2> QED
    BY <1>2, <2>1 DEF Fields, VtgFields, Size, SlotsOf, VtgSlots, Whole, Number, Unit
<1> QED
  BY <1>1, <1>2 DEF Kinds

(* Segments, and all variables in their types. *)
Names == {"$gga", "$vtg", "$other", "csum", "junk"}
            \cup {GgaLayout[j] : j \in 1..15} \cup {VtgLayout[j] : j \in 1..10}
Segment == [is : Names, val : Val]

TypeInv ==
    /\ TypeOK
    /\ line \in Seq(Segment)
    /\ tosend \in Seq(Segment)

(* A sentence is made of segments. *)
LEMMA SentenceType ==
    ASSUME NEW kind \in {"gga", "vtg", "other"}, NEW n \in 1..Sources, NEW fixed \in BOOLEAN
    PROVE  Sentence(kind, n, fixed) \in Seq(Segment)
<1>1. n \in Val /\ 0 \in Val /\ -1 \in Val
  BY GpsAssumption DEF Val
<1>2. \A f : GgaVal(n, fixed, f) \in Val /\ VtgVal(n, fixed, f) \in Val
  BY <1>1 DEF GgaVal, VtgVal
<1>3. \A x \in Names, v \in Val : [is |-> x, val |-> v] \in Segment
  BY DEF Segment
<1>4. {"$gga", "$vtg", "$other", "csum"} \subseteq Names
  BY DEF Names
<1>5. CASE kind = "gga"
  <2> DEFINE f == [j \in 1..15 |-> [is |-> GgaLayout[j], val |-> GgaVal(n, fixed, GgaLayout[j])]]
  <2>1. \A j \in 1..15 : GgaLayout[j] \in Names
    BY DEF Names
  <2>2. \A j \in 1..15 : f[j] \in Segment
    BY <1>2, <1>3, <2>1
  <2>3. f \in Seq(Segment)
    BY <2>2
  <2>4. <<[is |-> "$gga", val |-> n]>> \in Seq(Segment)
    BY <1>1, <1>3, <1>4
  <2> QED
    BY <1>5, <2>3, <2>4 DEF Sentence
<1>6. CASE kind = "vtg"
  <2> DEFINE f == [j \in 1..10 |-> [is |-> VtgLayout[j], val |-> VtgVal(n, fixed, VtgLayout[j])]]
  <2>1. \A j \in 1..10 : VtgLayout[j] \in Names
    BY DEF Names
  <2>2. \A j \in 1..10 : f[j] \in Segment
    BY <1>2, <1>3, <2>1
  <2>3. f \in Seq(Segment)
    BY <2>2
  <2>4. <<[is |-> "$vtg", val |-> n]>> \in Seq(Segment)
    BY <1>1, <1>3, <1>4
  <2> QED
    BY <1>6, <2>3, <2>4 DEF Sentence
<1>7. CASE kind = "other"
  <2>1. Sentence(kind, n, fixed) = <<[is |-> "$other", val |-> n], [is |-> "csum", val |-> n]>>
    BY <1>7 DEF Sentence
  <2>2. [is |-> "$other", val |-> n] \in Segment /\ [is |-> "csum", val |-> n] \in Segment
    BY <1>1, <1>3, <1>4
  <2> QED
    BY <2>1, <2>2
<1> QED
  BY <1>5, <1>6, <1>7

(* Every variable is in its type initially. *)
LEMMA InitType == Init => TypeInv
<1> SUFFICES ASSUME Init PROVE TypeInv
  OBVIOUS
<1>1. 0 \in Val
  BY GpsAssumption DEF Val
<1>2. NoGga \in [GgaFields -> Val] /\ NoVtg \in [VtgFields -> Val]
  BY <1>1 DEF NoGga, NoVtg
<1>3. turn \in [kind : {"gga", "vtg", "other"}, n : 1..Sources]
  BY GpsAssumption DEF Init
<1> QED
  BY <1>1, <1>2, <1>3, GpsAssumption DEF Init, TypeInv, TypeOK

(* The slot the parser is at is one of the three kinds. *)
LEMMA SlotKind ==
    ASSUME what \in Kinds, k \in 1..Size(what)
    PROVE  Slot.part \in {"whole", "number", "unit"}
<1>1. SlotFits(what, k - 1, k)
  BY SlotsFit
<1>2. Slot = SlotsOf(what)[k]
  BY DEF Slot, Slots, SlotsOf
<1> QED
  BY <1>1, <1>2 DEF SlotFits

(* The same, of the sentence being parsed. *)
LEMMA SlotsLen == what \in Kinds => Len(Slots) = Size(what)
  BY SlotCount DEF Slots, SlotsOf

(* An assignment leaves the data in its type. *)
LEMMA AssignType ==
    ASSUME NEW f, NEW v \in Val, Assign(f, v),
           gga \in [GgaFields -> Val], vtg \in [VtgFields -> Val]
    PROVE  gga' \in [GgaFields -> Val] /\ vtg' \in [VtgFields -> Val]
  BY DEF Assign

(* A segment taken from the front. *)
LEMMA TakeType ==
    ASSUME TypeInv, Take
    PROVE  /\ line # <<>> /\ Head(line) \in Segment
           /\ line' \in Seq(Segment) /\ Len(line') <= Room
           /\ buffered' \in 0..Len(line')
<1>1. line # <<>> /\ Len(line) > 0
  BY DEF TypeInv, TypeOK, Take
<1> QED
  BY <1>1, GpsAssumption DEF TypeInv, TypeOK, Take

(* Every step leaves every variable in its type. *)
LEMMA NextType == IInv /\ TypeInv /\ [Next]_vars => TypeInv'
<1> SUFFICES ASSUME IInv, TypeInv, [Next]_vars PROVE TypeInv'
  OBVIOUS
<1>1. 0 \in Val /\ -1 \in Val /\ NoGga \in [GgaFields -> Val] /\ NoVtg \in [VtgFields -> Val]
  <2>1. 0 \in Val /\ -1 \in Val
    BY GpsAssumption DEF Val
  <2> QED
    BY <2>1 DEF NoGga, NoVtg
<1>2. CASE Refill
  BY <1>2 DEF Refill, TypeInv, TypeOK, sender, Slots
<1>3. CASE Hunt
  <2>1. /\ line' \in Seq(Segment) /\ Len(line') <= Room /\ buffered' \in 0..Len(line')
    BY <1>3, TakeType DEF Hunt
  <2>2. mode' \in {"hunt", "lock"} /\ what' \in {"gga", "vtg"}
    BY <1>3 DEF Hunt, TypeInv, TypeOK
  <2>3. ask' \in 1..Room
    BY <1>3 DEF Hunt, Take, TypeInv, TypeOK
  <2> QED
    BY <1>3, <2>1, <2>2, <2>3 DEF Hunt, TypeInv, TypeOK, sender
<1>4. CASE Lock
  <2>1. k' \in 1..Len(Slots)'
    BY <1>4, SlotsLen DEF Lock, TypeInv, TypeOK, Kinds, Size, Slots
  <2> QED
    BY <1>4, <2>1 DEF Lock, TypeInv, TypeOK, sender
<1>5. CASE Parse
  <2>1. /\ line' \in Seq(Segment) /\ Len(line') <= Room /\ buffered' \in 0..Len(line')
        /\ Head(line) \in Segment
    BY <1>5, TakeType DEF Parse
  <2>2. what \in Kinds /\ k \in 1..Size(what) /\ Len(Slots) = Size(what)
    BY <1>5, SlotsLen DEF Parse, TypeInv, TypeOK, Kinds
  <2>3. Head(line).val \in Val /\ WithUnit(Head(line)) \in Val
    BY <2>1, <1>1 DEF Segment, WithUnit, TypeInv, TypeOK
  <2>4. gga' \in [GgaFields -> Val] /\ vtg' \in [VtgFields -> Val] /\ acc' \in Val
    <3>1. CASE Slot.part = "whole"
      <4>1. Assign(Slot.to, Head(line).val) /\ acc' = acc
        BY <1>5, <3>1 DEF Parse
      <4> QED
        BY <4>1, <2>3, AssignType DEF TypeInv, TypeOK
    <3>2. CASE Slot.part = "number"
      BY <1>5, <3>2, <2>3 DEF Parse, TypeInv, TypeOK
    <3>3. CASE Slot.part = "unit"
      <4>1. Assign(Slot.to, WithUnit(Head(line))) /\ acc' = 0
        BY <1>5, <3>3 DEF Parse
      <4> QED
        BY <4>1, <2>3, <1>1, AssignType DEF TypeInv, TypeOK
    <3> QED
      BY <2>2, <3>1, <3>2, <3>3, SlotKind
  <2>5. what' = what /\ Len(Slots)' = Len(Slots)
    BY <1>5 DEF Parse, Slots
  <2>6. mode' \in {"hunt", "lock", "parse"} /\ lock' \in {"free", "gps", "reader"}
        /\ (k' \in 1..Len(Slots)' \/ mode' # "parse")
    <3>1. CASE k = Len(Slots)
      BY <1>5, <3>1 DEF Parse, Leave
    <3>2. CASE k # Len(Slots)
      <4>1. k' = k + 1 /\ UNCHANGED <<lock, mode>>
        BY <1>5, <3>2 DEF Parse
      <4>2. k \in 1..Len(Slots) /\ Len(Slots) \in Nat
        BY <2>2 DEF Size
      <4>3. k' \in 1..Len(Slots)'
        BY <3>2, <4>1, <4>2, <2>5
      <4> QED
        BY <4>1, <4>3 DEF TypeInv, TypeOK
    <3> QED
      BY <3>1, <3>2
  <2>7. ask' \in 1..Room
    BY <1>5 DEF Parse, Take, TypeInv, TypeOK
  <2> QED
    BY <1>5, <2>1, <2>4, <2>5, <2>6, <2>7 DEF Parse, TypeInv, TypeOK, sender
<1>6. CASE Bad
  <2>1. /\ line' \in Seq(Segment) /\ Len(line') <= Room /\ buffered' \in 0..Len(line')
    BY <1>6, TakeType DEF Bad, Keep, TypeInv, TypeOK
  <2>2. gga' \in [GgaFields -> Val] /\ vtg' \in [VtgFields -> Val] /\ acc' \in Val
    BY <1>6, <1>1 DEF Bad, TypeInv, TypeOK
  <2>3. ask' \in 1..Room
    BY <1>6 DEF Bad, Take, Keep, TypeInv, TypeOK
  <2> QED
    BY <1>6, <2>1, <2>2, <2>3 DEF Bad, Leave, TypeInv, TypeOK, sender
<1>7. CASE Reader
  BY <1>7 DEF Reader, Want, ReaderLock, ReaderGive, parser, sender, TypeInv, TypeOK, Slots
<1>8. CASE Compose
  <2>1. turn.kind \in {"gga", "vtg", "other"} /\ turn.n \in 1..Sources
    BY DEF TypeInv, TypeOK
  <2>2. tosend' \in Seq(Segment)
    BY <1>8, <2>1, SentenceType DEF Compose
  <2>3. turn' \in [kind : {"gga", "vtg", "other"}, n : 1..Sources]
    <3>1. (turn.n % Sources) + 1 \in 1..Sources
      BY <2>1, GpsAssumption
    <3> QED
      BY <1>8, <2>1, <3>1 DEF Compose, NextTurn, TypeInv, TypeOK
  <2> QED
    BY <1>8, <2>2, <2>3 DEF Compose, parser, TypeInv, TypeOK, Slots
<1>9. CASE Send
  <2>1. Head(tosend) \in Segment /\ tosend' \in Seq(Segment)
    BY <1>9 DEF Send, TypeInv
  <2>2. line' \in Seq(Segment) /\ Len(line') = Len(line) + 1 /\ Len(line') <= Room
    BY <1>9, <2>1, GpsAssumption DEF Send, TypeInv
  <2> QED
    BY <1>9, <2>1, <2>2 DEF Send, parser, TypeInv, TypeOK, Slots
<1>10. CASE Overrun
  <2>1. tosend' \in Seq(Segment)
    BY <1>10 DEF Overrun, TypeInv
  <2>2. line' \in Seq(Segment) /\ Len(line') = Len(line)
    <3>1. CASE line' = [line EXCEPT ![Room] = [is |-> "junk", val |-> @.val]]
      <4>1. Room \in 1..Len(line) /\ line[Room] \in Segment
        BY <1>10, GpsAssumption DEF Overrun, TypeInv
      <4>2. line[Room].val \in Val /\ "junk" \in Names
        BY <4>1 DEF Segment, Names
      <4>3. [is |-> "junk", val |-> line[Room].val] \in Segment
        BY <4>2 DEF Segment
      <4> QED
        BY <3>1, <4>1, <4>3 DEF TypeInv
    <3> QED
      BY <1>10, <3>1 DEF Overrun, TypeInv
  <2>3. lost' \in 0..MaxLost
    BY <1>10, GpsAssumption DEF Overrun, TypeInv, TypeOK
  <2> QED
    BY <1>10, <2>1, <2>2, <2>3 DEF Overrun, parser, TypeInv, TypeOK, Slots
<1>11. CASE Restart
  BY <1>11, <1>1, GpsAssumption DEF Restart, sender, TypeInv, TypeOK
<1>12. CASE UNCHANGED vars
  BY <1>12 DEF vars, parser, sender, TypeInv, TypeOK, Slots
<1> QED
  BY <1>2, <1>3, <1>4, <1>5, <1>6, <1>7, <1>8, <1>9, <1>10, <1>11, <1>12
  DEF Next, Task, Environment

(* The task never leaves the bounds of its buffers and tables: the parser   *)
(* is always at a slot of the sentence it parses, and what the buffer of    *)
(* ch() says it holds is never more than was received.                     *)
THEOREM TypeCorrect == Spec => []TypeOK
<1>1. TypeInv => TypeOK
  BY DEF TypeInv
<1>2. Init => TypeInv /\ IInv
  BY InitType, InitIInv
<1>3. TypeInv /\ IInv /\ [Next]_vars => TypeInv' /\ IInv'
  BY NextType, NextIInv
<1> QED
  BY <1>1, <1>2, <1>3, PTL DEF Spec

(* What is still to be parsed, in order: what was received, and the rest   *)
(* of the sentence that is being sent.                                     *)
Stream == line \o tosend

(* segment j of a sentence *)
Seg(w, n, fixed, j) ==
    [is |-> Layout(w)[j], val |-> ValOf(w, n, fixed, Layout(w)[j])]

(* the name of a sentence is followed by all of it *)
Announced(S) ==
    \A i \in 1..Len(S) : \A w \in Kinds :
        S[i].is = Dollar(w) =>
            \E n \in 1..Sources, fixed \in BOOLEAN : \A j \in 1..Size(w) :
                i + j <= Len(S) /\ S[i + j] = Seg(w, n, fixed, j)

(* S begins with the rest of a sentence, from segment a *)
Rest(S, w, a, n, fixed) ==
    \A j \in a..Size(w) :
        (j - a) + 1 <= Len(S) /\ S[(j - a) + 1] = Seg(w, n, fixed, j)

Data(w) == IF w = "gga" THEN gga ELSE vtg

(* the slots before a hold what the sentence said *)
Holds(d, w, j, n, fixed) ==
    (SlotsOf(w)[j].part # "number" /\ SlotsOf(w)[j].to \in Fields(w)) =>
        d[SlotsOf(w)[j].to] = ValOf(w, n, fixed, SlotsOf(w)[j].to)
Stored(w, j, n, fixed) == Holds(Data(w), w, j, n, fixed)
Pending(w, j, n, fixed) ==
    SlotsOf(w)[j].part = "number" => acc = ValOf(w, n, fixed, SlotsOf(w)[j].to)
Parsed(w, a, n, fixed) ==
    /\ \A j \in 1..(a - 1) : Stored(w, j, n, fixed)
    /\ a > 1 => Pending(w, a - 1, n, fixed)

(* While nothing is lost: every sentence in the stream is whole, what waits *)
(* for the mutex is about to parse one from its beginning, what parses is   *)
(* as far in the stream as in its slots, and the data it is not filling is *)
(* that of one sentence.                                                   *)
CInv ==
    lost = 0 =>
        /\ Announced(Stream)
        /\ mode = "lock" =>
              \E n \in 1..Sources, fixed \in BOOLEAN : Rest(Stream, what, 1, n, fixed)
        /\ mode = "parse" =>
              \E n \in 1..Sources, fixed \in BOOLEAN :
                  Rest(Stream, what, k, n, fixed) /\ Parsed(what, k, n, fixed)
        /\ gga \in WholeGga \/ (mode = "parse" /\ what = "gga")
        /\ vtg \in WholeVtg \/ (mode = "parse" /\ what = "vtg")

(* A stream without its first segments announces no less. *)
LEMMA Suffix ==
    ASSUME NEW S \in Seq(Segment), NEW T \in Seq(Segment), NEW d \in Nat,
           Len(T) = Len(S) - d, \A i \in 1..Len(T) : T[i] = S[i + d],
           Announced(S)
    PROVE  Announced(T)
<1> SUFFICES ASSUME NEW i \in 1..Len(T), NEW w \in Kinds, T[i].is = Dollar(w)
             PROVE  \E n \in 1..Sources, fixed \in BOOLEAN : \A j \in 1..Size(w) :
                        i + j <= Len(T) /\ T[i + j] = Seg(w, n, fixed, j)
  BY DEF Announced
<1>1. i + d \in 1..Len(S) /\ S[i + d].is = Dollar(w)
  OBVIOUS
<1>2. PICK n \in 1..Sources, fixed \in BOOLEAN : \A j \in 1..Size(w) :
          (i + d) + j <= Len(S) /\ S[(i + d) + j] = Seg(w, n, fixed, j)
  BY <1>1 DEF Announced
<1>3. ASSUME NEW j \in 1..Size(w)
      PROVE  i + j <= Len(T) /\ T[i + j] = Seg(w, n, fixed, j)
  <2>1. j \in Nat /\ j >= 1 /\ (i + d) + j <= Len(S) /\ S[(i + d) + j] = Seg(w, n, fixed, j)
    BY <1>2 DEF Size
  <2>2. i + j \in 1..Len(T)
    BY <2>1
  <2>3. T[i + j] = S[(i + j) + d] /\ (i + j) + d = (i + d) + j
    BY <2>1, <2>2
  <2> QED
    BY <2>1, <2>2, <2>3
<1> QED
  BY <1>3

(* A segment taken: the rest of the sentence begins one segment later. *)
LEMMA SuffixRest ==
    ASSUME NEW S \in Seq(Segment), NEW T \in Seq(Segment),
           Len(T) = Len(S) - 1, \A i \in 1..Len(T) : T[i] = S[i + 1],
           NEW w \in Kinds, NEW a \in 1..Size(w), NEW n, NEW fixed,
           Rest(S, w, a, n, fixed)
    PROVE  Rest(T, w, a + 1, n, fixed)
<1> SUFFICES ASSUME NEW j \in (a + 1)..Size(w)
             PROVE  /\ (j - (a + 1)) + 1 <= Len(T)
                    /\ T[(j - (a + 1)) + 1] = Seg(w, n, fixed, j)
  BY DEF Rest
<1>1. j \in a..Size(w) /\ j \in Int /\ a \in Int
  BY DEF Size
<1>2. (j - a) + 1 <= Len(S) /\ S[(j - a) + 1] = Seg(w, n, fixed, j)
  BY <1>1 DEF Rest
<1>3. j - a \in 1..Len(T) /\ (j - (a + 1)) + 1 = j - a
  BY <1>1, <1>2
<1> QED
  BY <1>2, <1>3

(* The stream is made of segments. *)
LEMMA StreamType ==
    TypeInv => Stream \in Seq(Segment) /\ Len(Stream) = Len(line) + Len(tosend)
  BY DEF TypeInv, Stream

(* Taking a segment takes it from the front of the stream. *)
LEMMA StreamTake ==
    ASSUME TypeInv, Take, tosend' = tosend
    PROVE  /\ Stream' \in Seq(Segment) /\ Len(Stream') = Len(Stream) - 1 /\ Len(Stream) > 0
           /\ \A i \in 1..Len(Stream') : Stream'[i] = Stream[i + 1]
           /\ Head(line) = Stream[1]
<1>1. line # <<>> /\ Len(line) > 0 /\ line \in Seq(Segment) /\ tosend \in Seq(Segment)
  BY DEF TypeInv, TypeOK, Take
<1>2. line' = Tail(line)
  BY DEF Take
<1> QED
  BY <1>1, <1>2 DEF Stream

(* Sending a segment leaves the stream as it is. *)
LEMMA StreamSend ==
    ASSUME TypeInv, Send
    PROVE  Stream' = Stream
<1>1. tosend # <<>> /\ line \in Seq(Segment) /\ tosend \in Seq(Segment)
  BY DEF TypeInv, Send
<1>2. line' = Append(line, Head(tosend)) /\ tosend' = Tail(tosend)
  BY DEF Send
<1>3. Head(tosend) \in Segment /\ Tail(tosend) \in Seq(Segment)
  BY <1>1
<1> QED
  BY <1>1, <1>2, <1>3 DEF Stream

(* The name of a sentence, its segments, and no other name among them. *)
LEMMA SentenceSegments ==
    ASSUME NEW w \in Kinds, NEW n \in 1..Sources, NEW fixed \in BOOLEAN
    PROVE  /\ Len(Sentence(w, n, fixed)) = Size(w) + 1
           /\ Sentence(w, n, fixed)[1].is = Dollar(w)
           /\ \A j \in 1..Size(w) : Sentence(w, n, fixed)[j + 1] = Seg(w, n, fixed, j)
<1>1. CASE w = "gga"
  <2> DEFINE f == [j \in 1..15 |-> [is |-> GgaLayout[j], val |-> GgaVal(n, fixed, GgaLayout[j])]]
             d == [is |-> "$gga", val |-> n]
  <2>1. Sentence(w, n, fixed) = <<d>> \o f /\ Size(w) = 15
    BY <1>1 DEF Sentence, Size
  <2>2. \A j \in 1..15 : f[j] = Seg(w, n, fixed, j)
    BY <1>1 DEF Seg, Layout, ValOf
  <2>3. Len(f) = 15 /\ d.is = Dollar(w)
    BY <1>1 DEF Dollar
  <2>4. /\ Len(<<d>> \o f) = 16 /\ (<<d>> \o f)[1] = d
        /\ \A j \in 1..15 : (<<d>> \o f)[j + 1] = f[j]
    OBVIOUS
  <2> HIDE DEF d, f
  <2>5. \A j \in 1..Size(w) : Sentence(w, n, fixed)[j + 1] = Seg(w, n, fixed, j)
    BY <2>1, <2>2, <2>4
  <2>6. Len(Sentence(w, n, fixed)) = Size(w) + 1 /\ Sentence(w, n, fixed)[1] = d
    BY <2>1, <2>4
  <2> QED
    BY <2>3, <2>5, <2>6
<1>2. CASE w = "vtg"
  <2> DEFINE f == [j \in 1..10 |-> [is |-> VtgLayout[j], val |-> VtgVal(n, fixed, VtgLayout[j])]]
             d == [is |-> "$vtg", val |-> n]
  <2>1. Sentence(w, n, fixed) = <<d>> \o f /\ Size(w) = 10
    BY <1>2 DEF Sentence, Size
  <2>2. \A j \in 1..10 : f[j] = Seg(w, n, fixed, j)
    BY <1>2 DEF Seg, Layout, ValOf
  <2>3. Len(f) = 10 /\ d.is = Dollar(w)
    BY <1>2 DEF Dollar
  <2>4. /\ Len(<<d>> \o f) = 11 /\ (<<d>> \o f)[1] = d
        /\ \A j \in 1..10 : (<<d>> \o f)[j + 1] = f[j]
    OBVIOUS
  <2> HIDE DEF d, f
  <2>5. \A j \in 1..Size(w) : Sentence(w, n, fixed)[j + 1] = Seg(w, n, fixed, j)
    BY <2>1, <2>2, <2>4
  <2>6. Len(Sentence(w, n, fixed)) = Size(w) + 1 /\ Sentence(w, n, fixed)[1] = d
    BY <2>1, <2>4
  <2> QED
    BY <2>3, <2>5, <2>6
<1> QED
  BY <1>1, <1>2 DEF Kinds

(* No segment of a sentence is the name of one. *)
LEMMA NoName ==
    ASSUME NEW w \in Kinds, NEW j \in 1..Size(w), NEW n, NEW fixed, NEW v \in Kinds
    PROVE  Seg(w, n, fixed, j).is # Dollar(v)
<1>1. Dollar(v) \in {"$gga", "$vtg"}
  BY DEF Dollar
<1>2. Layout(w)[j] \notin {"$gga", "$vtg"}
  <2>1. CASE w = "gga"
    BY <2>1 DEF Size, Layout, GgaLayout
  <2>2. CASE w = "vtg"
    BY <2>2 DEF Size, Layout, VtgLayout
  <2> QED
    BY <2>1, <2>2 DEF Kinds
<1>3. Seg(w, n, fixed, j).is = Layout(w)[j]
  BY DEF Seg
<1> QED
  BY <1>1, <1>2, <1>3

(* A sentence behind a stream is announced by its own name only. *)
LEMMA ComposeAnnounced ==
    ASSUME NEW S \in Seq(Segment), NEW kind \in {"gga", "vtg", "other"},
           NEW n \in 1..Sources, NEW fixed \in BOOLEAN, Announced(S)
    PROVE  Announced(S \o Sentence(kind, n, fixed))
<1> DEFINE A == Sentence(kind, n, fixed)
           T == S \o A
<1>1. A \in Seq(Segment) /\ T \in Seq(Segment) /\ Len(T) = Len(S) + Len(A)
  BY SentenceType
<1>2. /\ \A i \in 1..Len(S) : T[i] = S[i]
      /\ \A i \in 1..Len(A) : T[Len(S) + i] = A[i]
  BY <1>1
<1>3. \A i \in 1..Len(T) : i \in 1..Len(S) \/ i - Len(S) \in 1..Len(A)
  BY <1>1
<1> HIDE DEF T, A
<1> SUFFICES ASSUME NEW i \in 1..Len(T), NEW w \in Kinds, T[i].is = Dollar(w)
             PROVE  \E m \in 1..Sources, fx \in BOOLEAN : \A j \in 1..Size(w) :
                        i + j <= Len(T) /\ T[i + j] = Seg(w, m, fx, j)
  BY DEF Announced, T, A
<1>4. CASE i \in 1..Len(S)
  <2>1. S[i].is = Dollar(w)
    BY <1>2, <1>4
  <2>2. PICK m \in 1..Sources, fx \in BOOLEAN : \A j \in 1..Size(w) :
            i + j <= Len(S) /\ S[i + j] = Seg(w, m, fx, j)
    BY <1>4, <2>1 DEF Announced
  <2>3. ASSUME NEW j \in 1..Size(w)
        PROVE  i + j <= Len(T) /\ T[i + j] = Seg(w, m, fx, j)
    <3>1. i + j <= Len(S) /\ S[i + j] = Seg(w, m, fx, j) /\ i + j \in 1..Len(S)
      BY <2>2, <1>4 DEF Size
    <3> QED
      BY <3>1, <1>1, <1>2
  <2> QED
    BY <2>3
<1>5. CASE i - Len(S) \in 1..Len(A)
  <2> DEFINE b == i - Len(S)
  <2>1. b \in 1..Len(A) /\ i = Len(S) + b /\ A[b].is = Dollar(w)
    BY <1>2, <1>5
  <2>2. CASE kind = "other"
    <3>1. A = <<[is |-> "$other", val |-> n], [is |-> "csum", val |-> n]>>
      BY <2>2 DEF A, Sentence
    <3>2. A[b].is \in {"$other", "csum"}
      BY <2>1, <3>1
    <3>3. Dollar(w) \in {"$gga", "$vtg"}
      BY DEF Dollar
    <3> QED
      BY <2>1, <3>2, <3>3
  <2>3. CASE kind \in Kinds
    <3>1. /\ Len(A) = Size(kind) + 1 /\ A[1].is = Dollar(kind)
          /\ \A j \in 1..Size(kind) : A[j + 1] = Seg(kind, n, fixed, j)
      BY <2>3, SentenceSegments DEF A
    <3>2. b = 1
      <4> SUFFICES ASSUME b # 1 PROVE FALSE
        OBVIOUS
      <4>1. b - 1 \in 1..Size(kind) /\ b = (b - 1) + 1
        BY <2>1, <3>1 DEF Size
      <4>2. A[b] = Seg(kind, n, fixed, b - 1)
        BY <3>1, <4>1
      <4> QED
        BY <2>1, <2>3, <4>1, <4>2, NoName
    <3>3. kind = w
      BY <2>1, <2>3, <3>1, <3>2 DEF Kinds, Dollar
    <3>4. ASSUME NEW j \in 1..Size(w)
          PROVE  i + j <= Len(T) /\ T[i + j] = Seg(w, n, fixed, j)
      <4>1. Size(w) \in Nat /\ Len(A) = Size(w) + 1 /\ i = Len(S) + 1
        BY <3>1, <3>2, <3>3, <2>1 DEF Size
      <4>2. j + 1 \in 1..Len(A) /\ i + j = Len(S) + (j + 1) /\ i + j <= Len(T)
        BY <4>1, <1>1
      <4> QED
        BY <1>2, <3>1, <3>3, <4>2
    <3> QED
      BY <3>4
  <2> QED
    BY <2>2, <2>3 DEF Kinds
<1> QED
  BY <1>4, <1>5, <1>3

(* What an assignment does to the data being filled, and to the other. *)
LEMMA AssignData ==
    ASSUME TypeInv, what' = what, NEW f, NEW v, Assign(f, v)
    PROVE  /\ f \in Fields(what) => Data(what)'[f] = v
           /\ \A g \in Fields(what) \ {f} : Data(what)'[g] = Data(what)[g]
           /\ what = "gga" => vtg' = vtg
           /\ what = "vtg" => gga' = gga
<1>1. CASE what = "gga"
  <2>1. gga' = IF f \in GgaFields THEN [gga EXCEPT ![f] = v] ELSE gga
    BY <1>1 DEF Assign
  <2>2. vtg' = vtg
    BY <1>1 DEF Assign
  <2>3. gga \in [GgaFields -> Val]
    BY DEF TypeInv, TypeOK
  <2>4. /\ f \in GgaFields => gga'[f] = v
        /\ \A g \in GgaFields \ {f} : gga'[g] = gga[g]
    BY <2>1, <2>3
  <2> QED
    BY <1>1, <2>2, <2>4 DEF Data, Fields
<1>2. CASE what = "vtg"
  <2>1. vtg' = IF f \in VtgFields THEN [vtg EXCEPT ![f] = v] ELSE vtg
    BY <1>2 DEF Assign
  <2>2. gga' = gga
    BY <1>2 DEF Assign
  <2>3. vtg \in [VtgFields -> Val]
    BY DEF TypeInv, TypeOK
  <2>4. /\ f \in VtgFields => vtg'[f] = v
        /\ \A g \in VtgFields \ {f} : vtg'[g] = vtg[g]
    BY <2>1, <2>3
  <2> QED
    BY <1>2, <2>2, <2>4 DEF Data, Fields
<1> QED
  BY <1>1, <1>2 DEF TypeInv, TypeOK

(* A number and its unit come to what the sentence said. *)
LEMMA UnitMeans ==
    ASSUME TypeInv, what \in Kinds, k \in 1..Size(what),
           NEW n \in 1..Sources, NEW fixed \in BOOLEAN,
           Slot.part = "unit", Parsed(what, k, n, fixed)
    PROVE  WithUnit(Seg(what, n, fixed, k)) = ValOf(what, n, fixed, Slot.to)
<1>1. Slot = SlotsOf(what)[k]
  BY DEF Slot, Slots, SlotsOf
<1>2. UnitFits(what, k - 1, k)
  BY <1>1, SlotsFit DEF SlotFits
<1>3. k - 1 # 0 /\ k \in Int
  BY <1>2 DEF UnitFits, Size
<1>4. Pending(what, k - 1, n, fixed)
  BY <1>3 DEF Parsed, Size
<1>5. acc = ValOf(what, n, fixed, Slot.to)
  BY <1>1, <1>2, <1>4 DEF Pending, UnitFits
<1>6. CASE Slot.unit = ""
  BY <1>5, <1>6 DEF WithUnit
<1>7. CASE Slot.unit # ""
  <2> DEFINE u == Layout(what)[k]
             g == Seg(what, n, fixed, k)
  <2>1. LetterFits(what, k)
    BY <1>1, <1>7, SlotsFit DEF SlotFits
  <2>2. Slot.unit = u /\ u \in {"T", "M", "N", "K"}
        /\ Slot.to \in {"alt", "undulation", "course_measured",
                        "course_magnetic", "knots", "speed_km"}
    BY <1>1, <2>1 DEF LetterFits
  <2>3. g.is = u /\ g.val = ValOf(what, n, fixed, u)
    BY DEF Seg
  <2> HIDE DEF u, g
  <2>4. WithUnit(g) = IF g.val # 0 THEN acc ELSE 0
    BY <1>7, <2>2, <2>3 DEF WithUnit
  <2>5. n # 0
    BY GpsAssumption
  <2>6. CASE fixed = TRUE
    <3>1. ValOf(what, n, TRUE, u) = n
      BY <2>2, UnitVal, ZenonT(30)
    <3> QED
      BY <1>5, <2>3, <2>4, <2>5, <2>6, <3>1 DEF g
  <2>7. CASE fixed = FALSE
    <3>1. ValOf(what, n, FALSE, u) = 0 /\ ValOf(what, n, FALSE, Slot.to) = 0
      BY <2>2, UnitVal, ZenonT(30)
    <3> QED
      BY <2>3, <2>4, <2>7, <3>1 DEF g
  <2> QED
    BY <2>6, <2>7
<1> QED
  BY <1>6, <1>7

(* A segment parsed: one slot more holds what the sentence said. *)
LEMMA ParseSlot ==
    ASSUME TypeInv, Parse, NEW n \in 1..Sources, NEW fixed \in BOOLEAN, NEW a, a = k,
           Rest(Stream, what, k, n, fixed), Parsed(what, k, n, fixed)
    PROVE  /\ \A j \in 1..k : Stored(what, j, n, fixed)'
           /\ Pending(what, a, n, fixed)'
           /\ what = "gga" => vtg' = vtg
           /\ what = "vtg" => gga' = gga
<1> DEFINE seg == Head(line)
           f == Slot.to
<1>1. what \in Kinds /\ k \in 1..Size(what) /\ what' = what /\ Take /\ tosend' = tosend
  BY SlotsLen DEF Parse, TypeInv, TypeOK, Kinds, sender
<1>2. Slot = SlotsOf(what)[k] /\ Slot = SlotsOf(what)[a]
  BY DEF Slot, Slots, SlotsOf
<1>3. seg = Seg(what, n, fixed, k)
  <2>1. k \in k..Size(what) /\ (k - k) + 1 = 1
    BY <1>1 DEF Size
  <2> QED
    BY <1>1, <2>1, StreamTake DEF Rest
<1>4. seg.is = Layout(what)[k] /\ seg.val = ValOf(what, n, fixed, Layout(what)[k])
  BY <1>3 DEF Seg
<1>5. SlotFits(what, k - 1, k)
  BY <1>1, SlotsFit
<1>6. Slot.part # "unit" => Layout(what)[k] = f
  BY <1>2, <1>5 DEF SlotFits
<1>7. \A j \in 1..(k - 1) : Stored(what, j, n, fixed)
  BY DEF Parsed
<1>8. ASSUME Assign(f, ValOf(what, n, fixed, f)), Slot.part # "number"
      PROVE  /\ \A j \in 1..k : Stored(what, j, n, fixed)'
             /\ Pending(what, a, n, fixed)'
             /\ what = "gga" => vtg' = vtg
             /\ what = "vtg" => gga' = gga
  <2>1. /\ f \in Fields(what) => Data(what)'[f] = ValOf(what, n, fixed, f)
        /\ \A g \in Fields(what) \ {f} : Data(what)'[g] = Data(what)[g]
        /\ what = "gga" => vtg' = vtg
        /\ what = "vtg" => gga' = gga
    BY <1>1, <1>8, AssignData
  <2>2. ASSUME NEW j \in 1..k PROVE Stored(what, j, n, fixed)'
    <3>1. j = k \/ j \in 1..(k - 1)
      BY <1>1 DEF Size
    <3> DEFINE g == SlotsOf(what)[j].to
    <3>2. CASE g = f
      BY <1>1, <2>1, <3>2 DEF Stored, Holds
    <3>3. CASE g # f
      <4>1. j \in 1..(k - 1)
        BY <1>2, <3>1, <3>3
      <4> QED
        BY <1>1, <1>7, <2>1, <3>3, <4>1 DEF Stored, Holds
    <3> QED
      BY <3>2, <3>3
  <2>3. Pending(what, a, n, fixed)'
    BY <1>1, <1>2, <1>8 DEF Pending
  <2> QED
    BY <2>1, <2>2, <2>3
<1>9. CASE Slot.part = "whole"
  <2>1. Assign(f, seg.val)
    BY <1>9 DEF Parse
  <2> QED
    BY <1>4, <1>6, <1>8, <1>9, <2>1
<1>10. CASE Slot.part = "number"
  <2>1. acc' = seg.val /\ gga' = gga /\ vtg' = vtg
    BY <1>10 DEF Parse
  <2>2. Data(what)' = Data(what)
    BY <1>1, <2>1 DEF Data
  <2>3. ASSUME NEW j \in 1..k PROVE Stored(what, j, n, fixed)'
    <3>1. j = k \/ j \in 1..(k - 1)
      BY <1>1 DEF Size
    <3>2. CASE j = k
      BY <1>1, <1>2, <1>10, <3>2 DEF Stored, Holds
    <3>3. CASE j \in 1..(k - 1)
      BY <1>1, <1>7, <2>2, <3>3 DEF Stored, Holds
    <3> QED
      BY <3>1, <3>2, <3>3
  <2>4. Pending(what, a, n, fixed)'
    BY <1>1, <1>2, <1>4, <1>6, <1>10, <2>1 DEF Pending
  <2> QED
    BY <2>1, <2>3, <2>4
<1>11. CASE Slot.part = "unit"
  <2>1. Assign(f, WithUnit(seg))
    BY <1>11 DEF Parse
  <2>2. WithUnit(seg) = ValOf(what, n, fixed, f)
    BY <1>1, <1>3, <1>11, UnitMeans
  <2> QED
    BY <1>8, <1>11, <2>1, <2>2
<1> QED
  BY <1>1, <1>9, <1>10, <1>11, SlotKind

(* All slots stored: the data is the sentence. *)
LEMMA AllStored ==
    ASSUME NEW w \in Kinds, NEW d \in [Fields(w) -> Val],
           NEW n \in 1..Sources, NEW fixed \in BOOLEAN,
           \A j \in 1..Size(w) : Holds(d, w, j, n, fixed)
    PROVE  d \in (IF w = "gga" THEN WholeGga ELSE WholeVtg)
<1>1. \A f \in Fields(w) : d[f] = ValOf(w, n, fixed, f)
  BY EveryField DEF Holds
<1>2. CASE w = "gga"
  <2>1. d = GgaOf(n, fixed)
    BY <1>1, <1>2 DEF Fields, ValOf, GgaOf
  <2> QED
    BY <1>2, <2>1 DEF WholeGga
<1>3. CASE w = "vtg"
  <2>1. d = VtgOf(n, fixed)
    BY <1>1, <1>3 DEF Fields, ValOf, VtgOf
  <2> QED
    BY <1>3, <2>1 DEF WholeVtg
<1> QED
  BY <1>2, <1>3 DEF Kinds

(* The invariant of the stream holds initially. *)
LEMMA InitCInv == Init => CInv
<1> SUFFICES ASSUME Init PROVE CInv
  OBVIOUS
<1>1. Stream = <<>>
  BY DEF Init, Stream
<1>2. Announced(Stream)
  BY <1>1 DEF Announced
<1> QED
  BY <1>2 DEF Init, CInv, WholeGga, WholeVtg

(* Parsing a segment keeps it: the slots before the next one hold what the *)
(* sentence said, and after the last one all of the data does.             *)
LEMMA ParseCInv == TypeInv /\ CInv /\ TypeInv' /\ Parse => CInv'
<1> SUFFICES ASSUME TypeInv, CInv, TypeInv', Parse, lost' = 0 PROVE CInv'
  BY DEF CInv
<1>1. /\ what \in Kinds /\ k \in 1..Size(what) /\ what' = what /\ Take
      /\ tosend' = tosend /\ lost = 0 /\ mode = "parse" /\ Len(Slots) = Size(what)
  BY SlotsLen DEF Parse, TypeInv, TypeOK, Kinds, sender
<1>2. PICK n \in 1..Sources, fixed \in BOOLEAN :
          Rest(Stream, what, k, n, fixed) /\ Parsed(what, k, n, fixed)
  BY <1>1 DEF CInv
<1>3. PICK a \in 1..Size(what) : a = k
  BY <1>1
<1>4. /\ \A j \in 1..k : Stored(what, j, n, fixed)'
      /\ Pending(what, a, n, fixed)'
      /\ what = "gga" => vtg' = vtg
      /\ what = "vtg" => gga' = gga
  BY <1>2, <1>3, ParseSlot
<1>5. Announced(Stream')
  BY <1>1, StreamType, StreamTake, Suffix DEF CInv
<1>6. what = "gga" => vtg' \in WholeVtg
  BY <1>1, <1>4 DEF CInv
<1>7. what = "vtg" => gga' \in WholeGga
  BY <1>1, <1>4 DEF CInv
<1>8. CASE k = Len(Slots)
  <2>1. mode' = "hunt"
    BY <1>8 DEF Parse, Leave
  <2> DEFINE d == IF what = "gga" THEN gga' ELSE vtg'
  <2>2. \A j \in 1..Size(what) : Holds(d, what, j, n, fixed)
    BY <1>1, <1>4, <1>8 DEF Stored, Data
  <2>3. d \in [Fields(what) -> Val]
    BY <1>1 DEF TypeInv, TypeOK, Fields, Kinds
  <2>4. d \in (IF what = "gga" THEN WholeGga ELSE WholeVtg)
    BY <1>1, <2>2, <2>3, AllStored
  <2>5. /\ what = "gga" => gga' \in WholeGga
        /\ what = "vtg" => vtg' \in WholeVtg
    BY <2>4
  <2> QED
    BY <1>1, <1>5, <1>6, <1>7, <2>1, <2>5 DEF CInv, Kinds
<1>9. CASE k # Len(Slots)
  <2>1. k' = a + 1 /\ mode' = "parse"
    BY <1>1, <1>3, <1>9 DEF Parse
  <2>2. Rest(Stream', what, a + 1, n, fixed)
    BY <1>1, <1>2, <1>3, StreamType, StreamTake, SuffixRest
  <2>3. Parsed(what, a + 1, n, fixed)'
    <3>1. (a + 1) - 1 = a
      BY <1>3 DEF Size
    <3> QED
      BY <1>3, <1>4, <3>1 DEF Parsed
  <2> QED
    BY <1>1, <1>5, <1>6, <1>7, <2>1, <2>2, <2>3 DEF CInv, Kinds
<1> QED
  BY <1>8, <1>9

(* Skipping a segment keeps it: what is locked for is the sentence named. *)
LEMMA HuntCInv == TypeInv /\ CInv /\ Hunt => CInv'
<1> SUFFICES ASSUME TypeInv, CInv, Hunt, lost' = 0 PROVE CInv'
  BY DEF CInv
<1>1. /\ Take /\ tosend' = tosend /\ lost = 0 /\ mode = "hunt"
      /\ gga' = gga /\ vtg' = vtg /\ mode' \in {"hunt", "lock"}
  BY DEF Hunt, sender
<1>2. /\ Stream \in Seq(Segment) /\ Stream' \in Seq(Segment)
      /\ Len(Stream') = Len(Stream) - 1 /\ Len(Stream) > 0
      /\ \A i \in 1..Len(Stream') : Stream'[i] = Stream[i + 1]
      /\ Head(line) = Stream[1]
  BY <1>1, StreamType, StreamTake
<1>3. Announced(Stream')
  BY <1>1, <1>2, Suffix DEF CInv
<1>4. ASSUME mode' = "lock"
      PROVE  \E n \in 1..Sources, fixed \in BOOLEAN : Rest(Stream', what', 1, n, fixed)
  <2>1. what' \in Kinds /\ Stream[1].is = Dollar(what')
    BY <1>1, <1>2, <1>4 DEF Hunt, Kinds, Dollar
  <2>2. 1 \in 1..Len(Stream)
    BY <1>2
  <2>3. PICK n \in 1..Sources, fixed \in BOOLEAN : \A j \in 1..Size(what') :
            1 + j <= Len(Stream) /\ Stream[1 + j] = Seg(what', n, fixed, j)
    BY <1>1, <2>1, <2>2 DEF CInv, Announced
  <2>4. ASSUME NEW j \in 1..Size(what')
        PROVE  (j - 1) + 1 <= Len(Stream') /\ Stream'[(j - 1) + 1] = Seg(what', n, fixed, j)
    <3>1. j \in Nat /\ j >= 1 /\ (j - 1) + 1 = j
      BY DEF Size
    <3>2. 1 + j <= Len(Stream) /\ Stream[1 + j] = Seg(what', n, fixed, j)
      BY <2>3
    <3>3. j \in 1..Len(Stream')
      BY <1>2, <3>1, <3>2
    <3> QED
      BY <1>2, <3>1, <3>2, <3>3
  <2> QED
    BY <2>4 DEF Rest
<1> QED
  BY <1>1, <1>3, <1>4 DEF CInv

(* What the parser and the stream leave as it is. *)
LEMMA StillCInv ==
    CInv /\ Stream' = Stream /\ UNCHANGED <<mode, what, k, acc, gga, vtg, lost>> => CInv'
  BY DEF CInv, Rest, Parsed, Stored, Holds, Pending, Data

(* Every step keeps it. *)
LEMMA NextCInv == IInv /\ TypeInv /\ CInv /\ [Next]_vars => CInv'
<1> SUFFICES ASSUME IInv, TypeInv, CInv, TypeInv', [Next]_vars, lost' = 0 PROVE CInv'
  BY NextType DEF CInv
<1>1. lost = 0
  <2>1. lost' = lost \/ lost' = lost + 1
    BY DEF Next, Task, Environment, Reader, Refill, Hunt, Lock, Parse, Bad, Want, ReaderLock,
           ReaderGive, Compose, Send, Overrun, Restart, vars, sender
  <2> QED
    BY <2>1 DEF TypeInv, TypeOK
<1>2. CASE Refill
  BY <1>2, StillCInv DEF Refill, Stream, sender
<1>3. CASE Hunt
  BY <1>3, HuntCInv
<1>4. CASE Lock
  <2>1. PICK n \in 1..Sources, fixed \in BOOLEAN : Rest(Stream, what, 1, n, fixed)
    BY <1>1, <1>4 DEF Lock, CInv
  <2>2. Stream' = Stream /\ what' = what /\ k' = 1 /\ mode' = "parse" /\ gga' = gga /\ vtg' = vtg
        /\ mode = "lock"
    BY <1>4 DEF Lock, Stream, sender
  <2>3. Parsed(what, 1, n, fixed)'
    BY DEF Parsed
  <2>4. Rest(Stream', what', k', n, fixed) /\ Announced(Stream')
    BY <1>1, <2>1, <2>2 DEF CInv
  <2>5. (Rest(Stream, what, k, n, fixed) /\ Parsed(what, k, n, fixed))'
    BY <2>2, <2>3, <2>4
  <2>6. gga \in WholeGga /\ vtg \in WholeVtg
    BY <1>1, <2>2 DEF CInv
  <2> QED
    BY <2>2, <2>4, <2>5, <2>6 DEF CInv
<1>5. CASE Parse
  BY <1>5, ParseCInv
<1>6. CASE Bad
  <2>1. PICK n \in 1..Sources, fixed \in BOOLEAN : Rest(Stream, what, k, n, fixed)
    BY <1>1, <1>6 DEF Bad, CInv
  <2>2. what \in Kinds /\ k \in 1..Size(what)
    BY <1>6, SlotsLen DEF Bad, TypeInv, TypeOK, Kinds
  <2>3. Slot = SlotsOf(what)[k]
    BY DEF Slot, Slots, SlotsOf
  <2>4. Layout(what)[k] = Slot.to
    BY <1>6, <2>2, <2>3, SlotsFit DEF Bad, SlotFits
  <2>5. line # <<>> /\ Head(line) = Stream[1]
    <3>1. line \in Seq(Segment) /\ tosend \in Seq(Segment)
      BY DEF TypeInv
    <3>2. buffered \in 0..Len(line) /\ buffered > 0
      BY <1>6 DEF Bad, TypeInv, TypeOK
    <3>3. Len(line) \in Nat /\ Len(line) > 0
      BY ONLY <3>1, <3>2
    <3>4. Head(line) = (line \o tosend)[1] /\ line # <<>>
      BY ONLY <3>1, <3>3
    <3> QED
      BY <3>4 DEF Stream
  <2>6. k \in k..Size(what) /\ (k - k) + 1 = 1
    BY <2>2 DEF Size
  <2>7. Head(line) = Seg(what, n, fixed, k)
    BY <2>1, <2>5, <2>6 DEF Rest
  <2>8. Head(line).is = Layout(what)[k]
    BY <2>7 DEF Seg
  <2>9. Head(line).is = Slot.to
    BY <2>4, <2>8
  <2> QED
    BY <1>6, <2>9 DEF Bad
<1>7. CASE Reader
  <2>1. UNCHANGED <<line, parser, sender>>
    BY <1>7 DEF Reader, Want, ReaderLock, ReaderGive
  <2> QED
    BY <2>1, StillCInv DEF Stream, parser, sender
<1>8. CASE Compose
  <2>1. turn.kind \in {"gga", "vtg", "other"} /\ turn.n \in 1..Sources
    BY DEF TypeInv, TypeOK
  <2>2. PICK fixed \in BOOLEAN : tosend' = Sentence(turn.kind, turn.n, fixed)
    BY <1>8 DEF Compose
  <2> DEFINE A == Sentence(turn.kind, turn.n, fixed)
  <2>3. Stream = line /\ Stream' = Stream \o A /\ A \in Seq(Segment) /\ line \in Seq(Segment)
    BY <1>8, <2>1, <2>2, SentenceType DEF Compose, Stream, TypeInv
  <2>4. Announced(Stream')
    BY <1>1, <2>1, <2>3, ComposeAnnounced DEF CInv
  <2>5. ASSUME NEW n \in 1..Sources, NEW fx \in BOOLEAN, NEW b \in Nat, b >= 1,
               Rest(Stream, what, b, n, fx)
        PROVE  Rest(Stream', what, b, n, fx)
    <3> SUFFICES ASSUME NEW j \in b..Size(what)
                 PROVE  /\ (j - b) + 1 <= Len(Stream')
                        /\ Stream'[(j - b) + 1] = Seg(what, n, fx, j)
      BY DEF Rest
    <3>1. (j - b) + 1 <= Len(Stream) /\ Stream[(j - b) + 1] = Seg(what, n, fx, j)
      BY <2>5 DEF Rest
    <3>2. (j - b) + 1 \in 1..Len(Stream)
      BY <3>1, <2>3 DEF Size
    <3> QED
      BY <2>3, <3>1, <3>2
  <2>6. UNCHANGED <<mode, what, k, acc, gga, vtg, lost>>
    BY <1>8 DEF Compose, parser
  <2>7. mode = "lock" =>
            \E n \in 1..Sources, fx \in BOOLEAN : Rest(Stream', what, 1, n, fx)
    BY <1>1, <2>5 DEF CInv
  <2>8. mode = "parse" =>
            \E n \in 1..Sources, fx \in BOOLEAN :
                Rest(Stream', what, k, n, fx) /\ Parsed(what, k, n, fx)
    <3>1. mode = "parse" => k \in 1..Len(Slots) /\ what \in Kinds
      BY DEF TypeInv, TypeOK, Kinds
    <3>2. what \in Kinds => Size(what) \in Nat
      BY DEF Kinds, Size
    <3>3. mode = "parse" => k \in 1..Size(what) /\ Size(what) \in Nat
      BY <3>1, <3>2, SlotsLen
    <3>4. mode = "parse" => k \in Nat /\ k >= 1
      BY ONLY <3>3
    <3> QED
      BY <1>1, <2>5, <3>4 DEF CInv
  <2> QED
    BY <1>1, <2>4, <2>6, <2>7, <2>8 DEF CInv, Rest, Parsed, Stored, Holds, Pending, Data
<1>9. CASE Send
  BY <1>9, StreamSend, StillCInv DEF Send, parser
<1>10. CASE Overrun
  BY <1>1, <1>10 DEF Overrun, TypeInv, TypeOK
<1>11. CASE Restart
  <2>1. Stream' = tosend /\ mode' = "hunt" /\ gga' = NoGga /\ vtg' = NoVtg
    BY <1>11 DEF Restart, Stream, sender, TypeInv
  <2>2. Announced(Stream')
    <3>1. line \in Seq(Segment) /\ tosend \in Seq(Segment) /\ Stream = line \o tosend
      BY DEF TypeInv, Stream
    <3>2. /\ Len(line) \in Nat /\ Len(tosend) = Len(Stream) - Len(line)
          /\ \A i \in 1..Len(tosend) : tosend[i] = Stream[i + Len(line)]
      BY <3>1
    <3> QED
      BY <1>1, <2>1, <3>1, <3>2, StreamType, Suffix DEF CInv
  <2> QED
    BY <2>1, <2>2 DEF CInv, WholeGga, WholeVtg
<1>12. CASE UNCHANGED vars
  BY <1>12, StillCInv DEF vars, parser, sender, Stream
<1> QED
  BY <1>2, <1>3, <1>4, <1>5, <1>6, <1>7, <1>8, <1>9, <1>10, <1>11, <1>12
  DEF Next, Task, Environment

(* While nothing is lost, the number zero is in the quality only: every    *)
(* other field is blank or has the number of its sentence, also in the     *)
(* middle of one.                                                          *)
Present ==
    lost = 0 =>
        /\ \A f \in GgaFields \ {"quality"} : gga[f] # -1
        /\ \A f \in VtgFields : vtg[f] # -1

(* What the receiver sends has the number zero in the quality only. *)
LEMMA ValPresent ==
    ASSUME NEW w \in Kinds, NEW n \in 1..Sources, NEW fixed \in BOOLEAN, NEW f,
           w = "gga" => f # "quality"
    PROVE  ValOf(w, n, fixed, f) # -1
<1>1. n # -1
  BY GpsAssumption
<1> QED
  BY <1>1 DEF ValOf, GgaVal, VtgVal, Kinds

(* An assignment of a number that is not zero, or of the quality. *)
LEMMA AssignPresent ==
    ASSUME TypeInv, Present, NEW f, NEW v, Assign(f, v), what \in Kinds, lost' = lost,
           (what = "gga" => f # "quality") => v # -1
    PROVE  Present'
<1>1. gga \in [GgaFields -> Val] /\ vtg \in [VtgFields -> Val]
  BY DEF TypeInv, TypeOK
<1>2. CASE what = "gga"
  <2>1. gga' = (IF f \in GgaFields THEN [gga EXCEPT ![f] = v] ELSE gga) /\ vtg' = vtg
    BY <1>2 DEF Assign
  <2>2. ASSUME NEW g \in GgaFields \ {"quality"}, gga[g] # -1 PROVE gga'[g] # -1
    BY <1>1, <1>2, <2>1, <2>2
  <2> QED
    BY <2>1, <2>2 DEF Present
<1>3. CASE what = "vtg"
  <2>1. vtg' = (IF f \in VtgFields THEN [vtg EXCEPT ![f] = v] ELSE vtg) /\ gga' = gga
    BY <1>3 DEF Assign
  <2>2. ASSUME NEW g \in VtgFields, vtg[g] # -1 PROVE vtg'[g] # -1
    BY <1>1, <1>3, <2>1, <2>2
  <2> QED
    BY <2>1, <2>2 DEF Present
<1> QED
  BY <1>2, <1>3 DEF Kinds

(* A segment parsed brings a number zero to the quality only. *)
LEMMA ParsePresent == TypeInv /\ CInv /\ Present /\ Parse => Present'
<1> SUFFICES ASSUME TypeInv, CInv, Present, Parse PROVE Present'
  OBVIOUS
<1>1. what \in Kinds /\ k \in 1..Size(what) /\ mode = "parse" /\ Take
      /\ lost' = lost /\ tosend' = tosend
  BY SlotsLen DEF Parse, TypeInv, TypeOK, Kinds, sender
<1>2. CASE lost # 0
  BY <1>1, <1>2 DEF Present
<1>3. CASE lost = 0
  <2>1. PICK n \in 1..Sources, fixed \in BOOLEAN :
            Rest(Stream, what, k, n, fixed) /\ Parsed(what, k, n, fixed)
    BY <1>1, <1>3 DEF CInv
  <2> DEFINE seg == Head(line)
             f == Slot.to
  <2>2. seg = Seg(what, n, fixed, k)
    <3>1. k \in k..Size(what) /\ (k - k) + 1 = 1
      BY <1>1 DEF Size
    <3>2. Stream[(k - k) + 1] = Seg(what, n, fixed, k)
      BY <2>1, <3>1 DEF Rest
    <3>3. seg = Stream[1]
      BY <1>1, StreamTake
    <3> QED
      BY <3>1, <3>2, <3>3
  <2>3. seg.val = ValOf(what, n, fixed, Layout(what)[k])
    BY <2>2 DEF Seg
  <2>4. Slot = SlotsOf(what)[k]
    BY DEF Slot, Slots, SlotsOf
  <2>5. Slot.part # "unit" => Layout(what)[k] = f
    BY <1>1, <2>4, SlotsFit DEF SlotFits
  <2>6. (what = "gga" => f # "quality") => ValOf(what, n, fixed, f) # -1
    BY <1>1, <2>1, ValPresent
  <2>7. CASE Slot.part = "whole"
    <3>1. Assign(f, ValOf(what, n, fixed, f))
      BY <2>3, <2>5, <2>7 DEF Parse
    <3> QED
      BY <1>1, <2>6, <3>1, AssignPresent
  <2>8. CASE Slot.part = "number"
    <3>1. gga' = gga /\ vtg' = vtg
      BY <2>8 DEF Parse
    <3> QED
      BY <1>1, <3>1 DEF Present
  <2>9. CASE Slot.part = "unit"
    <3>1. Assign(f, WithUnit(seg))
      BY <2>9 DEF Parse
    <3>2. WithUnit(seg) = ValOf(what, n, fixed, f)
      BY <1>1, <2>1, <2>2, <2>9, UnitMeans
    <3>3. Assign(f, ValOf(what, n, fixed, f))
      BY <3>1, <3>2
    <3> QED
      BY <1>1, <2>6, <3>3, AssignPresent
  <2> QED
    BY <1>1, <2>7, <2>8, <2>9, SlotKind
<1> QED
  BY <1>2, <1>3

(* Every step keeps the number zero out of the other fields. *)
LEMMA NextPresent == TypeInv /\ CInv /\ Present /\ [Next]_vars => Present'
<1> SUFFICES ASSUME TypeInv, CInv, Present, [Next]_vars PROVE Present'
  OBVIOUS
<1>1. (\A f \in GgaFields : NoGga[f] # -1) /\ (\A f \in VtgFields : NoVtg[f] # -1)
  BY DEF NoGga, NoVtg
<1>2. CASE Refill \/ Hunt \/ Lock
  BY <1>2 DEF Refill, Hunt, Lock, Present, sender
<1>3. CASE Parse
  BY <1>3, ParsePresent
<1>4. CASE Bad
  BY <1>1, <1>4 DEF Bad, Present, sender
<1>5. CASE Reader \/ Compose \/ Send
  BY <1>5 DEF Reader, Want, ReaderLock, ReaderGive, Compose, Send, Present, parser, sender
<1>6. CASE Overrun
  BY <1>6 DEF Overrun, Present, TypeInv, TypeOK
<1>7. CASE Restart
  BY <1>1, <1>7 DEF Restart, Present
<1>8. CASE UNCHANGED vars
  BY <1>8 DEF vars, parser, sender, Present
<1> QED
  BY <1>2, <1>3, <1>4, <1>5, <1>6, <1>7, <1>8 DEF Next, Task, Environment

(* All of it holds in every reachable state. *)
THEOREM Invariance == Spec => [](IInv /\ TypeInv /\ CInv /\ Present)
<1>1. Init => Present
  BY DEF Init, Present, NoGga, NoVtg
<1>2. Init => IInv /\ TypeInv /\ CInv
  BY InitIInv, InitType, InitCInv
<1>3. IInv /\ TypeInv /\ CInv /\ Present /\ [Next]_vars
        => IInv' /\ TypeInv' /\ CInv' /\ Present'
  BY NextIInv, NextType, NextCInv, NextPresent
<1> QED
  BY <1>1, <1>2, <1>3, PTL DEF Spec

(* What parse_gga() and parse_vtg() of GPS.hpp leave in the data is one     *)
(* whole sentence each, while no character is lost: every parse function   *)
(* consumes as many segments as the receiver sends for its field, blank or *)
(* not, through every refill of the buffer and a restart in any place.     *)
THEOREM WholeSentences == Spec => []Coherent
<1>1. IInv /\ CInv => Coherent
  BY DEF IInv, MutexHeld, CInv, Coherent
<1> QED
  BY <1>1, Invariance, PTL
=============================================================================
