-------------------------- MODULE CommTaskProofs --------------------------
(***************************************************************************)
(* Proofs about CommTask, for every number of descriptors, every largest   *)
(* parcel number, every noise and every number of failures: the invariants *)
(* of the runs that do not concern the contents of the stream, and that    *)
(* the task implements Session.                                            *)
(*                                                                         *)
(* The invariant adds to the stated properties what carries them from step *)
(* to step: where the parcel counter stands against the number last        *)
(* written, which half of the position the package has, and that nobody    *)
(* but the GPS task leaves a fix half written.                             *)
(***************************************************************************)
EXTENDS CommTask, SequenceTheorems, FiniteSetTheorems, TLAPS

(* establish() and the loop: hello, the counter and the number written *)
Numbered ==
    /\ pc \in {"package", "window"} \cup Building => ~hello
    /\ pc \in {"socket", "connect", "adopt", "hello"} => hello
    /\ pc \in Reading /\ hello => wire = 0
    /\ Online /\ pc \notin Building => i = wire
    /\ pc \in Building => i = Abstract!NextNumber(wire)

(* the package against the data, and the data against the lock *)
Positioned ==
    /\ lock # "gps" => fix \in GivenFix
    /\ pc \in {"lock", "position"} => pkt = NoPacket
    /\ pc = "position2" => pkt.lat = fix.lat
    /\ PositionWhole

(* what is known of the answer while it is read *)
Measured ==
    /\ pc = "head" => goal = HeadLen
    /\ pc = "rest" => goal >= HeadLen

IInv ==
    /\ TypeOK
    /\ FdsOwned
    /\ RewoundBeforeReading
    /\ LockBrief
    /\ Numbered
    /\ Positioned
    /\ Measured
-----------------------------------------------------------------------------
(* A set with 0 in it, and with every number the next one, has them all:   *)
(* the numbers up to one that is missing could be counted down for ever.   *)
LEMMA SetInduction ==
    ASSUME NEW S, 0 \in S, \A n \in Nat : n \in S => n + 1 \in S
    PROVE  Nat \subseteq S
<1> SUFFICES ASSUME NEW m \in Nat, m \notin S PROVE FALSE
  OBVIOUS
<1> DEFINE B == {n \in 0..m : n \notin S}
<1>1. \A n \in B : n # 0 /\ n - 1 \in B
  OBVIOUS
<1>2. m \in B
  OBVIOUS
<1>3. IsFiniteSet(B)
  <2>1. B \in SUBSET Nat /\ \A n \in B : n <= m
    OBVIOUS
  <2> QED
    BY <2>1, FS_BoundedSetOfNaturals
<1>4. B \subseteq Int /\ \A n \in B : n <= m
  OBVIOUS
<1> HIDE DEF B
<1> DEFINE f == [n \in B |-> n - 1]
<1>5. f \in Injection(B, B)
  BY <1>1, <1>4 DEF Injection, IsInjective
<1>6. f \in Surjection(B, B)
  BY <1>3, <1>5, FS_Injection
<1>7. PICK n \in B : f[n] = m
  BY <1>2, <1>6 DEF Surjection
<1> QED
  BY <1>4, <1>7

(* The function FlattenSeq() computes: what the first i sequences come to. *)
Flats(g, q, n) == g = [j \in 1..n |-> IF j = 1 THEN q[j] ELSE g[j-1] \o q[j]]

(* There is such a function, for every sequence. *)
LEMMA FlatsExists ==
    ASSUME NEW q, NEW n \in Nat \ {0}
    PROVE  \E g : Flats(g, q, n)
<1> DEFINE K == {k \in Nat : \E g : Flats(g, q, k + 1)}
<1>1. 0 \in K
  <2> DEFINE g == [j \in 1..1 |-> q[j]]
  <2>1. g = [j \in 1..1 |-> IF j = 1 THEN q[j] ELSE g[j-1] \o q[j]]
    OBVIOUS
  <2>2. 0 + 1 = 1
    OBVIOUS
  <2> HIDE DEF g
  <2> QED
    BY <2>1, <2>2 DEF Flats
<1>2. ASSUME NEW k \in Nat, k \in K PROVE k + 1 \in K
  <2>1. PICK g : Flats(g, q, k + 1)
    BY <1>2
  <2> DEFINE h == [j \in 1..(k + 2) |-> IF j <= k + 1 THEN g[j] ELSE g[k + 1] \o q[k + 2]]
  <2>2. ASSUME NEW j \in 1..(k + 2) PROVE h[j] = IF j = 1 THEN q[j] ELSE h[j-1] \o q[j]
    <3>1. CASE j <= k + 1
      <4>1. j \in 1..(k + 1) /\ h[j] = g[j] /\ (j # 1 => j - 1 \in 1..(k + 2) /\ h[j - 1] = g[j - 1])
        BY <3>1
      <4>2. g[j] = IF j = 1 THEN q[j] ELSE g[j-1] \o q[j]
        BY <2>1, <4>1 DEF Flats
      <4> QED
        BY <4>1, <4>2
    <3>2. CASE j = k + 2
      <4>1. h[j] = g[k + 1] \o q[k + 2] /\ h[j - 1] = g[k + 1] /\ j # 1
        <5>1. k + 2 \in 1..(k + 2) /\ k + 1 \in 1..(k + 2) /\ ~(k + 2 <= k + 1) /\ k + 1 <= k + 1
              /\ (k + 2) - 1 = k + 1 /\ k + 2 # 1
          OBVIOUS
        <5>2. h[k + 2] = g[k + 1] \o q[k + 2] /\ h[k + 1] = g[k + 1]
          BY <5>1
        <5> HIDE DEF h
        <5> QED
          BY <3>2, <5>1, <5>2
      <4> QED
        BY <3>2, <4>1
    <3> QED
      BY <3>1, <3>2
  <2>3. h = [j \in 1..(k + 2) |-> IF j = 1 THEN q[j] ELSE h[j-1] \o q[j]]
    <3>1. h = [j \in 1..(k + 2) |-> h[j]]
      OBVIOUS
    <3> HIDE DEF h
    <3> QED
      BY <2>2, <3>1
  <2>4. (k + 1) + 1 = k + 2 /\ k + 1 \in Nat
    OBVIOUS
  <2> HIDE DEF h
  <2> QED
    BY <2>3, <2>4 DEF Flats
<1>3. Nat \subseteq K
  <2> HIDE DEF K
  <2> QED
    BY <1>1, <1>2, SetInduction
<1>4. n - 1 \in Nat /\ (n - 1) + 1 = n
  OBVIOUS
<1> QED
  BY <1>3, <1>4

(* It does not depend on what comes behind. *)
LEMMA FlatsAgree ==
    ASSUME NEW q, NEW p, NEW n \in Nat \ {0}, NEW m \in Nat, n <= m,
           \A j \in 1..n : p[j] = q[j], NEW g, NEW h, Flats(g, q, n), Flats(h, p, m)
    PROVE  \A j \in 1..n : g[j] = h[j]
<1> DEFINE K == {k \in Nat : k + 1 \in 1..n => g[k + 1] = h[k + 1]}
<1>0. \A j \in 1..n : g[j] = IF j = 1 THEN q[j] ELSE g[j-1] \o q[j]
  BY DEF Flats
<1>7. \A j \in 1..n : h[j] = IF j = 1 THEN p[j] ELSE h[j-1] \o p[j]
  <2>1. \A j \in 1..m : h[j] = IF j = 1 THEN p[j] ELSE h[j-1] \o p[j]
    BY DEF Flats
  <2>2. \A j \in 1..n : j \in 1..m
    OBVIOUS
  <2> QED
    BY <2>1, <2>2
<1>1. 0 \in K
  BY <1>0, <1>7
<1>2. ASSUME NEW k \in Nat, k \in K PROVE k + 1 \in K
  <2> SUFFICES ASSUME k + 2 \in 1..n PROVE g[k + 2] = h[k + 2]
    <3>1. (k + 1) + 1 = k + 2 /\ k + 1 \in Nat
      OBVIOUS
    <3> QED
      BY <3>1
  <2>1. k + 1 \in 1..n /\ g[k + 1] = h[k + 1] /\ (k + 2) - 1 = k + 1 /\ k + 2 # 1
    BY <1>2
  <2> QED
    BY <1>0, <1>7, <2>1
<1>3. Nat \subseteq K
  <2> HIDE DEF K
  <2> QED
    BY <1>1, <1>2, SetInduction
<1> SUFFICES ASSUME NEW j \in 1..n PROVE g[j] = h[j]
  OBVIOUS
<1>4. j - 1 \in K /\ (j - 1) + 1 = j
  BY <1>3
<1> QED
  BY <1>4

(* What FlattenSeq() is. *)
LEMMA FlattenIs ==
    ASSUME NEW q, Len(q) \in Nat \ {0}
    PROVE  \E g : Flats(g, q, Len(q)) /\ FlattenSeq(q) = g[Len(q)]
<1> DEFINE g == CHOOSE g : Flats(g, q, Len(q))
<1>1. Flats(g, q, Len(q))
  BY FlatsExists
<1>2. FlattenSeq(q) = g[Len(q)]
  BY DEF FlattenSeq, Flats
<1> QED
  BY <1>1, <1>2

(* A set of sequences.  (As a definition: the provers are slow with it open.) *)
Words(F, S) == F \subseteq Seq(S)

(* Of nothing it is nothing; of one more it has that one behind it. *)
LEMMA FlattenEmpty == FlattenSeq(<<>>) = <<>>
  BY DEF FlattenSeq

(* Of one more sequence it has that one behind it. *)
LEMMA FlattenAppend ==
    ASSUME NEW S, NEW F, Words(F, S), NEW q \in Seq(F), NEW e \in F
    PROVE  /\ FlattenSeq(q) \in Seq(S)
           /\ FlattenSeq(Append(q, e)) = FlattenSeq(q) \o e
<1> DEFINE n == Len(q)
           p == Append(q, e)
<1>1. n \in Nat /\ Len(p) = n + 1 /\ p[n + 1] = e /\ \A j \in 1..n : p[j] = q[j] /\ q[j] \in Seq(S)
  BY AppendProperties, ElementOfSeq DEF Words
<1>2. PICK h : Flats(h, p, n + 1) /\ FlattenSeq(p) = h[n + 1]
  <2>1. Len(p) \in Nat \ {0}
    BY <1>1
  <2> HIDE DEF p, n
  <2> QED
    BY <1>1, <2>1, FlattenIs
<1>3. CASE n = 0
  <2>1. q = <<>>
    BY <1>3, EmptySeq
  <2>2. FlattenSeq(q) = <<>>
    BY <2>1, FlattenEmpty
  <2>3. h[1] = p[1]
    BY <1>2, <1>3 DEF Flats
  <2> HIDE DEF p, n
  <2>4. FlattenSeq(p) = e
    BY <1>1, <1>2, <1>3, <2>3
  <2> QED
    BY <2>2, <2>4, ConcatEmptySeq, EmptySeq DEF p
<1>4. CASE n # 0
  <2>0. n \in Nat \ {0}
    BY <1>1, <1>4
  <2>1. PICK g : Flats(g, q, n) /\ FlattenSeq(q) = g[n]
    BY <1>1, <1>4, FlattenIs
  <2> HIDE DEF p, n
  <2>2. \A j \in 1..n : g[j] = h[j]
    <3>1. n + 1 \in Nat /\ n <= n + 1
      BY <2>0
    <3>2. \A j \in 1..n : p[j] = q[j]
      BY <1>1
    <3>3. Flats(g, q, n)
      BY <2>1
    <3>4. Flats(h, p, n + 1)
      BY <1>2
    <3> QED
      <4> DEFINE m == n + 1
      <4>1. m \in Nat /\ n <= m /\ Flats(h, p, m)
        BY <3>1, <3>4
      <4> HIDE DEF m
      <4> QED
        BY <2>0, <3>2, <3>3, <4>1, FlatsAgree, SMTT(30)
  <2>3. h[n + 1] = h[n] \o p[n + 1]
    <3>1. n + 1 \in 1..(n + 1) /\ n + 1 # 1 /\ (n + 1) - 1 = n
      BY <2>0
    <3> QED
      BY <1>2, <3>1 DEF Flats
  <2>4. n \in 1..n
    BY <2>0
  <2>5. FlattenSeq(p) = FlattenSeq(q) \o e
    BY <1>1, <1>2, <2>1, <2>2, <2>3, <2>4
  <2>6. g[n] \in Seq(S)
    <3> DEFINE K == {k \in Nat : k + 1 \in 1..n => g[k + 1] \in Seq(S)}
    <3>1. 0 \in K
      BY <1>1, <2>1 DEF Flats
    <3>2. ASSUME NEW k \in Nat, k \in K PROVE k + 1 \in K
      <4>1. (k + 1) + 1 = k + 2 /\ (k + 2) - 1 = k + 1 /\ k + 2 # 1
        OBVIOUS
      <4> SUFFICES ASSUME k + 2 \in 1..n PROVE g[k + 2] \in Seq(S)
        BY <4>1
      <4>2. g[k + 2] = g[k + 1] \o q[k + 2]
        BY <2>1, <4>1 DEF Flats
      <4>3. k + 1 \in 1..n /\ g[k + 1] \in Seq(S) /\ q[k + 2] \in Seq(S)
        BY <1>1, <3>2
      <4> QED
        BY <4>2, <4>3, ConcatProperties
    <3>3. Nat \subseteq K
      <4> HIDE DEF K
      <4> QED
        BY <3>1, <3>2, SetInduction
    <3>4. n - 1 \in Nat /\ (n - 1) + 1 = n
      BY <2>0
    <3>5. n - 1 \in K
      BY <3>3, <3>4
    <3> QED
      BY <2>4, <3>4, <3>5
  <2> QED
    BY <2>1, <2>5, <2>6 DEF p
<1> QED
  BY <1>3, <1>4

(* The first one stands in front of the others: of one, of one more. *)
LEMMA FlattenHeadOne ==
    ASSUME NEW S, NEW F, Words(F, S), NEW q \in Seq(F), Len(q) = 1
    PROVE  FlattenSeq(q) = Head(q) \o FlattenSeq(Tail(q))
<1>0. q[1] \in F
  OBVIOUS
<1>1. Head(q) = q[1]
  OBVIOUS
<1>2. Tail(q) = <<>>
  <2>1. q # <<>>
    OBVIOUS
  <2>2. Tail(q) = SubSeq(q, 2, 1)
    BY <2>1, TailIsSubSeq
  <2> QED
    BY <2>2, SubSeqEmpty
<1>3. q = Append(<<>>, q[1])
  BY <1>0
<1>4. <<>> \in Seq(F)
  OBVIOUS
<1>5. FlattenSeq(Append(<<>>, q[1])) = FlattenSeq(<<>>) \o q[1]
  BY <1>0, <1>4, FlattenAppend, ZenonT(30)
<1>6. q[1] \in Seq(S)
  BY <1>0 DEF Words
<1>7. <<>> \o q[1] = q[1] /\ q[1] \o <<>> = q[1]
  BY <1>6, ConcatEmptySeq
<1> QED
  BY <1>1, <1>2, <1>3, <1>5, <1>7, FlattenEmpty

(* If it does of some, it does of one more. *)
LEMMA FlattenHeadMore ==
    ASSUME NEW S, NEW F, Words(F, S), NEW f \in Seq(F), Len(f) # 0, NEW e \in F
    PROVE  FlattenSeq(f) = Head(f) \o FlattenSeq(Tail(f))
           => FlattenSeq(Append(f, e)) = Head(Append(f, e)) \o FlattenSeq(Tail(Append(f, e)))
<1>1. Head(f) \in F
  OBVIOUS
<1>2. Tail(f) \in Seq(F)
  OBVIOUS
<1>3. FlattenSeq(Append(f, e)) = FlattenSeq(f) \o e
  BY FlattenAppend
<1>4. FlattenSeq(Append(Tail(f), e)) = FlattenSeq(Tail(f)) \o e
  BY <1>2, FlattenAppend, ZenonT(30)
<1>5. FlattenSeq(Tail(f)) \in Seq(S)
  BY <1>2, FlattenAppend
<1>6. Head(f) \in Seq(S) /\ e \in Seq(S)
  BY <1>1 DEF Words
<1>7. Head(Append(f, e)) = Head(f) /\ Tail(Append(f, e)) = Append(Tail(f), e)
  OBVIOUS
<1> DEFINE x == Head(f)
           y == FlattenSeq(Tail(f))
<1>8. x \in Seq(S) /\ y \in Seq(S)
  BY <1>5, <1>6
<1> HIDE DEF x, y
<1>9. (x \o y) \o e = x \o (y \o e)
  BY ONLY <1>6, <1>8, SMTT(30)
<1>10. Head(Append(f, e)) \o FlattenSeq(Tail(Append(f, e))) = x \o (y \o e)
  BY <1>4, <1>7 DEF x, y
<1> QED
  BY <1>3, <1>9, <1>10 DEF x, y

(* A sequence of two or more is a shorter one with an element behind it.   *)
LEMMA FrontAndLast ==
    ASSUME NEW F, NEW k \in Nat, NEW p \in Seq(F), Len(p) = k + 2
    PROVE  \E f \in Seq(F), e \in F : Len(f) = k + 1 /\ p = Append(f, e)
<1> DEFINE f == SubSeq(p, 1, k + 1)
           e == p[k + 2]
<1>1. f \in Seq(F) /\ Len(f) = k + 1
  OBVIOUS
<1>2. e \in F
  OBVIOUS
<1>3. p = Append(f, e)
  OBVIOUS
<1> QED
  BY <1>1, <1>2, <1>3

(* So it does of any number of sequences. *)
LEMMA FlattenHeadAll ==
    ASSUME NEW S, NEW F, Words(F, S)
    PROVE  \A k \in Nat : \A q \in Seq(F) :
               Len(q) = k + 1 => FlattenSeq(q) = Head(q) \o FlattenSeq(Tail(q))
<1> DEFINE Good(q) == FlattenSeq(q) = Head(q) \o FlattenSeq(Tail(q))
           K == {k \in Nat : \A q \in Seq(F) : Len(q) = k + 1 => Good(q)}
<1>1. 0 \in K
  <2>1. \A q \in Seq(F) : Len(q) = 1 => Good(q)
    BY FlattenHeadOne
  <2>2. 0 + 1 = 1
    OBVIOUS
  <2> HIDE DEF Good
  <2> QED
    BY <2>1, <2>2
<1>2. ASSUME NEW k \in Nat, k \in K PROVE k + 1 \in K
  <2> SUFFICES ASSUME NEW q \in Seq(F), Len(q) = k + 2 PROVE Good(q)
    <3>1. (k + 1) + 1 = k + 2 /\ k + 1 \in Nat
      OBVIOUS
    <3> HIDE DEF Good
    <3> QED
      BY <3>1
  <2>1. PICK f \in Seq(F), e \in F : Len(f) = k + 1 /\ q = Append(f, e)
    BY FrontAndLast
  <2>2. Good(f) /\ Len(f) # 0
    <3> HIDE DEF Good
    <3> QED
      BY <1>2, <2>1
  <2>3. Len(f) # 0 => (Good(f) => Good(Append(f, e)))
    BY FlattenHeadMore, ZenonT(30)
  <2> HIDE DEF Good
  <2> QED
    BY <2>1, <2>2, <2>3
<1>3. Nat \subseteq K
  <2> HIDE DEF K
  <2> QED
    BY <1>1, <1>2, SetInduction
<1> QED
  BY <1>3

(* Of one sequence or more it has the first one in front of the others'.   *)
LEMMA FlattenHead ==
    ASSUME NEW S, NEW F, Words(F, S), NEW q \in Seq(F), Len(q) # 0
    PROVE  /\ Head(q) \in F /\ Tail(q) \in Seq(F)
           /\ FlattenSeq(q) = Head(q) \o FlattenSeq(Tail(q))
<1>1. Head(q) \in F /\ Tail(q) \in Seq(F)
  OBVIOUS
<1>2. Len(q) - 1 \in Nat /\ (Len(q) - 1) + 1 = Len(q)
  OBVIOUS
<1>3. FlattenSeq(q) = Head(q) \o FlattenSeq(Tail(q))
  BY <1>2, FlattenHeadAll
<1> QED
  BY <1>1, <1>3
-----------------------------------------------------------------------------
(* The answers a correct server sends. *)
Frames == {Greeting, Command} \cup {Confirm(n) : n \in 1..MaxParcel}

(* What an answer is made of, as rest(), finish() and com_header2() look   *)
(* at it.                                                                  *)
Framing(f) ==
    /\ f \in Seq(Nat) /\ Len(f) > HeadLen
    /\ f[1] = 123 /\ Len(f) = HeadLen + RestLen(f[2]) /\ f[Len(f)] = 125

(* Behind what a sequence begins with, and at its end. *)
LEMMA InFront ==
    ASSUME NEW a \in Seq(Nat), NEW b \in Seq(Nat), NEW j \in 1..Len(a)
    PROVE  (a \o b)[j] = a[j]
<1>1. j \in 1..(Len(a) + Len(b)) /\ j <= Len(a)
  OBVIOUS
<1> QED
  BY <1>1, ConcatProperties

(* An answer's last byte behind the others, which stay what they were. *)
LEMMA Closed ==
    ASSUME NEW b \in Seq(Nat), Len(b) > 2
    PROVE  /\ b \o <<125>> \in Seq(Nat) /\ Len(b \o <<125>>) = Len(b) + 1
           /\ (b \o <<125>>)[1] = b[1] /\ (b \o <<125>>)[2] = b[2]
           /\ (b \o <<125>>)[3] = b[3] /\ (b \o <<125>>)[Len(b) + 1] = 125
<1>1. b \o <<125>> = Append(b, 125)
  OBVIOUS
<1>2. /\ Append(b, 125) \in Seq(Nat) /\ Len(Append(b, 125)) = Len(b) + 1
      /\ Append(b, 125)[Len(b) + 1] = 125
      /\ \A j \in 1..Len(b) : Append(b, 125)[j] = b[j]
  BY AppendProperties
<1>3. 1 \in 1..Len(b) /\ 2 \in 1..Len(b) /\ 3 \in 1..Len(b)
  OBVIOUS
<1> QED
  BY <1>1, <1>2, <1>3

(* An answer is whole frame from its start byte to its end byte, with the  *)
(* length its second byte announces: one without data, one with.           *)
LEMMA ShortFrame ==
    ASSUME NEW parcel \in Nat
    PROVE  Framing(Frame(parcel, <<>>))
<1> DEFINE h == <<123, 0, parcel>>
           f == h \o <<125>>
<1>1. h \in Seq(Nat) /\ Len(h) > 2
  OBVIOUS
<1>2. Len(h) = 3 /\ h[1] = 123 /\ h[2] = 0
  OBVIOUS
<1>3. Frame(parcel, <<>>) = (h \o <<>>) \o <<125>>
  BY DEF Frame
<1> HIDE DEF h
<1>4. Frame(parcel, <<>>) = f
  BY <1>1, <1>3, ConcatEmptySeq
<1>5. /\ f \in Seq(Nat) /\ Len(f) = Len(h) + 1
      /\ f[1] = h[1] /\ f[2] = h[2] /\ f[Len(h) + 1] = 125
  BY <1>1, Closed
<1> HIDE DEF f
<1>6. Len(f) = 4 /\ f[1] = 123 /\ f[2] = 0 /\ f[4] = 125
  BY <1>2, <1>5
<1>7. RestLen(0) = 1
  BY DEF RestLen
<1>8. f[Len(f)] = 125 /\ RestLen(f[2]) = 1
  BY <1>6, <1>7
<1>9. Len(f) > HeadLen /\ Len(f) = HeadLen + 1
  BY <1>6 DEF HeadLen
<1>10. Framing(f)
  <2>1. f \in Seq(Nat) /\ f[1] = 123
    BY <1>5, <1>6
  <2> QED
    BY <2>1, <1>8, <1>9 DEF Framing
<1> QED
  BY <1>4, <1>10

(* An answer with data, and what com_header2() looks at in it.             *)
LEMMA LongFrame ==
    ASSUME NEW parcel \in Nat, NEW data \in Seq(Nat), Len(data) # 0
    PROVE  /\ Framing(Frame(parcel, data))
           /\ Frame(parcel, data)[2] = Len(data) /\ Frame(parcel, data)[3] = parcel
<1> DEFINE m == Len(data)
           h == <<123, m, parcel>>
           d == <<0>> \o data
           b == h \o d
           f == b \o <<125>>
<1>1. Frame(parcel, data) = f
  BY DEF Frame
<1>2. m \in Nat \ {0}
  OBVIOUS
<1>3. h \in Seq(Nat) /\ Len(h) > 2
  BY <1>2
<1>4. Len(h) = 3 /\ h[1] = 123 /\ h[2] = m /\ h[3] = parcel
  OBVIOUS
<1>5. d \in Seq(Nat) /\ Len(d) = m + 1
  OBVIOUS
<1> HIDE DEF m, h, d
<1>6. b \in Seq(Nat) /\ Len(b) = Len(h) + Len(d)
  BY <1>3, <1>5, ConcatProperties
<1>7. b[1] = h[1] /\ b[2] = h[2] /\ b[3] = h[3]
  <2>1. 1 \in 1..Len(h) /\ 2 \in 1..Len(h) /\ 3 \in 1..Len(h)
    BY <1>3
  <2>2. d \in Seq(Nat)
    BY <1>5
  <2> QED
    BY <1>3, <2>1, <2>2, InFront
<1> HIDE DEF b
<1>8. Len(b) = m + 4 /\ Len(b) > 2
  BY <1>2, <1>4, <1>5, <1>6
<1>9. /\ f \in Seq(Nat) /\ Len(f) = Len(b) + 1
      /\ f[1] = b[1] /\ f[2] = b[2] /\ f[3] = b[3] /\ f[Len(b) + 1] = 125
  <2>1. Len(b) > 2
    BY <1>8
  <2> QED
    BY <1>6, <2>1, Closed, SMTT(30)
<1> HIDE DEF f
<1>10. Len(f) = m + 5 /\ f[1] = 123 /\ f[2] = m /\ f[3] = parcel /\ f[m + 5] = 125
  <2>1. f[1] = 123 /\ f[2] = m /\ f[3] = parcel
    BY <1>4, <1>7, <1>9
  <2>2. Len(b) + 1 = m + 5
    BY <1>2, <1>8
  <2> QED
    BY <1>9, <2>1, <2>2
<1>11. RestLen(m) = m + 2
  BY <1>2 DEF RestLen
<1>12. Framing(f)
  BY <1>2, <1>9, <1>10, <1>11 DEF Framing, HeadLen
<1> QED
  BY <1>1, <1>10, <1>12 DEF m

(* Every answer of the server is so framed, and the greeting has the time. *)
LEMMA FramesFraming ==
    /\ \A f \in Frames : Framing(f)
    /\ Greeting \in Frames /\ Greeting[2] = TimeLen /\ Greeting[3] = 0
<1>1. [k \in 1..TimeLen |-> 1] \in Seq(Nat) /\ Len([k \in 1..TimeLen |-> 1]) = TimeLen
  BY CommAssumption
<1>2. Framing(Greeting) /\ Greeting[2] = TimeLen /\ Greeting[3] = 0
  BY <1>1, LongFrame, CommAssumption DEF Greeting
<1>3. Framing(Command)
  <2>1. <<2>> \in Seq(Nat) /\ Len(<<2>>) # 0 /\ MaxParcel + 1 \in Nat
    BY CommAssumption
  <2> QED
    BY <2>1, LongFrame DEF Command
<1>4. \A n \in 1..MaxParcel : Framing(Confirm(n))
  BY ShortFrame DEF Confirm
<1> QED
  BY <1>2, <1>3, <1>4 DEF Frames

(* Every answer is a sequence of bytes. *)
LEMMA FramesWords == Words(Frames, Nat)
  BY FramesFraming DEF Words, Framing

(* Where two pairs of sequences meet. *)
LEMMA SameAhead ==
    ASSUME NEW a \in Seq(Nat), NEW b \in Seq(Nat), NEW c \in Seq(Nat), NEW d \in Seq(Nat),
           NEW j \in 1..Len(a), j <= Len(c)
    PROVE  a \o b = c \o d => a[j] = c[j]
<1>1. j \in 1..Len(c)
  OBVIOUS
<1>2. (a \o b)[j] = a[j]
  BY InFront
<1>3. (c \o d)[j] = c[j]
  BY <1>1, InFront
<1> QED
  BY <1>2, <1>3

(* Where two pairs of sequences meet and the first ones are as long.      *)
LEMMA SameParts ==
    ASSUME NEW a \in Seq(Nat), NEW b \in Seq(Nat), NEW c \in Seq(Nat), NEW d \in Seq(Nat),
           Len(a) = Len(c)
    PROVE  a \o b = c \o d => a = c /\ b = d
<1>1. a \o b = c \o d => \A j \in 1..Len(a) : a[j] = c[j]
  <2>1. \A j \in 1..Len(a) : j <= Len(c)
    OBVIOUS
  <2> QED
    BY <2>1, SameAhead
<1>2. a \o b = c \o d => a = c
  BY <1>1, SeqEqual
<1>3. a \o b = a \o d => b = d
  BY ConcatSimplifications
<1> QED
  BY <1>2, <1>3

(* How what is not yet read stands to the answers it belongs to: it is the *)
(* beginning of them, or all of them.                                      *)
Begun(u, q) == \E missing \in Seq(Nat) : u \o missing = FlattenSeq(q)
Complete(u, q) == u = FlattenSeq(q)

(* Nothing is all of nothing. *)
LEMMA NothingDue == Complete(<<>>, <<>>)
  BY FlattenEmpty DEF Complete

(* Answers one behind the other are bytes. *)
LEMMA FlattenType ==
    ASSUME NEW q \in Seq(Frames)
    PROVE  FlattenSeq(q) \in Seq(Nat)
<1>1. Greeting \in Frames
  BY FramesFraming
<1> QED
  BY <1>1, FramesWords, FlattenAppend

(* All of it is the beginning of it. *)
LEMMA CompleteBegun ==
    ASSUME NEW q \in Seq(Frames), NEW u
    PROVE  Complete(u, q) => Begun(u, q)
<1>1. FlattenSeq(q) \in Seq(Nat)
  BY FlattenType
<1>2. FlattenSeq(q) \o <<>> = FlattenSeq(q)
  BY <1>1, ConcatEmptySeq
<1>3. <<>> \in Seq(Nat)
  OBVIOUS
<1> QED
  BY <1>2, <1>3 DEF Complete, Begun

(* An answer more, to be read and due. *)
LEMMA Said ==
    ASSUME NEW q \in Seq(Frames), NEW f \in Frames, NEW u
    PROVE  Complete(u, q) => Complete(u \o f, Append(q, f))
<1>1. FlattenSeq(Append(q, f)) = FlattenSeq(q) \o f
  BY FramesWords, FlattenAppend
<1> QED
  BY <1>1 DEF Complete

(* Bytes in front of bytes in front of bytes. *)
LEMMA BytesAssociative ==
    ASSUME NEW x \in Seq(Nat), NEW y \in Seq(Nat), NEW z \in Seq(Nat)
    PROVE  (x \o y) \o z = x \o (y \o z)
  BY SMTT(30)

(* A beginning of the beginning. *)
LEMMA CutShort ==
    ASSUME NEW u \in Seq(Nat), NEW v \in Seq(Nat), NEW q
    PROVE  Begun(u \o v, q) => Begun(u, q)
<1> SUFFICES ASSUME NEW missing \in Seq(Nat)
             PROVE  (u \o v) \o missing = FlattenSeq(q) => Begun(u, q)
  BY DEF Begun
<1>1. (u \o v) \o missing = u \o (v \o missing)
  BY BytesAssociative, ZenonT(30)
<1>2. v \o missing \in Seq(Nat)
  BY ConcatProperties
<1> QED
  BY <1>1, <1>2 DEF Begun

(* What is read first is the first answer's. *)
LEMMA FirstBytes ==
    ASSUME NEW q \in Seq(Frames), Len(q) # 0, NEW u \in Seq(Nat),
           NEW j \in 1..Len(u), j <= Len(Head(q))
    PROVE  Begun(u, q) => u[j] = Head(q)[j]
<1>1. Head(q) \in Frames /\ Tail(q) \in Seq(Frames) /\ FlattenSeq(q) = Head(q) \o FlattenSeq(Tail(q))
  BY FramesWords, FlattenHead
<1> DEFINE h == Head(q)
           t == FlattenSeq(Tail(q))
<1>2. h \in Seq(Nat) /\ t \in Seq(Nat) /\ j <= Len(h) /\ FlattenSeq(q) = h \o t
  BY <1>1, FlattenType, FramesFraming DEF Framing
<1> HIDE DEF h, t
<1>3. \A missing \in Seq(Nat) : u \o missing = h \o t => u[j] = h[j]
  BY <1>2, SameAhead
<1> QED
  BY <1>2, <1>3 DEF Begun, h

(* When as much is read as the first answer is long, it is that answer,    *)
(* and what is left is of the others.                                      *)
LEMMA FirstRead ==
    ASSUME NEW q \in Seq(Frames), Len(q) # 0, NEW g \in Seq(Nat), NEW r \in Seq(Nat),
           Len(g) = Len(Head(q))
    PROVE  /\ Begun(g \o r, q) => g = Head(q) /\ Begun(r, Tail(q))
           /\ Complete(g \o r, q) => Complete(r, Tail(q))
<1>1. Head(q) \in Frames /\ Tail(q) \in Seq(Frames) /\ FlattenSeq(q) = Head(q) \o FlattenSeq(Tail(q))
  BY FramesWords, FlattenHead
<1> DEFINE h == Head(q)
           t == FlattenSeq(Tail(q))
<1>2. h \in Seq(Nat) /\ t \in Seq(Nat) /\ Len(g) = Len(h) /\ FlattenSeq(q) = h \o t
  BY <1>1, FlattenType, FramesFraming DEF Framing
<1> HIDE DEF h, t
<1>3. \A missing \in Seq(Nat) : (g \o r) \o missing = h \o t => g = h /\ r \o missing = t
  <2> TAKE missing \in Seq(Nat)
  <2>1. (g \o r) \o missing = g \o (r \o missing)
    BY BytesAssociative, ZenonT(30)
  <2>2. r \o missing \in Seq(Nat)
    BY ConcatProperties
  <2> QED
    BY <1>2, <2>1, <2>2, SameParts
<1>4. g \o r = h \o t => r = t
  BY <1>2, SameParts
<1>5. Begun(g \o r, q) => g = h /\ Begun(r, Tail(q))
  BY <1>2, <1>3 DEF Begun, t
<1>6. Complete(g \o r, q) => Complete(r, Tail(q))
  BY <1>2, <1>4 DEF Complete, t
<1> QED
  BY <1>5, <1>6 DEF h

(* In the words of SequencesExt. *)
LEMMA BegunPrefix ==
    ASSUME NEW q, NEW u \in Seq(Nat)
    PROVE  Begun(u, q) => IsPrefix(u, FlattenSeq(q))
<1> SUFFICES ASSUME NEW missing \in Seq(Nat)
             PROVE  IsPrefix(u, u \o missing)
  BY DEF Begun
<1>1. Len(u) <= Len(u \o missing) /\ Len(u) \in Nat
  BY ConcatProperties
<1>2. SubSeq(u, 1, Len(u)) = SubSeq(u \o missing, 1, Len(u))
  OBVIOUS
<1> QED
  BY <1>1, <1>2 DEF IsPrefix

(* What can be read belongs to some answer. *)
LEMMA SomethingDue ==
    ASSUME NEW q \in Seq(Frames), NEW u \in Seq(Nat), Len(u) # 0
    PROVE  Begun(u, q) => Len(q) # 0
<1>1. \A missing \in Seq(Nat) : Len(u \o missing) # 0
  <2> TAKE missing \in Seq(Nat)
  <2>1. Len(u \o missing) = Len(u) + Len(missing) /\ Len(u) \in Nat /\ Len(missing) \in Nat
    BY ConcatProperties
  <2> QED
    BY <2>1
<1>2. Len(q) = 0 => FlattenSeq(q) = <<>>
  <2>1. Len(q) = 0 => q = <<>>
    BY EmptySeq
  <2> QED
    BY <2>1, FlattenEmpty
<1>3. Len(<<>>) = 0
  OBVIOUS
<1> QED
  BY <1>1, <1>2, <1>3 DEF Begun
-----------------------------------------------------------------------------
USE DEF Lost, Building, Reading, Parcel, Field, HeadLen, NoPacket, NoFix

-----------------------------------------------------------------------------
(* An answer is a sequence of bytes. *)
LEMMA FrameIsSeq ==
    ASSUME NEW parcel \in Nat, NEW data \in Seq(Nat)
    PROVE  Frame(parcel, data) \in Seq(Nat)
  BY DEF Frame

(* The greeting, a confirmation and a command the server may send are      *)
(* such sequences.                                                         *)
LEMMA AnswersAreSeqs ==
    /\ Greeting \in Seq(Nat)
    /\ Command \in Seq(Nat)
    /\ \A n \in Nat : Confirm(n) \in Seq(Nat)
<1>1. [j \in 1..TimeLen |-> 1] \in Seq(Nat)
  BY CommAssumption
<1>2. <<>> \in Seq(Nat) /\ <<2>> \in Seq(Nat)
  OBVIOUS
<1>3. MaxParcel + 1 \in Nat
  BY CommAssumption
<1> QED
  BY <1>1, <1>2, <1>3, FrameIsSeq DEF Greeting, Command, Confirm

(* The invariant holds initially. *)
THEOREM InitIInv == Init => IInv
<1> SUFFICES ASSUME Init PROVE IInv
  OBVIOUS
<1> USE CommAssumption DEF Init
<1>1. TypeOK
  <2>1. <<>> \in Seq(Nat) /\ Len(<<>>) = 0
    OBVIOUS
  <2>2. fix \in Fix /\ pkt \in [lat : Field, lon : Field, speed : Field]
    BY DEF Fix
  <2>3. conn \in [Fds -> {"free", "fresh", "up"} \cup Lost]
    OBVIOUS
  <2>4. /\ pc \in PCs /\ i \in Parcel /\ wire \in Parcel /\ pos \in Nat
        /\ avail \in 0..Len(stream) /\ faults \in 0..MaxFaults
    BY <2>1 DEF PCs
  <2> QED
    BY <2>1, <2>2, <2>3, <2>4 DEF TypeOK
<1>2. FdsOwned
  BY DEF FdsOwned
<1>3. RewoundBeforeReading /\ LockBrief /\ Measured
  BY DEF RewoundBeforeReading, LockBrief, Measured
<1>4. Numbered
  BY DEF Numbered, Online
<1>5. Positioned
  BY DEF Positioned, PositionWhole, GivenFix, Fix
<1> QED
  BY <1>1, <1>2, <1>3, <1>4, <1>5 DEF IInv
-----------------------------------------------------------------------------
(* A read of read_all() moves no more bytes than have arrived, and what is *)
(* left of the stream still holds what has arrived of it.                  *)
LEMMA ReadType == IInv /\ Read => TypeOK'
<1> SUFFICES ASSUME IInv, Read PROVE TypeOK'
  OBVIOUS
<1>1. got' \in Seq(Nat) /\ stream' \in Seq(Nat) /\ avail' \in 0..Len(stream')
  <2>1. CASE UNCHANGED <<got, stream, avail>>
    BY <2>1 DEF IInv, TypeOK
  <2>2. CASE avail > 0 /\ ~UNCHANGED <<got, stream, avail>>
    <3> DEFINE r == IF avail < goal - Len(got) THEN avail ELSE goal - Len(got)
    <3>1. /\ got' = got \o SubSeq(stream, 1, r)
          /\ stream' = SubSeq(stream, r + 1, Len(stream))
          /\ avail' = avail - r
      BY <2>2 DEF Read
    <3>2. /\ got \in Seq(Nat) /\ stream \in Seq(Nat)
          /\ avail \in 0..Len(stream) /\ goal \in Nat
          /\ Len(got) < goal /\ Len(got) \in Nat /\ Len(stream) \in Nat
      BY DEF IInv, TypeOK, Read
    <3>3. r \in 1..avail
      BY <2>2, <3>2
    <3> HIDE DEF r
    <3>4. SubSeq(stream, 1, r) \in Seq(Nat) /\ SubSeq(stream, r + 1, Len(stream)) \in Seq(Nat)
      BY <3>2, <3>3
    <3>5. Len(SubSeq(stream, r + 1, Len(stream))) = Len(stream) - r
      BY <3>2, <3>3, SubSeqProperties
    <3>6. got \o SubSeq(stream, 1, r) \in Seq(Nat)
      BY <3>2, <3>4
    <3> QED
      BY <3>1, <3>2, <3>3, <3>4, <3>5, <3>6
  <2> QED
    BY <2>1, <2>2 DEF Read
<1>2. /\ pc' \in PCs
      /\ conn' \in [Fds -> {"free", "fresh", "up"} \cup Lost]
  BY DEF IInv, TypeOK, PCs, Read, Throw
<1> QED
  BY <1>1, <1>2 DEF IInv, TypeOK, Read, gpsv

(* The second byte of the head, once it is read, is a number, so the rest  *)
(* that rest() asks for has a length and is no shorter than the head.      *)
LEMMA RestType == IInv /\ Rest => TypeOK' /\ Measured'
<1> SUFFICES ASSUME IInv, Rest PROVE TypeOK' /\ Measured'
  OBVIOUS
<1>1. got[2] \in Nat
  <2>1. got \in Seq(Nat) /\ Len(got) = 3
    BY DEF IInv, TypeOK, Measured, Rest
  <2> HIDE DEF IInv, Rest
  <2>2. 2 \in 1..Len(got)
    BY <2>1
  <2> QED
    BY <2>1, <2>2, ElementOfSeq
<1>2. RestLen(got[2]) \in Nat
  BY <1>1 DEF RestLen
<1>3. goal' \in Nat /\ Measured'
  BY <1>2 DEF IInv, TypeOK, Measured, Rest, Throw
<1> QED
  BY <1>3 DEF IInv, TypeOK, PCs, Rest, Throw, socks, peer, gpsv

(* The longitude and speed tags keep the cursor and the package in type.   *)
LEMMA BuildRestType == IInv /\ BuildRest => TypeOK'
<1> SUFFICES ASSUME IInv, BuildRest PROVE TypeOK'
  OBVIOUS
<1>1. pos' \in Nat
  BY SMTT(30) DEF IInv, TypeOK, BuildRest
<1>2. pkt' \in [lat : Field, lon : Field, speed : Field]
  BY DEF IInv, TypeOK, Fix, BuildRest
<1> QED
  BY <1>1, <1>2 DEF IInv, TypeOK, PCs, BuildRest, socks, peer, gpsv

(* The parcel counter stays in range when it wraps.                        *)
LEMMA BeginPackageType == IInv /\ BeginPackage => TypeOK'
<1> SUFFICES ASSUME IInv, BeginPackage PROVE TypeOK'
  OBVIOUS
<1>1. i' \in Parcel /\ pos' \in Nat
  BY CommAssumption DEF IInv, TypeOK, BeginPackage
<1> QED
  BY <1>1 DEF IInv, TypeOK, PCs, BeginPackage, socks, peer, gpsv

(* What the server adds to the stream leaves the arrived bytes in front.   *)
LEMMA SayingType ==
    ASSUME IInv, NEW frame \in Seq(Nat), Saying(frame)
    PROVE  stream' \in Seq(Nat) /\ avail \in 0..Len(stream')
<1>1. stream \in Seq(Nat) /\ avail \in 0..Len(stream) /\ stream' = stream \o frame
  BY DEF IInv, TypeOK, Saying
<1>2. stream' \in Seq(Nat) /\ Len(stream') = Len(stream) + Len(frame)
  BY <1>1
<1> QED
  BY <1>1, <1>2

(* The server's answer to the introduction keeps the types.                *)
LEMMA ServerGreetsType == IInv /\ ServerGreets => TypeOK'
<1> SUFFICES ASSUME IInv, ServerGreets PROVE TypeOK'
  OBVIOUS
<1>1. stream' \in Seq(Nat) /\ avail \in 0..Len(stream')
  BY SayingType, AnswersAreSeqs DEF ServerGreets
<1> QED
  BY <1>1 DEF IInv, TypeOK, ServerGreets, local, socks, gpsv

(* So does a confirmation or a command.                                    *)
LEMMA ServerSaysType == IInv /\ ServerSays => TypeOK'
<1> SUFFICES ASSUME IInv, ServerSays PROVE TypeOK'
  OBVIOUS
<1>1. PICK frame \in {Confirm(n) : n \in {wire} \ {0}} \cup {Command} : Saying(frame)
  BY DEF ServerSays
<1>2. wire \in Nat
  BY CommAssumption DEF IInv, TypeOK
<1>3. frame \in Seq(Nat)
  BY <1>2, AnswersAreSeqs
<1>4. stream' \in Seq(Nat) /\ avail \in 0..Len(stream')
  BY <1>1, <1>3, SayingType
<1> QED
  BY <1>4 DEF IInv, TypeOK, ServerSays, local, socks, gpsv
-----------------------------------------------------------------------------
(* Every step of the reporting task keeps the invariant.                   *)
LEMMA TaskStep == IInv /\ Task => IInv'
<1> SUFFICES ASSUME IInv, Task PROVE IInv'
  OBVIOUS
<1> USE CommAssumption
<1>1. CASE Resolve
  BY <1>1 DEF Resolve, IInv, TypeOK, PCs, FdsOwned, RewoundBeforeReading, LockBrief, Numbered, Positioned,
       PositionWhole, Measured, Online, Abstract!NextNumber, Fix, GivenFix,
       Throw, Fault, local, socks, peer, gpsv
<1>2. CASE OpenSocket
  BY <1>2 DEF OpenSocket, IInv, TypeOK, PCs, FdsOwned, RewoundBeforeReading, LockBrief, Numbered, Positioned,
       PositionWhole, Measured, Online, Abstract!NextNumber, Fix, GivenFix,
       Throw, Fault, local, socks, peer, gpsv
<1>3. CASE Connect
  <2>1. TypeOK'
    BY <1>3, SMTT(30) DEF Connect, IInv, TypeOK, PCs, Throw, Fault, socks, peer, gpsv
  <2>2. FdsOwned' /\ RewoundBeforeReading' /\ LockBrief' /\ Measured'
    BY <1>3, ZenonT(60) DEF Connect, IInv, TypeOK, FdsOwned, RewoundBeforeReading, LockBrief, Measured,
       Throw, Fault, local, socks, peer, gpsv
  <2>3. Numbered' /\ Positioned'
    BY <1>3 DEF Connect, IInv, TypeOK, LockBrief, Numbered, Positioned, PositionWhole,
       Online, Abstract!NextNumber, Fix, GivenFix, Throw, Fault, local, socks, peer, gpsv
  <2> QED
    BY <2>1, <2>2, <2>3 DEF IInv
<1>4. CASE Adopt
  <2>1. TypeOK'
    <3>1. stream' \in Seq(Nat) /\ avail' \in 0..Len(stream')
      BY <1>4 DEF Adopt
    <3>2. pc' \in PCs /\ conn' \in [Fds -> {"free", "fresh", "up"} \cup Lost]
      BY <1>4 DEF Adopt, IInv, TypeOK, PCs
    <3> QED
      BY <1>4, <3>1, <3>2 DEF Adopt, IInv, TypeOK, gpsv
  <2>2. FdsOwned' /\ RewoundBeforeReading' /\ LockBrief' /\ Measured'
    BY <1>4 DEF Adopt, IInv, TypeOK, FdsOwned, RewoundBeforeReading, LockBrief, Measured,
       Throw, Fault, local, socks, peer, gpsv
  <2>3. Numbered' /\ Positioned'
    BY <1>4 DEF Adopt, IInv, TypeOK, LockBrief, Numbered, Positioned, PositionWhole,
       Online, Abstract!NextNumber, Fix, GivenFix, Throw, Fault, local, socks, peer, gpsv
  <2> QED
    BY <2>1, <2>2, <2>3 DEF IInv
<1>5. CASE Hello
  <2>1. TypeOK'
    <3>1. pc' \in PCs /\ wire' \in Parcel /\ pos' \in Nat
      BY <1>5 DEF Hello, PCs
    <3> QED
      BY <1>5, <3>1 DEF Hello, IInv, TypeOK, socks, peer, gpsv
  <2>2. FdsOwned' /\ RewoundBeforeReading' /\ LockBrief' /\ Measured'
    BY <1>5 DEF Hello, IInv, TypeOK, FdsOwned, RewoundBeforeReading, LockBrief, Measured,
       Throw, Fault, local, socks, peer, gpsv
  <2>3. Numbered' /\ Positioned'
    BY <1>5 DEF Hello, IInv, TypeOK, LockBrief, Numbered, Positioned, PositionWhole,
       Online, Abstract!NextNumber, Fix, GivenFix, Throw, Fault, local, socks, peer, gpsv
  <2> QED
    BY <2>1, <2>2, <2>3 DEF IInv
<1>6. CASE Block
  BY <1>6 DEF Block, IInv, TypeOK, PCs, FdsOwned, RewoundBeforeReading, LockBrief, Numbered, Positioned,
       PositionWhole, Measured, Online, Abstract!NextNumber, Fix, GivenFix,
       Throw, Fault, local, socks, peer, gpsv
<1>7. CASE WaitReadable
  BY <1>7 DEF WaitReadable, IInv, TypeOK, PCs, FdsOwned, RewoundBeforeReading, LockBrief, Numbered, Positioned,
       PositionWhole, Measured, Online, Abstract!NextNumber, Fix, GivenFix,
       Throw, Fault, local, socks, peer, gpsv
<1>8. CASE WaitTimeout
  <2>1. TypeOK'
    BY <1>8 DEF WaitTimeout, IInv, TypeOK, PCs, Throw, Fault, socks, peer, gpsv
  <2>2. FdsOwned' /\ RewoundBeforeReading' /\ LockBrief' /\ Measured'
    BY <1>8 DEF WaitTimeout, IInv, TypeOK, FdsOwned, RewoundBeforeReading, LockBrief, Measured,
       Throw, Fault, local, socks, peer, gpsv
  <2>3. Numbered' /\ Positioned'
    BY <1>8 DEF WaitTimeout, IInv, TypeOK, LockBrief, Numbered, Positioned, PositionWhole,
       Online, Abstract!NextNumber, Fix, GivenFix, Throw, Fault, local, socks, peer, gpsv
  <2> QED
    BY <2>1, <2>2, <2>3 DEF IInv
<1>9. CASE Read
  <2>1. TypeOK'
    BY <1>9, ReadType
  <2>2. FdsOwned' /\ RewoundBeforeReading' /\ LockBrief' /\ Measured'
    BY <1>9, ZenonT(30) DEF Read, IInv, TypeOK, FdsOwned, RewoundBeforeReading, LockBrief, Measured,
       Throw, Fault, local, socks, peer, gpsv
  <2>3. Numbered' /\ Positioned'
    BY <1>9 DEF Read, IInv, TypeOK, LockBrief, Numbered, Positioned, PositionWhole,
       Online, Abstract!NextNumber, Fix, GivenFix, Throw, Fault, local, socks, peer, gpsv
  <2> QED
    BY <2>1, <2>2, <2>3 DEF IInv
<1>10. CASE Rest
  <2>1. TypeOK'
    BY <1>10, RestType
  <2>2. FdsOwned' /\ RewoundBeforeReading' /\ LockBrief' /\ Measured'
    BY <1>10, RestType DEF Rest, IInv, TypeOK, FdsOwned, RewoundBeforeReading, LockBrief, Measured,
       Throw, Fault, local, socks, peer, gpsv
  <2>3. Numbered' /\ Positioned'
    BY <1>10 DEF Rest, IInv, TypeOK, LockBrief, Numbered, Positioned, PositionWhole,
       Online, Abstract!NextNumber, Fix, GivenFix, Throw, Fault, local, socks, peer, gpsv
  <2> QED
    BY <2>1, <2>2, <2>3 DEF IInv
<1>11. CASE Finish
  <2>1. TypeOK'
    <3>1. \/ pc' = "backoff" /\ UNCHANGED <<hello, i>>
          \/ pc' = "window" /\ UNCHANGED <<hello, i>>
          \/ pc' = "package" /\ hello' = FALSE /\ i' = 0
      BY <1>11 DEF Finish, Throw
    <3>2. hello' \in BOOLEAN
      BY <3>1, Zenon DEF IInv, TypeOK
    <3>3. i \in Parcel /\ 0 \in Parcel
      BY DEF IInv, TypeOK
    <3>4. pc' \in PCs /\ i' \in Parcel
      BY <3>1, <3>3, Zenon DEF PCs
    <3> QED
      BY <1>11, <3>2, <3>4 DEF Finish, IInv, TypeOK, socks, gpsv
  <2>2. FdsOwned' /\ RewoundBeforeReading' /\ LockBrief' /\ Measured'
    <3>1. /\ pc = "rest" /\ pc' \in {"backoff", "window", "package"}
          /\ UNCHANGED <<socks, pos, gpsv>>
      BY <1>11 DEF Finish, Throw
    <3>2. FdsOwned'
      BY <3>1 DEF IInv, FdsOwned, socks
    <3>3. RewoundBeforeReading'
      BY <3>1 DEF IInv, RewoundBeforeReading
    <3>4. LockBrief'
      BY <3>1 DEF IInv, LockBrief, gpsv
    <3>5. Measured'
      BY <3>1 DEF Measured
    <3> QED
      BY <3>2, <3>3, <3>4, <3>5
  <2>3. Positioned'
    <3>1. /\ pc = "rest" /\ pc' \in {"backoff", "window", "package"}
          /\ pkt' = pkt /\ lock' = lock /\ fix' = fix
      BY <1>11 DEF Finish, Throw, gpsv
    <3> QED
      BY <3>1 DEF IInv, Positioned, PositionWhole, GivenFix, Fix
  <2>4. Numbered'
    BY <1>11 DEF Finish, IInv, TypeOK, Numbered, Online, Abstract!NextNumber, Throw, socks
  <2> QED
    BY <2>1, <2>2, <2>3, <2>4 DEF IInv
<1>12. CASE BeginPackage
  <2>1. TypeOK'
    BY <1>12, BeginPackageType
  <2>2. FdsOwned' /\ RewoundBeforeReading' /\ LockBrief' /\ Measured'
    BY <1>12 DEF BeginPackage, IInv, TypeOK, FdsOwned, RewoundBeforeReading, LockBrief, Measured,
       Throw, Fault, local, socks, peer, gpsv
  <2>3. Numbered' /\ Positioned'
    BY <1>12 DEF BeginPackage, IInv, TypeOK, LockBrief, Numbered, Positioned, PositionWhole,
       Online, Abstract!NextNumber, Fix, GivenFix, Throw, Fault, local, socks, peer, gpsv
  <2> QED
    BY <2>1, <2>2, <2>3 DEF IInv
<1>13. CASE TakeLock
  BY <1>13 DEF TakeLock, IInv, TypeOK, PCs, FdsOwned, RewoundBeforeReading, LockBrief, Numbered, Positioned,
       PositionWhole, Measured, Online, Abstract!NextNumber, Fix, GivenFix,
       Throw, Fault, local, socks, peer, gpsv
<1>14. CASE BuildLat
  <2>1. TypeOK'
    <3>1. fix.lat \in Field /\ pkt \in [lat : Field, lon : Field, speed : Field]
      BY DEF IInv, TypeOK, Fix
    <3>2. pkt' \in [lat : Field, lon : Field, speed : Field]
      BY <1>14, <3>1 DEF BuildLat
    <3>3. \/ pc' = "position2" /\ pos' = pos + 7 + 5
          \/ pc' = "release" /\ pos' = pos
      BY <1>14 DEF BuildLat
    <3>4. pos \in Nat
      BY DEF IInv, TypeOK
    <3>5. pos' \in Nat
      BY <3>3, <3>4
    <3>6. pc' \in PCs
      BY <3>3 DEF PCs
    <3> QED
      BY <1>14, <3>2, <3>5, <3>6 DEF BuildLat, IInv, TypeOK, socks, peer, gpsv
  <2>2. FdsOwned' /\ RewoundBeforeReading' /\ LockBrief' /\ Measured'
    BY <1>14 DEF BuildLat, IInv, TypeOK, FdsOwned, RewoundBeforeReading, LockBrief, Measured,
       Throw, Fault, local, socks, peer, gpsv
  <2>3. Numbered' /\ Positioned'
    <3>1. /\ lock = "comm" /\ UNCHANGED gpsv
          /\ fix \in GivenFix /\ pkt = NoPacket
      BY <1>14 DEF BuildLat, IInv, LockBrief, Positioned
    <3>2. \/ pc' = "position2" /\ pkt' = [pkt EXCEPT !.lat = fix.lat]
          \/ pc' = "release" /\ pkt' = pkt
      BY <1>14 DEF BuildLat
    <3>3. Positioned'
      BY <3>1, <3>2 DEF Positioned, PositionWhole, gpsv
    <3>4. Numbered'
      BY <1>14, <3>2 DEF BuildLat, IInv, Numbered, Online, Abstract!NextNumber
    <3> QED
      BY <3>3, <3>4
  <2> QED
    BY <2>1, <2>2, <2>3 DEF IInv
<1>15. CASE BuildRest
  <2>1. TypeOK'
    BY <1>15, BuildRestType
  <2>2. FdsOwned' /\ RewoundBeforeReading' /\ LockBrief' /\ Measured'
    BY <1>15 DEF BuildRest, IInv, TypeOK, FdsOwned, RewoundBeforeReading, LockBrief, Measured,
       Throw, Fault, local, socks, peer, gpsv
  <2>3. Numbered' /\ Positioned'
    BY <1>15 DEF BuildRest, IInv, TypeOK, LockBrief, Numbered, Positioned, PositionWhole,
       Online, Abstract!NextNumber, Fix, GivenFix, Throw, Fault, local, socks, peer, gpsv
  <2> QED
    BY <2>1, <2>2, <2>3 DEF IInv
<1>16. CASE Release
  BY <1>16 DEF Release, IInv, TypeOK, PCs, FdsOwned, RewoundBeforeReading, LockBrief, Numbered, Positioned,
       PositionWhole, Measured, Online, Abstract!NextNumber, Fix, GivenFix,
       Throw, Fault, local, socks, peer, gpsv
<1>17. CASE Send
  BY <1>17 DEF Send, IInv, TypeOK, PCs, FdsOwned, RewoundBeforeReading, LockBrief, Numbered, Positioned,
       PositionWhole, Measured, Online, Abstract!NextNumber, Fix, GivenFix,
       Throw, Fault, local, socks, peer, gpsv
<1>18. CASE Window
  BY <1>18 DEF Window, IInv, TypeOK, PCs, FdsOwned, RewoundBeforeReading, LockBrief, Numbered, Positioned,
       PositionWhole, Measured, Online, Abstract!NextNumber, Fix, GivenFix,
       Throw, Fault, local, socks, peer, gpsv
<1>19. CASE Backoff
  BY <1>19 DEF Backoff, IInv, TypeOK, PCs, FdsOwned, RewoundBeforeReading, LockBrief, Numbered, Positioned,
       PositionWhole, Measured, Online, Abstract!NextNumber, Fix, GivenFix,
       Throw, Fault, local, socks, peer, gpsv
<1> QED
  BY <1>1, <1>2, <1>3, <1>4, <1>5, <1>6, <1>7, <1>8, <1>9, <1>10, <1>11, <1>12, <1>13, <1>14, <1>15, <1>16, <1>17, <1>18, <1>19 DEF Task

(* Every step of the server, the network, the clock and the GPS task does, *)
(* and a restart of the device.                                            *)
LEMMA EnvironmentStep == IInv /\ Environment => IInv'
<1> SUFFICES ASSUME IInv, Environment PROVE IInv'
  OBVIOUS
<1> USE CommAssumption
<1>1. CASE ServerGreets
  <2>1. TypeOK'
    BY <1>1, ServerGreetsType
  <2>2. FdsOwned' /\ RewoundBeforeReading' /\ LockBrief' /\ Measured'
    BY <1>1 DEF ServerGreets, IInv, TypeOK, FdsOwned, RewoundBeforeReading, LockBrief, Measured,
       Throw, Fault, local, socks, peer, gpsv, Saying, Connected
  <2>3. Numbered' /\ Positioned'
    BY <1>1 DEF ServerGreets, IInv, TypeOK, LockBrief, Numbered, Positioned, PositionWhole,
       Online, Abstract!NextNumber, Fix, GivenFix, Throw, Fault, local, socks, peer, gpsv
  <2> QED
    BY <2>1, <2>2, <2>3 DEF IInv
<1>2. CASE ServerSays
  <2>1. TypeOK'
    BY <1>2, ServerSaysType
  <2>2. FdsOwned' /\ RewoundBeforeReading' /\ LockBrief' /\ Measured'
    BY <1>2 DEF ServerSays, IInv, TypeOK, FdsOwned, RewoundBeforeReading, LockBrief, Measured,
       Throw, Fault, local, socks, peer, gpsv, Saying, Connected
  <2>3. Numbered' /\ Positioned'
    BY <1>2 DEF ServerSays, IInv, TypeOK, LockBrief, Numbered, Positioned, PositionWhole,
       Online, Abstract!NextNumber, Fix, GivenFix, Throw, Fault, local, socks, peer, gpsv
  <2> QED
    BY <2>1, <2>2, <2>3 DEF IInv
<1>3. CASE ServerBabbles
  BY <1>3 DEF ServerBabbles, IInv, TypeOK, PCs, FdsOwned, RewoundBeforeReading, LockBrief, Numbered, Positioned,
       PositionWhole, Measured, Online, Abstract!NextNumber, Fix, GivenFix,
       Throw, Fault, local, socks, peer, gpsv, Connected, Saying
<1>4. CASE Deliver
  BY <1>4 DEF Deliver, IInv, TypeOK, PCs, FdsOwned, RewoundBeforeReading, LockBrief, Numbered, Positioned,
       PositionWhole, Measured, Online, Abstract!NextNumber, Fix, GivenFix,
       Throw, Fault, local, socks, peer, gpsv, Connected, Saying
<1>5. CASE Close
  BY <1>5 DEF Close, IInv, TypeOK, PCs, FdsOwned, RewoundBeforeReading, LockBrief, Numbered, Positioned,
       PositionWhole, Measured, Online, Abstract!NextNumber, Fix, GivenFix,
       Throw, Fault, local, socks, peer, gpsv, Connected, Saying
<1>6. CASE Break
  BY <1>6 DEF Break, IInv, TypeOK, PCs, FdsOwned, RewoundBeforeReading, LockBrief, Numbered, Positioned,
       PositionWhole, Measured, Online, Abstract!NextNumber, Fix, GivenFix,
       Throw, Fault, local, socks, peer, gpsv, Connected, Saying
<1>7. CASE Elapse
  BY <1>7 DEF Elapse, IInv, TypeOK, PCs, FdsOwned, RewoundBeforeReading, LockBrief, Numbered, Positioned,
       PositionWhole, Measured, Online, Abstract!NextNumber, Fix, GivenFix,
       Throw, Fault, local, socks, peer, gpsv, Connected, Saying
<1>8. CASE GpsTakes
  BY <1>8 DEF GpsTakes, IInv, TypeOK, PCs, FdsOwned, RewoundBeforeReading, LockBrief, Numbered, Positioned,
       PositionWhole, Measured, Online, Abstract!NextNumber, Fix, GivenFix,
       Throw, Fault, local, socks, peer, gpsv, Connected, Saying
<1>9. CASE GpsWrites
  BY <1>9 DEF GpsWrites, IInv, TypeOK, PCs, FdsOwned, RewoundBeforeReading, LockBrief, Numbered, Positioned,
       PositionWhole, Measured, Online, Abstract!NextNumber, Fix, GivenFix,
       Throw, Fault, local, socks, peer, gpsv, Connected, Saying
<1>10. CASE GpsGives
  BY <1>10 DEF GpsGives, IInv, TypeOK, PCs, FdsOwned, RewoundBeforeReading, LockBrief, Numbered, Positioned,
       PositionWhole, Measured, Online, Abstract!NextNumber, Fix, GivenFix,
       Throw, Fault, local, socks, peer, gpsv, Connected, Saying
<1>11. CASE Restart
  <2>1. /\ wire \in Parcel /\ faults' \in 0..MaxFaults
        /\ UNCHANGED wire
    BY <1>11 DEF Restart, Fault, IInv, TypeOK
  <2>2. <<>> \in Seq(Nat) /\ Len(<<>>) = 0
    OBVIOUS
  <2>3. fix' \in Fix /\ pkt' \in [lat : Field, lon : Field, speed : Field]
    BY <1>11 DEF Restart, Fix
  <2>4. TypeOK'
    <3>1. /\ pc' \in PCs /\ i' \in Parcel /\ pos' \in Nat
          /\ conn' \in [Fds -> {"free", "fresh", "up"} \cup Lost]
      BY <1>11 DEF Restart, PCs
    <3>2. got' \in Seq(Nat) /\ stream' \in Seq(Nat) /\ avail' \in 0..Len(stream')
      BY <1>11, <2>2 DEF Restart
    <3> QED
      BY <1>11, <2>1, <2>3, <3>1, <3>2 DEF Restart, TypeOK
  <2>5. FdsOwned' /\ RewoundBeforeReading' /\ LockBrief' /\ Measured'
    BY <1>11 DEF Restart, FdsOwned, RewoundBeforeReading, LockBrief, Measured
  <2>6. Numbered' /\ Positioned'
    BY <1>11 DEF Restart, Numbered, Positioned, PositionWhole, Online, Fix, GivenFix
  <2> QED
    BY <2>4, <2>5, <2>6 DEF IInv
<1> QED
  BY <1>1, <1>2, <1>3, <1>4, <1>5, <1>6, <1>7, <1>8, <1>9, <1>10, <1>11 DEF Environment

(* A stuttering step keeps it, and so does every step. *)
THEOREM NextIInv == IInv /\ [Next]_vars => IInv'
<1>1. ASSUME IInv, UNCHANGED vars PROVE IInv'
  <2>1. TypeOK'
    BY <1>1 DEF vars, IInv, TypeOK
  <2>2. FdsOwned' /\ RewoundBeforeReading' /\ LockBrief' /\ Measured'
    BY <1>1 DEF vars, IInv, FdsOwned, RewoundBeforeReading, LockBrief, Measured
  <2>3. Numbered' /\ Positioned'
    BY <1>1 DEF vars, IInv, Numbered, Online, Positioned, PositionWhole
  <2> QED
    BY <2>1, <2>2, <2>3 DEF IInv
<1> QED
  BY <1>1, TaskStep, EnvironmentStep DEF Next

(* The invariant holds in every reachable state. *)
THEOREM Invariance == Spec => []IInv
  BY InitIInv, NextIInv, PTL DEF Spec
-----------------------------------------------------------------------------
(* Every variable of the task, its sockets and its stream stays in its     *)
(* type, for any server and any number of failures.                        *)
THEOREM TypeCorrect == Spec => []TypeOK
<1>1. IInv => TypeOK
  BY DEF IInv
<1> QED
  BY <1>1, Invariance, PTL

(* Descriptors are never leaked, and a task past the assignment has one:   *)
(* TCP_sock's constructor, move assignment and destructor, for any number  *)
(* of reconnections and any number of descriptors.                         *)
THEOREM SocketsOwned == Spec => []FdsOwned
<1>1. IInv => FdsOwned
  BY DEF IInv
<1> QED
  BY <1>1, Invariance, PTL

(* The assertion of Server_com's constructor never fails. *)
THEOREM AssertionHolds == Spec => []RewoundBeforeReading
<1>1. IInv => RewoundBeforeReading
  BY DEF IInv
<1> QED
  BY <1>1, Invariance, PTL

(* The lock on the position is held exactly while the fields are copied,   *)
(* and what is copied is one sentence's.                                   *)
THEOREM PositionSafe == Spec => [](LockBrief /\ PositionWhole)
<1>1. IInv => LockBrief /\ PositionWhole
  BY DEF IInv, Positioned
<1> QED
  BY <1>1, Invariance, PTL
-----------------------------------------------------------------------------
(* The task implements Session: introductions, acceptance and consecutive  *)
(* parcel numbers are those of the abstract specification, and every other *)
(* step is a stutter of it.                                                *)
LEMMA InitImplements == Init => Abstract!Init
  BY DEF Init, Abstract!Init, phaseOf, Online

(* Every step is one of Session's or a stutter of it: Hello opens, the      *)
(* Finish of the greeting accepts, Send reports, an exception drops.        *)
LEMMA StepImplements == IInv /\ [Next]_vars => [Abstract!Next]_(Abstract!vars)
<1> SUFFICES ASSUME IInv, [Next]_vars PROVE [Abstract!Next]_(Abstract!vars)
  OBVIOUS
<1> USE DEF Abstract!Next, Abstract!Open, Abstract!Accept, Abstract!Report, Abstract!Drop,
        Abstract!vars, phaseOf, Online
<1>1. CASE Resolve
  BY <1>1 DEF Resolve, IInv, Numbered, Throw
<1>2. CASE OpenSocket
  BY <1>2 DEF OpenSocket, IInv, Numbered, Throw
<1>3. CASE Connect
  BY <1>3 DEF Connect, IInv, Numbered, Throw
<1>4. CASE Adopt
  BY <1>4 DEF Adopt, IInv, Numbered, Throw
<1>5. CASE Hello
  BY <1>5 DEF Hello, IInv, Numbered, Throw
<1>6. CASE Block
  BY <1>6 DEF Block, IInv, Numbered, Throw
<1>7. CASE WaitReadable
  BY <1>7 DEF WaitReadable, IInv, Numbered, Throw
<1>8. CASE WaitTimeout
  BY <1>8 DEF WaitTimeout, IInv, Numbered, Throw
<1>9. CASE Read
  BY <1>9 DEF Read, IInv, Numbered, Throw
<1>10. CASE Rest
  BY <1>10 DEF Rest, IInv, Numbered, Throw
<1>11. CASE Finish
  BY <1>11 DEF Finish, IInv, Numbered, Throw
<1>12. CASE BeginPackage
  BY <1>12 DEF BeginPackage, IInv, Numbered, Throw
<1>13. CASE TakeLock
  BY <1>13 DEF TakeLock, IInv, Numbered, Throw
<1>14. CASE BuildLat
  BY <1>14 DEF BuildLat, IInv, Numbered, Throw
<1>15. CASE BuildRest
  BY <1>15 DEF BuildRest, IInv, Numbered, Throw
<1>16. CASE Release
  BY <1>16 DEF Release, IInv, Numbered, Throw
<1>17. CASE Send
  BY <1>17 DEF Send, IInv, Numbered, Throw
<1>18. CASE Window
  BY <1>18 DEF Window, IInv, Numbered, Throw
<1>19. CASE Backoff
  BY <1>19 DEF Backoff, IInv, Numbered, Throw
<1>20. CASE Environment
  BY <1>20 DEF Environment, ServerGreets, ServerSays, ServerBabbles, Deliver, Close, Break, Elapse,
       Restart, GpsTakes, GpsWrites, GpsGives, local
<1>21. CASE UNCHANGED vars
  BY <1>21 DEF vars
<1> QED
  BY <1>1, <1>2, <1>3, <1>4, <1>5, <1>6, <1>7, <1>8, <1>9, <1>10, <1>11, <1>12, <1>13, <1>14, <1>15, <1>16, <1>17, <1>18, <1>19, <1>20, <1>21 DEF Next, Task

(* The reporting task, with any server and any failures, implements the    *)
(* session the server is promised.                                         *)
THEOREM Refinement == Spec => ImplementsSession
<1>1. Init => Abstract!Init
  BY InitImplements
<1>2. IInv /\ [Next]_vars => [Abstract!Next]_(Abstract!vars)
  BY StepImplements
<1> QED
  BY <1>1, <1>2, Invariance, PTL DEF Spec, ImplementsSession, Abstract!Spec

-----------------------------------------------------------------------------
HIDE DEF Lost, Building, Reading, Parcel, Field, HeadLen, NoPacket, NoFix

Talking == {"package", "window"} \cup Reading \cup Building
Unread == IF pc \in {"head", "rest"} THEN got \o stream ELSE stream

(* What is not yet read is what is due; nothing more once it is cut off. *)
Pending == pc \in Talking =>
    /\ Begun(Unread, due)
    /\ conn[s] = "up" => Complete(Unread, due)

(* The greeting is the first answer to the introduction. *)
Greeted ==
    /\ pc = "hello" => due = <<>> /\ stream = <<>> /\ ~welcomed
    /\ pc \in Reading /\ hello =>
        \/ due = <<>> /\ ~welcomed
        \/ Len(due) # 0 /\ Head(due) = Greeting /\ welcomed
    /\ Online => welcomed

(* What is being read is the first one due. *)
Answering ==
    /\ pc \in {"head", "rest"} => Len(got) <= goal
    /\ pc = "rest" => Len(due) # 0 /\ Len(got) >= HeadLen /\ goal = Len(Head(due))

Framed ==
    /\ due \in Seq(Frames)
    /\ Pending
    /\ Greeted
    /\ Answering
    /\ err \notin {"frame", "greeting"}

(* The stream is in step initially. *)
LEMMA InitFramed == Init => Framed
<1> SUFFICES ASSUME Init PROVE Framed
  OBVIOUS
<1>1. due \in Seq(Frames)
  BY DEF Init
<1> QED
  BY <1>1 DEF Init, Framed, Pending, Greeted, Answering, Talking, Reading, Building, Online

(* The steps of the task that read nothing. *)
ReadsNothing ==
    \/ Resolve \/ OpenSocket \/ Connect \/ Adopt \/ Hello
    \/ Block \/ WaitReadable \/ WaitTimeout
    \/ BeginPackage \/ TakeLock \/ BuildLat \/ BuildRest \/ Release \/ Send
    \/ Window \/ Backoff

(* So it is behind the steps that read nothing: those of establish(), of   *)
(* the loop and of the package.                                            *)
LEMMA EasyStep == IInv /\ Framed /\ ReadsNothing => Framed'
<1> SUFFICES ASSUME IInv, Framed, ReadsNothing PROVE Framed'
  OBVIOUS
<1> USE DEF Talking, Reading, Building
<1>0. pc \in PCs
  BY DEF IInv, TypeOK
<1>1. CASE Resolve
  <2>1. due' \in Seq(Frames) /\ err' \notin {"frame", "greeting"}
    BY <1>1 DEF Resolve, Framed, Throw, peer
  <2>2. Pending'
    BY <1>1 DEF Resolve, Framed, Pending, Unread, Throw, peer, socks
  <2>3. Greeted'
    BY <1>1 DEF Resolve, IInv, Numbered, Framed, Greeted, Online, Throw, peer
  <2>4. Answering'
    BY <1>1 DEF Resolve, Framed, Answering, Throw, peer
  <2> QED
    BY <2>1, <2>2, <2>3, <2>4 DEF Framed
<1>2. CASE OpenSocket
  <2>1. due' \in Seq(Frames) /\ err' \notin {"frame", "greeting"}
    BY <1>2 DEF OpenSocket, Framed, Throw, peer
  <2>2. Pending'
    BY <1>2 DEF OpenSocket, Framed, Pending, Unread, Throw, peer, socks
  <2>3. Greeted'
    BY <1>2 DEF OpenSocket, IInv, Numbered, Framed, Greeted, Online, Throw, peer
  <2>4. Answering'
    BY <1>2 DEF OpenSocket, Framed, Answering, Throw, peer
  <2> QED
    BY <2>1, <2>2, <2>3, <2>4 DEF Framed
<1>3. CASE Connect
  <2>1. due' \in Seq(Frames) /\ err' \notin {"frame", "greeting"}
    BY <1>3 DEF Connect, Framed, Throw, peer
  <2>2. Pending'
    BY <1>3 DEF Connect, Framed, Pending, Unread, Throw, peer, socks
  <2>3. Greeted'
    BY <1>3 DEF Connect, IInv, Numbered, Framed, Greeted, Online, Throw, peer
  <2>4. Answering'
    BY <1>3 DEF Connect, Framed, Answering, Throw, peer
  <2> QED
    BY <2>1, <2>2, <2>3, <2>4 DEF Framed
<1>4. CASE Adopt
  <2>1. due' \in Seq(Frames) /\ err' \notin {"frame", "greeting"}
    BY <1>4 DEF Adopt, Framed, Throw, peer
  <2>2. Pending'
    BY <1>4 DEF Adopt, Framed, Pending, Unread, Throw, peer, socks
  <2>3. Greeted'
    BY <1>4 DEF Adopt, IInv, Numbered, Framed, Greeted, Online, Throw, peer
  <2>4. Answering'
    BY <1>4 DEF Adopt, Framed, Answering, Throw, peer
  <2> QED
    BY <2>1, <2>2, <2>3, <2>4 DEF Framed
<1>5. CASE Hello
  <2>1. due' \in Seq(Frames) /\ err' \notin {"frame", "greeting"}
    BY <1>5 DEF Hello, Framed, Throw, peer
  <2>2. Pending'
    <3>1. pc' = "select" /\ due' = due /\ stream' = stream /\ pc = "hello"
      BY <1>5 DEF Hello, peer
    <3>2. due = <<>> /\ stream = <<>>
      BY <3>1 DEF Framed, Greeted
    <3>3. Unread' = <<>> /\ due' = <<>>
      BY <3>1, <3>2 DEF Unread
    <3>4. Complete(<<>>, <<>>) /\ Begun(<<>>, <<>>)
      <4>1. <<>> \in Seq(Frames)
        OBVIOUS
      <4> QED
        BY <4>1, NothingDue, CompleteBegun
    <3> QED
      BY <3>3, <3>4 DEF Pending
  <2>3. Greeted'
    BY <1>5 DEF Hello, IInv, Numbered, Framed, Greeted, Online, Throw, peer
  <2>4. Answering'
    BY <1>5 DEF Hello, Framed, Answering, Throw, peer
  <2> QED
    BY <2>1, <2>2, <2>3, <2>4 DEF Framed
<1>6. CASE Block
  <2>1. due' \in Seq(Frames) /\ err' \notin {"frame", "greeting"}
    BY <1>6 DEF Block, Framed, Throw, peer
  <2>2. Pending'
    BY <1>6 DEF Block, Framed, Pending, Unread, Throw, peer, socks
  <2>3. Greeted'
    BY <1>6 DEF Block, IInv, Numbered, Framed, Greeted, Online, Throw, peer
  <2>4. Answering'
    BY <1>6 DEF Block, Framed, Answering, Throw, peer
  <2> QED
    BY <2>1, <2>2, <2>3, <2>4 DEF Framed
<1>7. CASE WaitReadable
  <2>1. due' \in Seq(Frames) /\ err' \notin {"frame", "greeting"}
    BY <1>7 DEF WaitReadable, Framed, Throw, peer
  <2>2. Pending'
    BY <1>7 DEF WaitReadable, Framed, Pending, Unread, Throw, peer, socks
  <2>3. Greeted'
    BY <1>7 DEF WaitReadable, IInv, Numbered, Framed, Greeted, Online, Throw, peer
  <2>4. Answering'
    BY <1>7 DEF WaitReadable, Answering, HeadLen
  <2> QED
    BY <2>1, <2>2, <2>3, <2>4 DEF Framed
<1>8. CASE WaitTimeout
  <2>1. due' \in Seq(Frames) /\ err' \notin {"frame", "greeting"}
    BY <1>8 DEF WaitTimeout, Framed, Throw, peer
  <2>2. Pending'
    BY <1>8 DEF WaitTimeout, Framed, Pending, Unread, Throw, peer, socks
  <2>3. Greeted'
    BY <1>8 DEF WaitTimeout, IInv, Numbered, Framed, Greeted, Online, Throw, peer
  <2>4. Answering'
    BY <1>8 DEF WaitTimeout, Framed, Answering, Throw, peer
  <2> QED
    BY <2>1, <2>2, <2>3, <2>4 DEF Framed
<1>9. CASE BeginPackage
  <2>1. due' \in Seq(Frames) /\ err' \notin {"frame", "greeting"}
    BY <1>9 DEF BeginPackage, Framed, Throw, peer
  <2>2. Pending'
    BY <1>9 DEF BeginPackage, Framed, Pending, Unread, Throw, peer, socks
  <2>3. Greeted'
    BY <1>9 DEF BeginPackage, IInv, Numbered, Framed, Greeted, Online, Throw, peer
  <2>4. Answering'
    BY <1>9 DEF BeginPackage, Framed, Answering, Throw, peer
  <2> QED
    BY <2>1, <2>2, <2>3, <2>4 DEF Framed
<1>10. CASE TakeLock
  <2>1. due' \in Seq(Frames) /\ err' \notin {"frame", "greeting"}
    BY <1>10 DEF TakeLock, Framed, Throw, peer
  <2>2. Pending'
    BY <1>10 DEF TakeLock, Framed, Pending, Unread, Throw, peer, socks
  <2>3. Greeted'
    BY <1>10 DEF TakeLock, IInv, Numbered, Framed, Greeted, Online, Throw, peer
  <2>4. Answering'
    BY <1>10 DEF TakeLock, Framed, Answering, Throw, peer
  <2> QED
    BY <2>1, <2>2, <2>3, <2>4 DEF Framed
<1>11. CASE BuildLat
  <2>1. due' \in Seq(Frames) /\ err' \notin {"frame", "greeting"}
    BY <1>11 DEF BuildLat, Framed, Throw, peer
  <2>2. Pending'
    BY <1>11 DEF BuildLat, Framed, Pending, Unread, Throw, peer, socks
  <2>3. Greeted'
    BY <1>11 DEF BuildLat, IInv, Numbered, Framed, Greeted, Online, Throw, peer
  <2>4. Answering'
    BY <1>11 DEF BuildLat, Framed, Answering, Throw, peer
  <2> QED
    BY <2>1, <2>2, <2>3, <2>4 DEF Framed
<1>12. CASE BuildRest
  <2>1. due' \in Seq(Frames) /\ err' \notin {"frame", "greeting"}
    BY <1>12 DEF BuildRest, Framed, Throw, peer
  <2>2. Pending'
    BY <1>12 DEF BuildRest, Framed, Pending, Unread, Throw, peer, socks
  <2>3. Greeted'
    BY <1>12 DEF BuildRest, IInv, Numbered, Framed, Greeted, Online, Throw, peer
  <2>4. Answering'
    BY <1>12 DEF BuildRest, Framed, Answering, Throw, peer
  <2> QED
    BY <2>1, <2>2, <2>3, <2>4 DEF Framed
<1>13. CASE Release
  <2>1. due' \in Seq(Frames) /\ err' \notin {"frame", "greeting"}
    BY <1>13 DEF Release, Framed, Throw, peer
  <2>2. Pending'
    BY <1>13 DEF Release, Framed, Pending, Unread, Throw, peer, socks
  <2>3. Greeted'
    BY <1>13 DEF Release, IInv, Numbered, Framed, Greeted, Online, Throw, peer
  <2>4. Answering'
    BY <1>13 DEF Release, Framed, Answering, Throw, peer
  <2> QED
    BY <2>1, <2>2, <2>3, <2>4 DEF Framed
<1>14. CASE Send
  <2>1. due' \in Seq(Frames) /\ err' \notin {"frame", "greeting"}
    BY <1>14 DEF Send, Framed, Throw, peer
  <2>2. Pending'
    BY <1>14 DEF Send, Framed, Pending, Unread, Throw, peer, socks
  <2>3. Greeted'
    BY <1>14 DEF Send, IInv, Numbered, Framed, Greeted, Online, Throw, peer
  <2>4. Answering'
    BY <1>14 DEF Send, Framed, Answering, Throw, peer
  <2> QED
    BY <2>1, <2>2, <2>3, <2>4 DEF Framed
<1>15. CASE Window
  <2>1. due' \in Seq(Frames) /\ err' \notin {"frame", "greeting"}
    BY <1>15 DEF Window, Framed, Throw, peer
  <2>2. Pending'
    BY <1>15 DEF Window, Framed, Pending, Unread, Throw, peer, socks
  <2>3. Greeted'
    BY <1>15 DEF Window, IInv, Numbered, Framed, Greeted, Online, Throw, peer
  <2>4. Answering'
    BY <1>15 DEF Window, Framed, Answering, Throw, peer
  <2> QED
    BY <2>1, <2>2, <2>3, <2>4 DEF Framed
<1>16. CASE Backoff
  <2>1. due' \in Seq(Frames) /\ err' \notin {"frame", "greeting"}
    BY <1>16 DEF Backoff, Framed, Throw, peer
  <2>2. Pending'
    BY <1>16 DEF Backoff, Framed, Pending, Unread, Throw, peer, socks
  <2>3. Greeted'
    BY <1>16 DEF Backoff, IInv, Numbered, Framed, Greeted, Online, Throw, peer
  <2>4. Answering'
    BY <1>16 DEF Backoff, Framed, Answering, Throw, peer
  <2> QED
    BY <2>1, <2>2, <2>3, <2>4 DEF Framed
<1> QED
  BY <1>1, <1>2, <1>3, <1>4, <1>5, <1>6, <1>7, <1>8, <1>9, <1>10, <1>11, <1>12, <1>13, <1>14, <1>15, <1>16 DEF ReadsNothing

(* A piece of the stream is moved from what is to be read to what is read. *)
LEMMA Moved ==
    ASSUME NEW g \in Seq(Nat), NEW q \in Seq(Nat), NEW r \in 0..Len(q)
    PROVE  /\ (g \o SubSeq(q, 1, r)) \o SubSeq(q, r + 1, Len(q)) = g \o q
           /\ Len(g \o SubSeq(q, 1, r)) = Len(g) + r
<1> DEFINE a == SubSeq(q, 1, r)
           b == SubSeq(q, r + 1, Len(q))
<1>1. a \in Seq(Nat) /\ b \in Seq(Nat)
  OBVIOUS
<1>2. Len(a) = r /\ Len(b) = Len(q) - r
  OBVIOUS
<1>3. (\A j \in 1..r : a[j] = q[j]) /\ \A j \in 1..(Len(q) - r) : b[j] = q[j + r]
  OBVIOUS
<1>4. Len(q) \in Nat
  OBVIOUS
<1> HIDE DEF a, b
<1>5. a \o b = q
  <2>1. a \o b \in Seq(Nat) /\ Len(a \o b) = Len(a) + Len(b)
    BY <1>1, ConcatProperties
  <2>2. Len(a \o b) = Len(q)
    BY <1>2, <1>4, <2>1
  <2>3. ASSUME NEW j \in 1..Len(a \o b) PROVE (a \o b)[j] = q[j]
    <3>1. (a \o b)[j] = IF j <= Len(a) THEN a[j] ELSE b[j - Len(a)]
      BY <1>1, <2>1, ConcatProperties
    <3>2. CASE j <= r
      BY <1>2, <1>3, <2>2, <3>1, <3>2
    <3>3. CASE j > r
      <4>1. j - r \in 1..(Len(q) - r) /\ (j - r) + r = j
        BY <1>4, <2>2, <3>3
      <4> QED
        BY <1>2, <1>3, <3>1, <3>3, <4>1, SMTT(30)
    <3> QED
      BY <3>2, <3>3
  <2> QED
    BY <2>1, <2>2, <2>3, SeqEqual
<1>6. (g \o a) \o b = g \o (a \o b)
  BY <1>1, BytesAssociative
<1>7. Len(g \o a) = Len(g) + Len(a)
  BY <1>1, ConcatProperties, Zenon
<1> QED
  BY <1>2, <1>5, <1>6, <1>7 DEF a, b

(* A read of read_all() takes no more than the answer still wants. *)
LEMMA ReadFramed == IInv /\ Framed /\ Read => Framed'
<1> SUFFICES ASSUME IInv, Framed, Read PROVE Framed'
  OBVIOUS
<1> USE DEF Talking, Reading, Building
<1>1. CASE pc' = pc /\ got' = got /\ stream' = stream /\ conn' = [conn EXCEPT ![s] = "eof"] /\ err' = err
  <2>1. due' \in Seq(Frames) /\ err' \notin {"frame", "greeting"}
    BY <1>1 DEF Read, Framed
  <2>2. Pending'
    BY <1>1 DEF Read, IInv, TypeOK, Framed, Pending, Unread
  <2>3. Greeted'
    BY <1>1 DEF Read, Framed, Greeted, Online
  <2>4. Answering'
    BY <1>1 DEF Read, Framed, Answering
  <2> QED
    BY <2>1, <2>2, <2>3, <2>4 DEF Framed
<1>2. CASE Throw("read")
  BY <1>2 DEF Throw, Read, Framed, Pending, Greeted, Answering, Online
<1>3. CASE avail > 0 /\ UNCHANGED <<pc, err, conn>>
            /\ LET r == IF avail < goal - Len(got) THEN avail ELSE goal - Len(got) IN
               /\ got' = got \o SubSeq(stream, 1, r)
               /\ stream' = SubSeq(stream, r + 1, Len(stream))
  <2> DEFINE r == IF avail < goal - Len(got) THEN avail ELSE goal - Len(got)
  <2>1. /\ got' = got \o SubSeq(stream, 1, r)
        /\ stream' = SubSeq(stream, r + 1, Len(stream))
    BY <1>3
  <2>2. /\ got \in Seq(Nat) /\ stream \in Seq(Nat)
        /\ avail \in 0..Len(stream) /\ goal \in Nat /\ Len(got) < goal
        /\ Len(got) \in Nat /\ Len(stream) \in Nat
    BY DEF IInv, TypeOK, Read
  <2>3. r \in 0..Len(stream) /\ Len(got) + r <= goal /\ Len(got) <= Len(got) + r
    BY <2>2, <1>3
  <2> HIDE DEF r
  <2>4. got' \o stream' = got \o stream /\ Len(got') = Len(got) + r
    BY <2>1, <2>2, <2>3, Moved
  <2>5. /\ pc' = pc /\ pc \in {"head", "rest"} /\ due' = due /\ s' = s /\ conn' = conn
        /\ goal' = goal /\ hello' = hello /\ welcomed' = welcomed /\ err' = err
    BY <1>3 DEF Read
  <2>6. due' \in Seq(Frames) /\ err' \notin {"frame", "greeting"}
    BY <2>5 DEF Framed
  <2>7. Unread' = Unread
    BY <2>4, <2>5 DEF Unread
  <2>8. Pending'
    BY <2>5, <2>7 DEF Framed, Pending
  <2>9. Greeted'
    BY <2>5 DEF Framed, Greeted, Online
  <2>10. Answering'
    BY <2>2, <2>3, <2>4, <2>5 DEF Framed, Answering, HeadLen
  <2> QED
    BY <2>6, <2>8, <2>9, <2>10 DEF Framed
<1> QED
  BY <1>1, <1>2, <1>3 DEF Read

(* rest() finds the start byte, and asks for what the answer has. *)
LEMMA RestFramed == IInv /\ Framed /\ Rest => Framed'
<1> SUFFICES ASSUME IInv, Framed, Rest PROVE Framed'
  OBVIOUS
<1> USE DEF Talking, Reading, Building
<1>1. /\ pc = "head" /\ got \in Seq(Nat) /\ Len(got) = HeadLen /\ stream \in Seq(Nat)
      /\ due \in Seq(Frames)
  BY DEF IInv, TypeOK, Measured, Rest, Framed
<1>2. Begun(got, due)
  <2>1. Begun(got \o stream, due)
    BY <1>1 DEF Framed, Pending, Unread
  <2>2. got \in Seq(Nat) /\ stream \in Seq(Nat)
    BY <1>1
  <2> QED
    BY <2>1, <2>2, CutShort
<1>3. Len(got) # 0 /\ 1 \in 1..Len(got) /\ 2 \in 1..Len(got)
  BY <1>1 DEF HeadLen
<1>4. Len(due) # 0
  BY <1>1, <1>2, <1>3, SomethingDue
<1>5. Framing(Head(due))
  <2>1. Head(due) \in Frames
    BY <1>1, <1>4
  <2> QED
    BY <2>1, FramesFraming
<1>6. got[1] = Head(due)[1] /\ got[2] = Head(due)[2]
  <2>1. 1 <= Len(Head(due)) /\ 2 <= Len(Head(due))
    BY <1>5 DEF Framing, HeadLen
  <2>2. got \in Seq(Nat) /\ due \in Seq(Frames)
    BY <1>1
  <2> QED
    BY <1>2, <1>3, <1>4, <2>1, <2>2, FirstBytes
<1>7. got[1] = 123 /\ HeadLen + RestLen(got[2]) = Len(Head(due))
  BY <1>5, <1>6 DEF Framing
<1>8. /\ pc' = "rest" /\ goal' = Len(Head(due)) /\ err' = err
      /\ got' = got /\ stream' = stream /\ due' = due /\ welcomed' = welcomed
      /\ hello' = hello /\ s' = s /\ conn' = conn
  BY <1>7 DEF Rest, socks, peer
<1>9. due' \in Seq(Frames) /\ err' \notin {"frame", "greeting"}
  BY <1>8 DEF Framed
<1>10. Pending'
  BY <1>1, <1>8 DEF Framed, Pending, Unread
<1>11. Greeted'
  BY <1>1, <1>8 DEF Framed, Greeted, Online
<1>12. Answering'
  <2>1. Len(got) >= HeadLen /\ Len(got) <= Len(Head(due))
    BY <1>1, <1>5 DEF HeadLen, Framing
  <2> QED
    BY <1>4, <1>8, <2>1 DEF Answering
<1> QED
  BY <1>9, <1>10, <1>11, <1>12 DEF Framed

(* finish() finds the end byte, com_header2() the time of the greeting. *)
LEMMA FinishFramed == IInv /\ Framed /\ Finish => Framed'
<1> SUFFICES ASSUME IInv, Framed, Finish PROVE Framed'
  OBVIOUS
<1> USE DEF Talking, Reading, Building
<1>1. /\ pc = "rest" /\ got \in Seq(Nat) /\ stream \in Seq(Nat) /\ due \in Seq(Frames)
      /\ Len(due) # 0 /\ Len(got) = goal /\ goal = Len(Head(due))
  BY DEF IInv, TypeOK, Finish, Framed, Answering
<1>2. Begun(got \o stream, due) /\ (conn[s] = "up" => Complete(got \o stream, due))
  BY <1>1 DEF Framed, Pending, Unread
<1>3. got = Head(due) /\ Begun(stream, Tail(due)) /\ (conn[s] = "up" => Complete(stream, Tail(due)))
  <2>1. Len(got) = Len(Head(due))
    BY <1>1
  <2> QED
    BY <1>1, <1>2, <2>1, FirstRead
<1>4. Framing(Head(due))
  <2>1. Head(due) \in Frames
    BY <1>1
  <2> QED
    BY <2>1, FramesFraming
<1>5. got[goal] = 125
  BY <1>1, <1>3, <1>4 DEF Framing
<1>6. hello => got[3] = 0 /\ got[2] = TimeLen /\ welcomed
  <2>1. hello => Head(due) = Greeting /\ welcomed
    BY <1>1 DEF Framed, Greeted
  <2> QED
    BY <1>3, <2>1, FramesFraming
<1>7. due' = Tail(due)
  <2>1. due # <<>>
    BY <1>1
  <2> QED
    BY <2>1 DEF Finish
<1>8. /\ pc' \in {"window", "package"} /\ err' = err /\ stream' = stream
      /\ s' = s /\ conn' = conn /\ welcomed' = welcomed
  BY <1>5, <1>6 DEF Finish, socks
<1>9. due' \in Seq(Frames) /\ err' \notin {"frame", "greeting"}
  <2>1. Tail(due) \in Seq(Frames)
    BY <1>1
  <2> QED
    BY <1>7, <1>8, <2>1 DEF Framed
<1>10. Pending'
  BY <1>3, <1>7, <1>8 DEF Pending, Unread
<1>11. Greeted'
  <2>1. welcomed
    BY <1>1, <1>6 DEF Framed, Greeted, Online
  <2> QED
    BY <1>8, <2>1 DEF Greeted
<1>12. Answering'
  BY <1>8 DEF Answering
<1> QED
  BY <1>9, <1>10, <1>11, <1>12 DEF Framed

(* The server says one answer more on a connection that is up. *)
LEMMA ServerFramed ==
    ASSUME IInv, Framed, NEW frame \in Frames, Saying(frame),
           UNCHANGED <<local, socks>>, pc \notin {"hello"},
           \/ due = <<>> /\ frame = Greeting /\ welcomed'
           \/ welcomed /\ welcomed'
    PROVE  Framed'
<1> USE DEF Talking, Reading, Building
<1>1. /\ stream' = stream \o frame /\ due' = Append(due, frame) /\ conn[s] = "up"
      /\ pc' = pc /\ got' = got /\ goal' = goal /\ hello' = hello /\ err' = err
      /\ s' = s /\ conn' = conn
  BY DEF Saying, Connected, local, socks
<1>2. due \in Seq(Frames) /\ due' \in Seq(Frames) /\ Len(due') # 0
  BY <1>1 DEF Framed
<1>3. got \in Seq(Nat) /\ stream \in Seq(Nat) /\ frame \in Seq(Nat)
  BY FramesFraming DEF IInv, TypeOK, Framing
<1>4. Unread' = Unread \o frame
  <2>1. (got \o stream) \o frame = got \o (stream \o frame)
    BY <1>3, BytesAssociative
  <2> QED
    BY <1>1, <2>1 DEF Unread
<1>5. Pending'
  <2>1. pc \in Talking => Complete(Unread, due)
    BY <1>1 DEF Framed, Pending
  <2>2. pc \in Talking => Complete(Unread', due')
    BY <1>1, <1>2, <1>4, <2>1, Said
  <2>3. pc \in Talking => Begun(Unread', due')
    BY <1>2, <2>2, CompleteBegun
  <2> QED
    BY <1>1, <2>2, <2>3 DEF Pending
<1>6. due # <<>> => Len(due) # 0 /\ Head(due') = Head(due)
  <2>1. due # <<>> => Len(due) # 0
    BY <1>2
  <2>2. Len(due) # 0 => Head(Append(due, frame)) = Head(due)
    BY <1>2
  <2> QED
    BY <1>1, <2>1, <2>2
<1>7. due = <<>> => Head(due') = frame
  BY <1>1
<1>8. Greeted'
  BY <1>1, <1>2, <1>6, <1>7 DEF Framed, Greeted, Online
<1>9. Answering'
  BY <1>1, <1>2, <1>6 DEF Framed, Answering
<1>10. err' \notin {"frame", "greeting"}
  BY <1>1 DEF Framed
<1> QED
  BY <1>2, <1>5, <1>8, <1>9, <1>10 DEF Framed

(* The greeting is the first. *)
LEMMA ServerGreetsFramed == IInv /\ Framed /\ ServerGreets => Framed'
<1> SUFFICES ASSUME IInv, Framed, ServerGreets PROVE Framed'
  OBVIOUS
<1>1. due = <<>>
  BY DEF ServerGreets, Framed, Greeted
<1>2. Greeting \in Frames
  BY FramesFraming
<1>3. pc \notin {"hello"} /\ Saying(Greeting) /\ welcomed' /\ UNCHANGED <<local, socks>>
  BY DEF ServerGreets, Reading
<1> QED
  BY <1>1, <1>2, <1>3, ServerFramed

(* Confirmations and commands follow it. *)
LEMMA ServerSaysFramed == IInv /\ Framed /\ ServerSays => Framed'
<1> SUFFICES ASSUME IInv, Framed, ServerSays PROVE Framed'
  OBVIOUS
<1>1. PICK frame \in {Confirm(n) : n \in {wire} \ {0}} \cup {Command} : Saying(frame)
  BY DEF ServerSays
<1>2. wire \in 0..MaxParcel
  BY DEF IInv, TypeOK, Parcel
<1>3. frame \in Frames
  <2>1. wire # 0 => wire \in 1..MaxParcel
    BY <1>2
  <2> QED
    BY <1>1, <2>1 DEF Frames
<1>4. pc \notin {"hello"} /\ welcomed /\ welcomed' /\ UNCHANGED <<local, socks>>
  BY DEF ServerSays, Framed, Greeted
<1> QED
  BY <1>1, <1>3, <1>4, ServerFramed

(* A connection that breaks leaves a beginning of what was due. *)
LEMMA BreakFramed == IInv /\ Framed /\ Break => Framed'
<1> SUFFICES ASSUME IInv, Framed, Break PROVE Framed'
  OBVIOUS
<1> USE DEF Talking, Reading, Building
<1>1. /\ stream' = SubSeq(stream, 1, avail) /\ conn' = [conn EXCEPT ![s] = "reset"]
      /\ pc' = pc /\ got' = got /\ goal' = goal /\ hello' = hello /\ err' = err
      /\ s' = s /\ due' = due /\ welcomed' = welcomed
  BY DEF Break, local
<1>2. /\ got \in Seq(Nat) /\ stream \in Seq(Nat) /\ avail \in 0..Len(stream)
      /\ due \in Seq(Frames)
  BY DEF IInv, TypeOK, Framed
<1>3. conn'[s'] # "up"
  BY <1>1 DEF IInv, TypeOK, Break, Connected
<1> DEFINE a == SubSeq(stream, 1, avail)
           b == SubSeq(stream, avail + 1, Len(stream))
<1>4. a \in Seq(Nat) /\ b \in Seq(Nat)
  BY <1>2
<1>5. \A g \in Seq(Nat) : (g \o a) \o b = g \o stream
  BY <1>2, Moved
<1>6. <<>> \in Seq(Nat) /\ (\A g \in Seq(Nat) : <<>> \o g = g)
  BY ConcatEmptySeq
<1> HIDE DEF a, b
<1>7. pc \in {"head", "rest"} /\ Begun(got \o stream, due) => Begun(got \o a, due)
  <2>1. got \o a \in Seq(Nat) /\ b \in Seq(Nat)
    BY <1>2, <1>4, ConcatProperties
  <2>2. Begun((got \o a) \o b, due) => Begun(got \o a, due)
    BY <2>1, CutShort
  <2> QED
    BY <1>2, <1>5, <2>2
<1>8. Begun(stream, due) => Begun(a, due)
  <2>1. a \o b = stream
    <3>1. (<<>> \o a) \o b = <<>> \o stream
      BY <1>5, <1>6
    <3> QED
      BY <1>2, <1>4, <1>6, <3>1
  <2>2. Begun(a \o b, due) => Begun(a, due)
    BY <1>4, CutShort
  <2> QED
    BY <2>1, <2>2
<1>9. Pending'
  <2>1. pc \in Talking => Begun(Unread, due)
    BY DEF Framed, Pending
  <2>2. pc \in Talking => Begun(Unread', due)
    BY <1>1, <1>7, <1>8, <2>1 DEF Unread, a
  <2> QED
    BY <1>1, <1>3, <2>2 DEF Pending
<1>10. stream = <<>> => stream' = <<>>
  <2>1. Len(<<>>) = 0 /\ SubSeq(<<>>, 1, 0) = <<>>
    BY SubSeqEmpty
  <2>2. stream = <<>> => avail = 0
    BY <1>2, <2>1
  <2> QED
    BY <1>1, <2>1, <2>2
<1>11. Greeted'
  BY <1>1, <1>10 DEF Framed, Greeted, Online
<1>12. Answering'
  BY <1>1 DEF Framed, Answering
<1> QED
  BY <1>1, <1>2, <1>9, <1>11, <1>12 DEF Framed

(* The rest of the environment touches neither the stream nor what is due; *)
(* a restart empties both.                                                 *)
LEMMA OtherFramed ==
    IInv /\ Framed /\ (Deliver \/ Close \/ Elapse \/ Restart \/ GpsTakes \/ GpsWrites \/ GpsGives
                       \/ UNCHANGED vars)
    => Framed'
<1> SUFFICES ASSUME IInv, Framed, Deliver \/ Close \/ Elapse \/ Restart \/ GpsTakes \/ GpsWrites
                                  \/ GpsGives \/ UNCHANGED vars
             PROVE  Framed'
  OBVIOUS
<1> USE DEF Talking, Reading, Building
<1>1. CASE Restart
  <2>1. <<>> \in Seq(Frames)
    OBVIOUS
  <2> QED
    BY <1>1, <2>1 DEF Restart, Framed, Pending, Greeted, Answering, Online
<1>2. CASE Close
  <2>1. conn'[s'] # "up"
    BY <1>2 DEF Close, IInv, TypeOK, Connected
  <2>2. Unread' = Unread
    BY <1>2 DEF Close, local, peer, Unread
  <2> QED
    BY <1>2, <2>1, <2>2 DEF Close, local, peer, Framed, Pending, Greeted, Answering, Online
<1>3. CASE Deliver \/ Elapse \/ GpsTakes \/ GpsWrites \/ GpsGives \/ UNCHANGED vars
  <2>1. UNCHANGED <<local, socks, stream, due, welcomed>>
    BY <1>3 DEF Deliver, Elapse, GpsTakes, GpsWrites, GpsGives, vars, local, socks, peer
  <2> QED
    BY <2>1 DEF local, socks, Framed, Pending, Unread, Greeted, Answering, Online
<1> QED
  BY <1>1, <1>2, <1>3

(* With a correct server every step of the system keeps the stream in step: *)
(* the answers of this connection, read in pieces, late or cut off.        *)
THEOREM StepFramed == IInv /\ Noise = {} /\ Framed /\ [Next]_vars => Framed'
<1>1. Noise = {} => ~ServerBabbles
  BY DEF ServerBabbles
<1> QED
  BY <1>1, EasyStep, ReadFramed, RestFramed, FinishFramed, ServerGreetsFramed, ServerSaysFramed,
     BreakFramed, OtherFramed DEF Next, Task, Environment, ReadsNothing

(* That is what StreamInSync says. *)
LEMMA FramedInStep == Noise = {} /\ IInv /\ Framed => StreamInSync
<1> SUFFICES ASSUME Noise = {}, IInv, Framed PROVE StreamInSync
  OBVIOUS
<1> DEFINE head == IF pc \in {"head", "rest"} THEN got ELSE <<>>
<1>1. got \in Seq(Nat) /\ stream \in Seq(Nat) /\ <<>> \in Seq(Nat)
  BY DEF IInv, TypeOK
<1>2. head \o stream \in Seq(Nat) /\ head \o stream = Unread
  <2>1. <<>> \o stream = stream
    BY <1>1, ConcatEmptySeq
  <2>2. got \o stream \in Seq(Nat)
    BY <1>1, ConcatProperties
  <2> QED
    BY <1>1, <2>1, <2>2 DEF Unread
<1> HIDE DEF head
<1>3. pc \in {"package", "window"} \cup Reading \cup Building => IsPrefix(head \o stream, FlattenSeq(due))
  BY <1>2, BegunPrefix DEF Framed, Pending, Talking
<1> QED
  BY <1>3 DEF StreamInSync, head, Framed

(* With a correct server the bytes read and to be read are the beginning   *)
(* of whole answers of this connection, and no exception is ever about a   *)
(* malformed one, for every way the network cuts the stream into pieces,   *)
(* every failure and every restart.                                        *)
THEOREM InStep == Spec => []StreamInSync
<1>1. Noise = {} /\ IInv /\ Framed => StreamInSync
  BY FramedInStep
<1>2. Noise # {} => StreamInSync
  BY DEF StreamInSync
<1>3. (Noise = {} => Framed) /\ IInv => StreamInSync
  BY <1>1, <1>2
<1>4. Init => (Noise = {} => Framed)
  BY InitFramed
<1>5. IInv /\ (Noise = {} => Framed) /\ [Next]_vars => (Noise = {} => Framed)'
  BY StepFramed
<1> QED
  BY <1>3, <1>4, <1>5, Invariance, PTL DEF Spec

(* The task is in the loop or reads an answer only on a connection whose   *)
(* greeting this very connection's server has sent: with any number of     *)
(* reconnections, no late answer of an earlier one lets it in.             *)
THEOREM WelcomedSafe == Spec => []OnlineOnlyIfWelcomed
<1>1. Framed => OnlineOnlyIfWelcomed
  BY DEF Framed, Greeted, OnlineOnlyIfWelcomed
<1>2. Noise # {} => OnlineOnlyIfWelcomed
  BY DEF OnlineOnlyIfWelcomed
<1>3. (Noise = {} => Framed) => OnlineOnlyIfWelcomed
  BY <1>1, <1>2
<1>4. Init => (Noise = {} => Framed)
  BY InitFramed
<1>5. IInv /\ (Noise = {} => Framed) /\ [Next]_vars => (Noise = {} => Framed)'
  BY StepFramed
<1> QED
  BY <1>3, <1>4, <1>5, Invariance, PTL DEF Spec
=============================================================================
