------------------------ MODULE ServerProtocolProofs ------------------------
(***************************************************************************)
(* Proofs about ServerProtocol, for every array of at least 261 bytes,     *)
(* every number, time and value the caller sends and everything a server   *)
(* may answer: no store falls outside the array, what output() hands out   *)
(* is the message that was asked for, and the answers taken are the        *)
(* frames, with their data.                                                *)
(***************************************************************************)
EXTENDS ServerProtocol, FiniteSetsExt, FiniteSetTheorems, SequenceTheorems, TLAPS

(* how far the builder is at each of the caller's calls *)
Cursor ==
    /\ step \notin {"package", "packet", "output"} => pos = 0
    /\ step = "package" =>
         /\ pos \in 2..25
         /\ DOMAIN asked = {"kind", "parcel", "packets"}
         /\ asked.packets = <<>> => pos = 2
    /\ step = "packet" =>
         /\ pos = 9 + 5 * tags
         /\ pkt.len_pos = 3
         /\ DOMAIN asked = {"kind", "parcel", "packets"}
         /\ DOMAIN asked.packets = {1}
    /\ step = "output" => pos <= 26

(* the first bytes of the array are those of the answer *)
Copied(first, last) ==
    /\ Len(got) > last
    /\ \A k \in first..last : buf[k] = got[k + 1]

HeadRead == Copied(0, 2)

RestRead ==
    /\ Len(got) > 2
    /\ got[1] = 123
    /\ com = [at |-> DataAt(got[2]), size |-> got[2], parcel |-> got[3]]
    /\ Copied(3, 2 + RestSegment(got[2]).size)

Answered ==
    /\ got \in Seq(Byte)
    /\ step \in {"hello_rest", "rest"} => HeadRead
    /\ step \in {"hello_finish", "finish", "com_header2", "greeted", "answered"} => RestRead
    /\ step \in {"com_header2", "greeted", "answered"} => buf[com.at + com.size] = 125

IInv == TypeOK /\ Cursor /\ Answered
-----------------------------------------------------------------------------
(* Storing bytes keeps the array an array of bytes, and stores them. *)
LEMMA PutBytes ==
    ASSUME NEW b \in [0..(BufSize - 1) -> Byte], NEW at \in Nat, NEW bytes \in Seq(Byte)
    PROVE  /\ Put(b, at, bytes) \in [0..(BufSize - 1) -> Byte]
           /\ at + Len(bytes) <= BufSize =>
                \A k \in at..(at + Len(bytes) - 1) : Put(b, at, bytes)[k] = bytes[k - at + 1]
<1>1. Len(bytes) \in Nat /\ \A j \in 1..Len(bytes) : bytes[j] \in Byte
  BY LenProperties, ElementOfSeq
<1>2. BufSize \in Nat
  BY ProtocolAssumption
<1>3. \A k \in 0..(BufSize - 1) :
        (at <= k /\ k < at + Len(bytes)) => k - at + 1 \in 1..Len(bytes)
  BY <1>1, <1>2
<1>4. Put(b, at, bytes) \in [0..(BufSize - 1) -> Byte]
  BY <1>1, <1>3 DEF Put
<1>5. ASSUME at + Len(bytes) <= BufSize, NEW k \in at..(at + Len(bytes) - 1)
      PROVE  Put(b, at, bytes)[k] = bytes[k - at + 1]
  BY <1>1, <1>2, <1>5 DEF Put
<1> QED
  BY <1>4, <1>5

(* What the builder stores are bytes. *)
LEMMA WordBytes ==
    ASSUME NEW v \in Word
    PROVE  v \in Seq(Byte) /\ Len(v) = 4 /\ \A j \in 1..4 : v[j] \in Byte
<1>1. \A j \in 1..4 : v[j] \in Byte
  BY DEF Word
<1>2. v = [j \in 1..4 |-> v[j]]
  BY DEF Word
<1>3. [j \in 1..4 |-> v[j]] \in Seq(Byte) /\ Len([j \in 1..4 |-> v[j]]) = 4
  BY <1>1
<1> QED
  BY <1>1, <1>2, <1>3

(* The checksum is one. *)
LEMMA SumIsByte ==
    ASSUME NEW sum \in Byte, NEW v \in Word
    PROVE  Append4(sum, v) \in Byte
<1>1. v[1] \in Byte /\ v[2] \in Byte /\ v[3] \in Byte /\ v[4] \in Byte
  BY WordBytes
<1>2. sum + v[1] + v[2] + v[3] + v[4] \in Nat
  <2>1. \A a, b, c, d, e \in Byte : a + b + c + d + e \in Nat
    BY DEF Byte
  <2> QED
    BY <1>1, <2>1
<1>3. \A n \in Nat : n % 256 \in Byte
  BY DEF Byte
<1> QED
  BY <1>2, <1>3 DEF Append4

(* A byte or more before others. *)
LEMMA Joined ==
    ASSUME NEW s \in Seq(Byte), NEW t \in Seq(Byte)
    PROVE  s \o t \in Seq(Byte) /\ Len(s \o t) = Len(s) + Len(t)
  BY ConcatProperties

(* The length of a packet is two bytes. *)
LEMMA LengthBytes ==
    ASSUME NEW n \in Nat
    PROVE  LE16(n) \in Seq(Byte) /\ Len(LE16(n)) = 2
<1>1. n % 256 \in Byte /\ (n \div 256) % 256 \in Byte
  BY DEF Byte
<1> QED
  BY <1>1 DEF LE16

(* The invariant holds initially. *)
LEMMA InitIInv == Init => IInv
<1> SUFFICES ASSUME Init PROVE IInv
  OBVIOUS
<1>1. BufSize \in Nat
  BY ProtocolAssumption
<1>2. TypeOK
  BY <1>1 DEF Init, TypeOK, NoPacket, NoCom, Byte, Steps, MaxTags
<1> QED
  BY <1>2 DEF Init, IInv, Cursor, Answered
-----------------------------------------------------------------------------
(* The builder's calls, which leave the answer alone. *)
LEMMA EmitBytes ==
    ASSUME IInv, NEW bytes \in Seq(Byte), NEW n, Len(bytes) = n, Emit(bytes)
    PROVE  buf' \in [0..(BufSize - 1) -> Byte] /\ pos' = pos + n
<1>1. buf \in [0..(BufSize - 1) -> Byte] /\ pos \in Nat
  BY DEF IInv, TypeOK
<1>2. buf' = Put(buf, pos, bytes) /\ pos' = pos + n
  BY DEF Emit
<1> QED
  BY <1>1, <1>2, PutBytes

(* The introduction is ten bytes. *)
LEMMA BuildHeader2Step == IInv /\ BuildHeader2 => IInv'
<1> SUFFICES ASSUME IInv, BuildHeader2 PROVE IInv'
  OBVIOUS
<1>1. Imei \in Seq(Byte) /\ Len(Imei) = 8
  <2>1. Imei = [j \in 1..8 |-> Imei[j]] /\ \A j \in 1..8 : Imei[j] \in Byte
    BY ProtocolAssumption
  <2>2. [j \in 1..8 |-> Imei[j]] \in Seq(Byte) /\ Len([j \in 1..8 |-> Imei[j]]) = 8
    BY <2>1
  <2> QED
    BY <2>1, <2>2
<1>2. <<255, 35>> \in Seq(Byte) /\ Len(<<255, 35>>) = 2
  BY DEF Byte
<1> DEFINE bytes == <<255, 35>> \o Imei
<1>3. bytes \in Seq(Byte) /\ Len(bytes) = Len(<<255, 35>>) + Len(Imei)
  BY <1>1, <1>2, Joined, Zenon
<1>4. Emit(bytes)
  BY DEF BuildHeader2
<1> HIDE DEF bytes
<1>5. Len(bytes) = 10
  BY <1>1, <1>2, <1>3
<1>6. buf' \in [0..(BufSize - 1) -> Byte] /\ pos' = pos + 10
  BY <1>3, <1>4, <1>5, EmitBytes
<1>7. pos' = 10
  BY <1>6 DEF BuildHeader2, IInv, Cursor
<1> QED
  BY <1>6, <1>7 DEF BuildHeader2, IInv, TypeOK, Cursor, Answered, Steps

(* The head of a package is two. *)
LEMMA BeginPackageStep == ASSUME IInv, NEW n \in Parcels, BeginPackage(n) PROVE IInv'
<1> DEFINE bytes == <<91, n>>
<1>1. bytes \in Seq(Byte) /\ Len(bytes) = 2
  BY ProtocolAssumption DEF Byte
<1>2. Emit(bytes)
  BY DEF BeginPackage
<1> HIDE DEF bytes
<1>3. buf' \in [0..(BufSize - 1) -> Byte] /\ pos' = pos + 2
  BY <1>1, <1>2, EmitBytes
<1>4. pos' = 2
  BY <1>3 DEF BeginPackage, IInv, Cursor
<1> QED
  BY <1>3, <1>4 DEF BeginPackage, IInv, TypeOK, Cursor, Answered, Steps

(* The length is left out, to be stored when the packet is complete. *)
LEMMA BeginPacketStep == ASSUME IInv, NEW t \in Times, BeginPacket(t) PROVE IInv'
<1>1. t \in Word /\ t \in Seq(Byte)
  BY ProtocolAssumption, WordBytes
<1>2. pos = 2
  BY DEF BeginPacket, IInv, Cursor
<1>3. <<1>> \in Seq(Byte)
  BY DEF Byte
<1>4. buf' \in [0..(BufSize - 1) -> Byte]
  <2>1. buf' = Put(Put(buf, pos, <<1>>), pos + 3, t)
    BY DEF BeginPacket
  <2>2. buf \in [0..(BufSize - 1) -> Byte] /\ pos \in Nat /\ pos + 3 \in Nat
    BY <1>2 DEF IInv, TypeOK
  <2>3. Put(buf, pos, <<1>>) \in [0..(BufSize - 1) -> Byte]
    BY <1>3, <2>2, PutBytes, Zenon
  <2> QED
    BY <1>1, <2>1, <2>2, <2>3, PutBytes, Zenon
<1>5. Append4(0, t) \in Byte
  <2>1. 0 \in Byte
    BY DEF Byte
  <2> QED
    BY <1>1, <2>1, SumIsByte, Zenon
<1>6. pos' = 9 /\ pkt' = [len_pos |-> 3, sum |-> Append4(0, t)] /\ tags' = 0
  BY <1>2 DEF BeginPacket
<1>7. /\ DOMAIN asked' = {"kind", "parcel", "packets"}
      /\ asked'.packets = <<[time |-> t, tags |-> <<>>]>>
  BY DEF BeginPacket, IInv, Cursor
<1>8. DOMAIN asked'.packets = {1}
  BY <1>7
<1>9. TypeOK'
  BY <1>4, <1>5, <1>6 DEF BeginPacket, IInv, TypeOK, Steps, MaxTags
<1>10. Cursor'
  BY <1>6, <1>7, <1>8 DEF BeginPacket, Cursor
<1> QED
  BY <1>9, <1>10 DEF BeginPacket, IInv, Answered

(* A tag is its number and four bytes. *)
LEMMA WriteTagStep == ASSUME IInv, NEW v \in TagValues, WriteTag(3 + tags, v) PROVE IInv'
<1>1. v \in Word /\ v \in Seq(Byte) /\ Len(v) = 4
  BY ProtocolAssumption, WordBytes
<1>2. tags \in 0..2
  BY DEF WriteTag, IInv, TypeOK, MaxTags
<1>3. <<3 + tags>> \in Seq(Byte) /\ Len(<<3 + tags>>) = 1
  BY <1>2 DEF Byte
<1> DEFINE bytes == <<3 + tags>> \o v
<1>4. bytes \in Seq(Byte) /\ Len(bytes) = Len(<<3 + tags>>) + Len(v)
  BY <1>1, <1>3, Joined, Zenon
<1>5. buf' \in [0..(BufSize - 1) -> Byte] /\ pos' = pos + 5
  <2>1. Emit(bytes)
    BY DEF WriteTag
  <2> HIDE DEF bytes
  <2>2. Len(bytes) = 5
    BY <1>1, <1>3, <1>4
  <2> QED
    BY <1>4, <2>1, <2>2, EmitBytes
<1>6. pkt \in [len_pos : Nat, sum : Byte]
  BY DEF IInv, TypeOK
<1>7. pkt' \in [len_pos : Nat, sum : Byte] /\ pkt'.len_pos = pkt.len_pos
  <2>1. \A s \in Byte : (s + (3 + tags)) % 256 \in Byte
    BY <1>2 DEF Byte
  <2>2. (pkt.sum + (3 + tags)) % 256 \in Byte
    BY <1>6, <2>1
  <2>3. Append4((pkt.sum + (3 + tags)) % 256, v) \in Byte
    BY <1>1, <2>2, SumIsByte
  <2>4. pkt' = [pkt EXCEPT !.sum = Append4((pkt.sum + (3 + tags)) % 256, v)]
    BY DEF WriteTag
  <2> QED
    BY <1>6, <2>3, <2>4
<1>8. DOMAIN asked' = {"kind", "parcel", "packets"} /\ DOMAIN asked'.packets = {1}
  <2>1. /\ step = "packet"
        /\ DOMAIN asked = {"kind", "parcel", "packets"} /\ DOMAIN asked.packets = {1}
    BY DEF WriteTag, IInv, Cursor
  <2> DEFINE packet == [asked.packets[1] EXCEPT !.tags = Append(@, <<3 + tags>> \o v)]
             packets == [asked.packets EXCEPT ![1] = packet]
  <2>2. asked' = [asked EXCEPT !.packets = packets]
    BY DEF WriteTag
  <2> HIDE DEF packet
  <2>3. DOMAIN asked' = DOMAIN asked
    BY <2>2
  <2>4. asked'.packets = packets
    BY <2>1, <2>2
  <2>5. DOMAIN asked'.packets = DOMAIN asked.packets
    BY <2>4
  <2> QED
    BY <2>1, <2>3, <2>5
<1>9. TypeOK'
  BY <1>2, <1>5, <1>7 DEF WriteTag, IInv, TypeOK, MaxTags
<1>10. Cursor'
  BY <1>2, <1>5, <1>7, <1>8 DEF WriteTag, IInv, Cursor
<1> QED
  BY <1>9, <1>10 DEF WriteTag, IInv, Answered

(* The length is patched in behind the cursor. *)
LEMMA EndPacketStep == IInv /\ EndPacket => IInv'
<1> SUFFICES ASSUME IInv, EndPacket PROVE IInv'
  OBVIOUS
<1>1. tags \in 2..3 /\ pos = 9 + 5 * tags /\ pkt.len_pos = 3
  BY DEF EndPacket, IInv, TypeOK, MaxTags, Cursor
<1>2. pos - pkt.len_pos - 6 \in Nat /\ pos \in Nat /\ pkt.len_pos \in Nat
  BY <1>1
<1> DEFINE length == LE16(pos - pkt.len_pos - 6)
<1>3. length \in Seq(Byte) /\ <<pkt.sum>> \in Seq(Byte)
  <2>1. pkt.sum \in Byte
    BY DEF IInv, TypeOK
  <2> QED
    BY <1>2, <2>1, LengthBytes
<1>4. buf' = Put(Put(buf, pkt.len_pos, length), pos, <<pkt.sum>>)
  BY DEF EndPacket
<1> HIDE DEF length
<1>5. buf' \in [0..(BufSize - 1) -> Byte]
  <2>1. buf \in [0..(BufSize - 1) -> Byte]
    BY DEF IInv, TypeOK
  <2>2. Put(buf, pkt.len_pos, length) \in [0..(BufSize - 1) -> Byte]
    BY <1>2, <1>3, <2>1, PutBytes, Zenon
  <2> QED
    BY <1>2, <1>3, <1>4, <2>2, PutBytes, Zenon
<1>6. /\ DOMAIN asked = {"kind", "parcel", "packets"} /\ asked.packets # <<>>
      /\ asked' = asked
  <2>1. DOMAIN asked.packets = {1} /\ DOMAIN <<>> = {}
    BY DEF EndPacket, IInv, Cursor
  <2> QED
    BY <2>1 DEF EndPacket, IInv, Cursor
<1>7. TypeOK'
  BY <1>1, <1>5 DEF EndPacket, IInv, TypeOK, Steps
<1>8. Cursor'
  BY <1>1, <1>6 DEF EndPacket, Cursor
<1> QED
  BY <1>7, <1>8 DEF EndPacket, IInv, Answered

(* The end of a package is one byte. *)
LEMMA EndPackageStep == IInv /\ EndPackage => IInv'
<1> SUFFICES ASSUME IInv, EndPackage PROVE IInv'
  OBVIOUS
<1>1. <<93>> \in Seq(Byte) /\ Len(<<93>>) = 1
  BY DEF Byte
<1>2. buf' \in [0..(BufSize - 1) -> Byte] /\ pos' = pos + 1
  BY <1>1, EmitBytes, Zenon DEF EndPackage
<1> QED
  BY <1>2 DEF EndPackage, IInv, TypeOK, Cursor, Answered, Steps
-----------------------------------------------------------------------------
(* The bytes of an answer from one place to another. *)
LEMMA Fetched ==
    ASSUME NEW m, NEW first \in Int, NEW last \in Int, first <= last,
           \A j \in first..last : m[j] \in Byte
    PROVE  /\ SubSeq(m, first, last) \in Seq(Byte)
           /\ Len(SubSeq(m, first, last)) = last - first + 1
           /\ \A j \in 1..(last - first + 1) : SubSeq(m, first, last)[j] = m[first + j - 1]
  BY SubSeqProperties

(* The answer's head is read over whatever was in the array. *)
LEMMA ReadBeginStep == ASSUME IInv, NEW m \in Incoming, ReadBegin(m) PROVE IInv'
<1>1. m \in Seq(Byte) /\ Len(m) \in Nat /\ Len(m) >= 3
  BY ProtocolAssumption, LenProperties DEF HeadLen
<1> DEFINE head == SubSeq(m, 1, HeadLen)
<1>2. head \in Seq(Byte) /\ Len(head) = 3 /\ \A j \in 1..3 : head[j] = m[j]
  <2>1. \A j \in 1..3 : m[j] \in Byte
    BY <1>1, ElementOfSeq
  <2>2. /\ head \in Seq(Byte) /\ Len(head) = 3
        /\ \A j \in 1..3 : head[j] = m[1 + j - 1]
    BY <2>1, SubSeqProperties DEF HeadLen
  <2> QED
    BY <2>2
<1>3. buf' = Put(buf, 0, head) /\ got' = m
  BY DEF ReadBegin
<1>4. /\ buf' \in [0..(BufSize - 1) -> Byte]
      /\ \A k \in 0..2 : buf'[k] = head[k - 0 + 1]
  <2> HIDE DEF head
  <2>1. 0 + Len(head) <= BufSize /\ 0 \in Nat
    BY <1>2, ProtocolAssumption
  <2>2. buf \in [0..(BufSize - 1) -> Byte]
    BY DEF IInv, TypeOK
  <2>3. /\ Put(buf, 0, head) \in [0..(BufSize - 1) -> Byte]
        /\ \A k \in 0..(0 + Len(head) - 1) : Put(buf, 0, head)[k] = head[k - 0 + 1]
    BY <1>2, <2>1, <2>2, PutBytes, Zenon
  <2> QED
    BY <1>2, <1>3, <2>3
<1>5. \A k \in 0..2 : buf'[k] = got'[k + 1]
  BY <1>2, <1>3, <1>4
<1>6. TypeOK'
  BY <1>4 DEF ReadBegin, IInv, TypeOK, builder, NoCom, Byte, Steps
<1>7. Cursor'
  BY DEF ReadBegin, IInv, Cursor, builder
<1>8. Answered'
  BY <1>1, <1>3, <1>5 DEF ReadBegin, Answered, HeadRead, Copied
<1> QED
  BY <1>6, <1>7, <1>8 DEF IInv

(* What rest() asks for lies behind the head, and inside the array. *)
LEMMA RestLies ==
    ASSUME NEW size \in Byte
    PROVE  /\ RestSegment(size).at = 3 /\ RestSegment(size).size \in 1..257
           /\ DataAt(size) \in {3, 4}
           /\ DataAt(size) + size = 2 + RestSegment(size).size
           /\ DataAt(size) + size < BufSize
  BY ProtocolAssumption DEF RestSegment, DataAt, Byte

(* The rest is read behind the head that says how much there is. *)
LEMMA ReadRestStep == IInv /\ ReadRest => IInv'
<1> SUFFICES ASSUME IInv, ReadRest PROVE IInv'
  OBVIOUS
<1>1. /\ got \in Seq(Byte) /\ Len(got) \in Nat /\ Len(got) > 2
      /\ buf[0] = got[1] /\ buf[1] = got[2] /\ buf[2] = got[3]
  <2>1. HeadRead /\ got \in Seq(Byte)
    BY DEF ReadRest, IInv, Answered
  <2>2. 0 \in 0..2 /\ 1 \in 0..2 /\ 2 \in 0..2
    OBVIOUS
  <2>3. buf[0] = got[0 + 1] /\ buf[1] = got[1 + 1] /\ buf[2] = got[2 + 1]
    BY <2>1, <2>2 DEF HeadRead, Copied
  <2> QED
    BY <2>1, <2>3, LenProperties DEF HeadRead, Copied
<1>2. got[2] \in Byte /\ got[3] \in Byte
  BY <1>1, ElementOfSeq
<1>3. CASE buf[0] # 123
  BY <1>3 DEF ReadRest, IInv, TypeOK, Cursor, Answered, builder, Steps
<1>4. CASE buf[0] = 123
  <2> DEFINE n == RestSegment(got[2]).size
             rest == SubSeq(got, HeadLen + 1, HeadLen + n)
  <2>1. /\ com' = [at |-> DataAt(got[2]), size |-> got[2], parcel |-> got[3]]
        /\ Len(got) >= 3 + n
        /\ buf' = Put(buf, 3, rest)
        /\ step' = IF step = "rest" THEN "finish" ELSE "hello_finish"
        /\ UNCHANGED <<pos, pkt, tags, asked, got>>
    BY <1>1, <1>2, <1>4, RestLies DEF ReadRest, builder, HeadLen
  <2>2. n \in 1..257
    BY <1>2, RestLies
  <2> HIDE DEF n
  <2>3. /\ rest \in Seq(Byte) /\ Len(rest) = n
        /\ \A j \in 1..n : rest[j] = got[j + 3]
    <3> DEFINE last == 3 + n
    <3>1. 4 \in Int /\ last \in Int /\ 4 <= last /\ last <= Len(got) /\ last - 4 + 1 = n
      BY <1>1, <2>1, <2>2
    <3>2. rest = SubSeq(got, 4, last)
      BY DEF HeadLen
    <3> HIDE DEF last, rest
    <3>3. \A j \in 4..last : got[j] \in Byte
      BY <1>1, <3>1, ElementOfSeq
    <3>4. /\ SubSeq(got, 4, last) \in Seq(Byte)
          /\ Len(SubSeq(got, 4, last)) = last - 4 + 1
          /\ \A j \in 1..(last - 4 + 1) : SubSeq(got, 4, last)[j] = got[4 + j - 1]
      BY <3>1, <3>3, Fetched
    <3>5. \A j \in 1..n : 4 + j - 1 = j + 3
      BY <2>2
    <3> QED
      BY <3>1, <3>2, <3>4, <3>5
  <2> HIDE DEF rest
  <2>4. /\ buf' \in [0..(BufSize - 1) -> Byte]
        /\ \A k \in 3..(2 + n) : buf'[k] = got[k + 1]
    <3>1. 3 + Len(rest) <= BufSize
      BY <2>2, <2>3, ProtocolAssumption
    <3>2. /\ buf' \in [0..(BufSize - 1) -> Byte]
          /\ \A k \in 3..(3 + n - 1) : buf'[k] = rest[k - 3 + 1]
      <4>1. buf \in [0..(BufSize - 1) -> Byte] /\ 3 \in Nat
        BY DEF IInv, TypeOK
      <4>2. /\ Put(buf, 3, rest) \in [0..(BufSize - 1) -> Byte]
            /\ \A k \in 3..(3 + Len(rest) - 1) : Put(buf, 3, rest)[k] = rest[k - 3 + 1]
        BY <2>3, <3>1, <4>1, PutBytes, Zenon
      <4> QED
        BY <2>1, <2>3, <4>2
    <3>3. ASSUME NEW k \in 3..(2 + n) PROVE buf'[k] = got[k + 1]
      <4>1. k \in 3..(3 + n - 1) /\ k - 3 + 1 \in 1..n /\ (k - 3 + 1) + 3 = k + 1
        BY <2>2
      <4>2. buf'[k] = rest[k - 3 + 1]
        BY <3>2, <4>1
      <4>3. rest[k - 3 + 1] = got[(k - 3 + 1) + 3]
        BY <2>3, <4>1
      <4> QED
        BY <4>1, <4>2, <4>3
    <3> QED
      BY <3>2, <3>3
  <2>5. RestRead'
    <3>1. Len(got') > 2 /\ got'[1] = 123 /\ n = RestSegment(got'[2]).size
      BY <1>1, <1>4, <2>1 DEF n
    <3>2. com' = [at |-> DataAt(got'[2]), size |-> got'[2], parcel |-> got'[3]]
      BY <2>1
    <3>3. Len(got') > 2 + n /\ \A k \in 3..(2 + n) : buf'[k] = got'[k + 1]
      <4>1. Len(got) \in Nat /\ Len(got) >= 3 + n /\ got' = got
        BY <1>1, <2>1
      <4>2. Len(got') > 2 + n
        BY <2>2, <4>1
      <4> QED
        BY <2>4, <4>1, <4>2
    <3> QED
      BY <3>1, <3>2, <3>3 DEF RestRead, Copied
  <2>6. TypeOK'
    BY <1>2, <2>1, <2>4, RestLies DEF IInv, TypeOK, Steps
  <2>7. Cursor'
    BY <2>1 DEF IInv, Cursor, ReadRest
  <2>8. Answered'
    BY <1>1, <2>1, <2>5 DEF Answered
  <2> QED
    BY <2>6, <2>7, <2>8 DEF IInv
<1> QED
  BY <1>3, <1>4

(* The caller's use of an answer that has been read. *)
LEMMA FinishStep == IInv /\ (Finish \/ ComHeader2 \/ UseAnswer) => IInv'
<1> SUFFICES ASSUME IInv, Finish \/ ComHeader2 \/ UseAnswer PROVE IInv'
  OBVIOUS
<1> USE DEF IInv, builder
<1>1. CASE Finish
  BY <1>1 DEF Finish, TypeOK, Cursor, Answered, RestRead, Copied, Steps
<1>2. CASE ComHeader2
  BY <1>2 DEF ComHeader2, TypeOK, Cursor, Answered, RestRead, Copied, Steps
<1>3. CASE UseAnswer
  BY <1>3 DEF UseAnswer, TypeOK, Cursor, Answered, RestRead, Copied, Steps
<1> QED
  BY <1>1, <1>2, <1>3

(* The rest of the builder's calls. *)
LEMMA ResetStep == IInv /\ (Reset \/ Output) => IInv'
  BY DEF IInv, Reset, Output, TypeOK, Cursor, Answered, HeadRead, RestRead, Copied, Steps
-----------------------------------------------------------------------------
(* The invariant holds in every reachable state. *)
LEMMA Invariance == Spec => []IInv
<1>1. ASSUME IInv, [Next]_vars PROVE IInv'
  <2>1. CASE UNCHANGED vars
    BY <1>1, <2>1 DEF vars, IInv, TypeOK, Cursor, Answered, HeadRead, RestRead, Copied
  <2> QED
    BY <1>1, <2>1, ResetStep, BuildHeader2Step, BeginPackageStep, BeginPacketStep,
       WriteTagStep, EndPacketStep, EndPackageStep, ReadBeginStep, ReadRestStep,
       FinishStep DEF Next
<1> QED
  BY <1>1, InitIInv, PTL DEF Spec

(* Every variable of protocol.hpp's objects keeps its range, the running   *)
(* checksum and all that is stored included.                               *)
THEOREM TypeCorrect == Spec => []TypeOK
<1>1. IInv => TypeOK
  BY DEF IInv
<1> QED
  BY <1>1, Invariance, PTL

(* The unchecked stores of begin_package(), end_packet() and end_package() *)
(* and the longest segment rest() can ask for end inside buf.              *)
THEOREM StoresInside == Spec => []InsideBuf
<1>1. IInv => InsideBuf
  <2> SUFFICES ASSUME IInv PROVE InsideBuf
    OBVIOUS
  <2>1. pos <= BufSize
    <3>1. pos <= 26
      BY DEF IInv, Cursor, TypeOK, MaxTags
    <3> QED
      BY <3>1, ProtocolAssumption DEF IInv, TypeOK
  <2>2. ASSUME step \in {"finish", "hello_finish"} PROVE com.at + com.size < BufSize
    <3>1. com = [at |-> DataAt(got[2]), size |-> got[2], parcel |-> got[3]]
      BY <2>2 DEF IInv, Answered, RestRead
    <3>2. got[2] \in Byte
      BY <3>1 DEF IInv, TypeOK
    <3> QED
      BY <3>1, <3>2, RestLies
  <2> QED
    BY <2>1, <2>2 DEF InsideBuf
<1> QED
  BY <1>1, Invariance, PTL

(* An answer that has been read is a frame if, and only if, its terminator *)
(* is where finish() looks for it.                                         *)
LEMMA FrameRead ==
    ASSUME IInv, RestRead
    PROVE  /\ com.size = got[2] /\ com.parcel = got[3] /\ com.size \in Byte
           /\ com.at + com.size + 1 = FrameLen(got)
           /\ FrameLen(got) \in 4..Len(got)
           /\ IsFrame(got) <=> buf[com.at + com.size] = 125
           /\ Slice(buf, com.at, com.size) = FrameData(got)
<1>1. /\ com = [at |-> DataAt(got[2]), size |-> got[2], parcel |-> got[3]]
      /\ got \in Seq(Byte) /\ Len(got) \in Nat /\ got[1] = 123 /\ Len(got) > 2
  BY LenProperties DEF IInv, Answered, RestRead
<1>2. got[2] \in Byte
  BY <1>1 DEF IInv, TypeOK
<1> DEFINE end == com.at + com.size
<1>3. /\ end = 2 + RestSegment(got[2]).size
      /\ com.at \in {3, 4} /\ end \in 3..259 /\ end + 1 = FrameLen(got)
  <2>1. com.at = DataAt(got[2]) /\ com.size = got[2]
    BY <1>1
  <2>2. \A size \in Byte :
          /\ DataAt(size) + size = 2 + RestSegment(size).size
          /\ DataAt(size) \in {3, 4} /\ DataAt(size) + size \in 3..259
          /\ DataAt(size) + size + 1 = 3 + (IF size > 0 THEN 1 + size ELSE 0) + 1
    BY DEF RestSegment, DataAt, Byte
  <2>3. FrameLen(got) = 3 + (IF got[2] > 0 THEN 1 + got[2] ELSE 0) + 1
    BY DEF FrameLen, HeadLen
  <2> QED
    BY <1>2, <2>1, <2>2, <2>3
<1> HIDE DEF end
<1>4. Len(got) > end /\ \A k \in 3..end : buf[k] = got[k + 1]
  BY <1>3 DEF RestRead, Copied
<1>5. IsFrame(got) <=> buf[end] = 125
  <2>0. end \in 3..259 /\ end + 1 = FrameLen(got)
    BY <1>3
  <2>1. buf[end] = got[FrameLen(got)]
    <3>1. buf[end] = got[end + 1]
      BY <1>4, <2>0
    <3> QED
      BY <2>0, <3>1
  <2>2. Len(got) >= 4 /\ Len(got) >= end + 1
    <3>1. Len(got) \in Nat /\ Len(got) > end
      BY <1>1, <1>4
    <3> QED
      BY ONLY <2>0, <3>1
  <2>3. Len(got) >= FrameLen(got)
    BY <2>0, <2>2
  <2> QED
    BY <1>1, <2>1, <2>2, <2>3 DEF IsFrame, HeadLen
<1>6. Slice(buf, com.at, com.size) = FrameData(got)
  <2> DEFINE first == FrameLen(got) - got[2]
             last == FrameLen(got) - 1
  <2>1. /\ first = com.at + 1 /\ last = end /\ last - first + 1 = com.size
        /\ first \in Int /\ last \in Int /\ com.size \in Nat /\ first >= 4
    <3>1. com.size = got[2] /\ com.size \in Nat
      <4>1. Byte \subseteq Nat
        BY DEF Byte
      <4> QED
        BY <1>1, <1>2, <4>1
    <3>2. end = com.at + com.size /\ com.at \in {3, 4} /\ end + 1 = FrameLen(got)
      BY <1>3 DEF end
    <3>3. FrameLen(got) = com.at + com.size + 1 /\ com.at \in Int
      BY <3>2
    <3> QED
      BY <3>1, <3>2, <3>3
  <2>2. \A j \in first..last : got[j] \in Byte
    BY <1>1, <1>3, <1>4, <2>1, ElementOfSeq, SMTT(30)
  <2> HIDE DEF first, last
  <2>3. /\ SubSeq(got, first, last) \in Seq(Byte)
        /\ Len(SubSeq(got, first, last)) = IF first <= last THEN last - first + 1 ELSE 0
        /\ \A j \in 1..(last - first + 1) : SubSeq(got, first, last)[j] = got[first + j - 1]
    BY <2>1, <2>2, SubSeqProperties, SMT
  <2>4. Len(SubSeq(got, first, last)) = com.size
    BY <2>1, <2>3
  <2>5. SubSeq(got, first, last) = [j \in 1..com.size |-> SubSeq(got, first, last)[j]]
    BY <2>3, <2>4, LenProperties
  <2>6. \A j \in 1..com.size : SubSeq(got, first, last)[j] = buf[com.at + j - 1]
    <3>1. /\ com.at \in {3, 4} /\ end \in 3..259 /\ com.size \in Nat
          /\ end = com.at + com.size
      BY <1>3, <2>1 DEF end
    <3> SUFFICES ASSUME NEW j \in 1..com.size
                 PROVE  SubSeq(got, first, last)[j] = buf[com.at + j - 1]
      OBVIOUS
    <3>2. com.at + j - 1 \in 3..end /\ (com.at + j - 1) + 1 = com.at + j
      BY <3>1
    <3>3. buf[com.at + j - 1] = got[com.at + j]
      BY <1>4, <3>2
    <3>4. j \in 1..(last - first + 1) /\ first + j - 1 = com.at + j
      BY <2>1, <3>1
    <3> QED
      BY <2>3, <3>3, <3>4
  <2>7. Slice(buf, com.at, com.size) = SubSeq(got, first, last)
    BY <2>5, <2>6 DEF Slice
  <2> QED
    BY <2>7 DEF FrameData, first, last
<1>7. com.size = got[2] /\ com.parcel = got[3]
  BY <1>1
<1>8. FrameLen(got) \in 4..Len(got)
  <2>1. end \in 3..259 /\ end + 1 = FrameLen(got)
    BY <1>3
  <2>2. end + 1 \in 4..Len(got)
    BY <1>1, <1>4, <2>1
  <2> QED
    BY <2>1, <2>2
<1>9. com.at + com.size + 1 = FrameLen(got)
  BY <1>3 DEF end
<1> QED
  BY <1>2, <1>5, <1>6, <1>7, <1>8, <1>9 DEF end

(* begin(), rest() and finish() take frames only, with their number and    *)
(* data, whatever a package or an earlier answer left in the array.        *)
THEOREM AnswersAreFrames == Spec => []AnswerIsFrame
<1>1. IInv => AnswerIsFrame
  BY FrameRead DEF IInv, Answered, AnswerIsFrame
<1> QED
  BY <1>1, Invariance, PTL

(* No frame of any size is refused by rest() or finish(). *)
THEOREM NoFrameRefused == Spec => FramesAccepted
<1>1. ASSUME IInv, Next, step \in {"rest", "finish"}, IsFrame(got)
      PROVE  step' # "reset"
  <2>1. CASE step = "rest"
    <3>1. got[1] = 123 /\ buf[0] = 123
      <4>1. 0 \in 0..2 /\ 0 + 1 = 1 /\ HeadRead
        BY <1>1, <2>1 DEF IInv, Answered
      <4> QED
        BY <1>1, <4>1 DEF HeadRead, Copied, IsFrame
    <3>2. ReadRest
      BY <1>1, <2>1 DEF Next, Reset, BuildHeader2, BeginPackage, BeginPacket, WriteTag,
         EndPacket, EndPackage, Output, ReadBegin, Finish, ComHeader2, UseAnswer
    <3> QED
      BY <2>1, <3>1, <3>2 DEF ReadRest
  <2>2. CASE step = "finish"
    <3>1. buf[com.at + com.size] = 125
      BY <1>1, <2>2, FrameRead DEF IInv, Answered
    <3>2. Finish
      BY <1>1, <2>2 DEF Next, Reset, BuildHeader2, BeginPackage, BeginPacket, WriteTag,
         EndPacket, EndPackage, Output, ReadBegin, ReadRest, ComHeader2, UseAnswer
    <3> QED
      BY <2>2, <3>1, <3>2 DEF Finish
  <2> QED
    BY <1>1, <2>1, <2>2
<1>2. IInv /\ [Next]_vars =>
        [(step \in {"rest", "finish"} /\ IsFrame(got)) => (step' # "reset")]_vars
  BY <1>1
<1> QED
  BY <1>2, Invariance, PTL DEF Spec, FramesAccepted
-----------------------------------------------------------------------------
(* What a sequence of bytes adds up to, as in GattServerProofs.            *)
Total(s) == FoldLeft(LAMBDA a, b : a + b, 0, s)

(* Every number is in a set with zero and with the one behind each of its  *)
(* numbers: otherwise subtracting one would move the numbers that are not, *)
(* up to some m, among themselves, one to one and never onto m.            *)
LEMMA SetInduction ==
    ASSUME NEW S, 0 \in S, \A n \in Nat : n \in S => n + 1 \in S
    PROVE  Nat \subseteq S
<1> SUFFICES ASSUME NEW m \in Nat, m \notin S PROVE FALSE
  OBVIOUS
<1> DEFINE B == {n \in 0..m : n \notin S}
<1>1. \A n \in B : n # 0 /\ n - 1 \in B
  OBVIOUS
<1>2. m \in B
  OBVIOUS
<1>3. IsFiniteSet(B)
  <2>1. B \in SUBSET Nat /\ \A n \in B : n <= m
    OBVIOUS
  <2> QED
    BY <2>1, FS_BoundedSetOfNaturals
<1>4. B \subseteq Int /\ \A n \in B : n <= m
  OBVIOUS
<1> HIDE DEF B
<1> DEFINE f == [n \in B |-> n - 1]
<1>5. f \in Injection(B, B)
  BY <1>1, <1>4 DEF Injection, IsInjective
<1>6. f \in Surjection(B, B)
  BY <1>3, <1>5, FS_Injection
<1>7. PICK n \in B : f[n] = m
  BY <1>2, <1>6 DEF Surjection
<1> QED
  BY <1>4, <1>7

(* The function FoldLeft() computes: what a set of places of q adds up to. *)
Totals(h, q, n) ==
    h = [t \in SUBSET (1..n) |-> IF t = {} THEN 0 ELSE h[t \ {Max(t)}] + q[Max(t)]]

(* The largest place of a set that has the last one. *)
LEMMA LastPlace ==
    ASSUME NEW n \in Nat, NEW t \in SUBSET (1..(n + 1)), n + 1 \in t
    PROVE  Max(t) = n + 1 /\ t \ {n + 1} \in SUBSET (1..n)
<1>1. \A y \in t : n + 1 >= y
  OBVIOUS
<1>2. \A x \in t : (\A y \in t : x >= y) => x = n + 1
  OBVIOUS
<1>3. Max(t) = n + 1
  BY ONLY <1>1, <1>2, n + 1 \in t DEF Max
<1>4. t \ {n + 1} \in SUBSET (1..n)
  OBVIOUS
<1> QED
  BY <1>3, <1>4

(* There is such a function, for every sequence. *)
LEMMA TotalsExist ==
    ASSUME NEW q, NEW n \in Nat
    PROVE  \E h : Totals(h, q, n)
<1> DEFINE K == {k \in Nat : \E h : Totals(h, q, k)}
<1>1. 0 \in K
  <2> DEFINE h == [t \in SUBSET (1..0) |-> 0]
  <2>1. \A t \in SUBSET (1..0) : t = {}
    OBVIOUS
  <2>2. Totals(h, q, 0)
    BY <2>1 DEF Totals
  <2> QED
    BY <2>2
<1>2. ASSUME NEW k \in Nat, k \in K PROVE k + 1 \in K
  <2>1. PICK g : Totals(g, q, k)
    BY <1>2
  <2> DEFINE h == [t \in SUBSET (1..(k + 1)) |->
                     IF k + 1 \in t THEN g[t \ {k + 1}] + q[k + 1] ELSE g[t]]
             r == [t \in SUBSET (1..(k + 1)) |->
                     IF t = {} THEN 0 ELSE h[t \ {Max(t)}] + q[Max(t)]]
  <2>2. ASSUME NEW t \in SUBSET (1..(k + 1)) PROVE h[t] = r[t]
    <3>1. CASE k + 1 \in t
      <4>1. Max(t) = k + 1 /\ t \ {k + 1} \in SUBSET (1..k)
        BY <3>1, LastPlace
      <4>2. t \ {k + 1} \in SUBSET (1..(k + 1)) /\ k + 1 \notin t \ {k + 1} /\ t # {}
        BY <3>1
      <4>3. h[t] = g[t \ {k + 1}] + q[k + 1]
        BY <3>1
      <4>4. h[t \ {k + 1}] = g[t \ {k + 1}]
        BY <4>2
      <4>5. r[t] = h[t \ {Max(t)}] + q[Max(t)]
        BY <4>2
      <4> QED
        BY ONLY <4>1, <4>3, <4>4, <4>5
    <3>2. CASE k + 1 \notin t
      <4>1. t \in SUBSET (1..k) /\ h[t] = g[t]
        BY <3>2
      <4>2. h[t \ {Max(t)}] = g[t \ {Max(t)}]
        BY <3>2
      <4>3. g[t] = IF t = {} THEN 0 ELSE g[t \ {Max(t)}] + q[Max(t)]
        BY <2>1, <4>1 DEF Totals
      <4>4. r[t] = IF t = {} THEN 0 ELSE h[t \ {Max(t)}] + q[Max(t)]
        OBVIOUS
      <4> QED
        BY ONLY <4>1, <4>2, <4>3, <4>4
    <3> QED
      BY <3>1, <3>2
  <2>3. h = r
    <3> HIDE <2>2
    <3>1. DOMAIN h = SUBSET (1..(k + 1)) /\ DOMAIN r = SUBSET (1..(k + 1))
      OBVIOUS
    <3>2. h = [t \in SUBSET (1..(k + 1)) |-> h[t]] /\ r = [t \in SUBSET (1..(k + 1)) |-> r[t]]
      OBVIOUS
    <3> HIDE DEF h, r
    <3> QED
      BY <2>2, <3>2
  <2>4. Totals(h, q, k + 1)
    BY <2>3 DEF Totals
  <2> QED
    BY <2>4
<1> HIDE DEF K
<1>3. Nat \subseteq K
  BY <1>1, <1>2, SetInduction
<1> QED
  BY <1>3 DEF K

(* The function of a longer sequence agrees with that of its beginning. *)
LEMMA TotalsAgree ==
    ASSUME NEW p, NEW q, NEW n \in Nat, NEW g, NEW h,
           Totals(g, q, n), Totals(h, p, n + 1), \A i \in 1..n : p[i] = q[i]
    PROVE  \A t \in SUBSET (1..n) : g[t] = h[t]
<1> DEFINE K == {k \in Nat : k <= n => \A t \in SUBSET (1..k) : g[t] = h[t]}
<1>0. /\ \A t \in SUBSET (1..n) : g[t] = IF t = {} THEN 0 ELSE g[t \ {Max(t)}] + q[Max(t)]
      /\ \A t \in SUBSET (1..n) : h[t] = IF t = {} THEN 0 ELSE h[t \ {Max(t)}] + p[Max(t)]
  <2>1. \A t \in SUBSET (1..n) : t \in SUBSET (1..(n + 1))
    OBVIOUS
  <2> QED
    BY <2>1 DEF Totals
<1>1. 0 \in K
  <2>1. \A t \in SUBSET (1..0) : t = {}
    OBVIOUS
  <2> QED
    BY <1>0, <2>1
<1>2. ASSUME NEW k \in Nat, k \in K PROVE k + 1 \in K
  <2> SUFFICES ASSUME k + 1 <= n, NEW t \in SUBSET (1..(k + 1)) PROVE g[t] = h[t]
    OBVIOUS
  <2>1. \A u \in SUBSET (1..k) : g[u] = h[u]
    BY <1>2
  <2>2. CASE k + 1 \notin t
    BY <2>1, <2>2
  <2>3. CASE k + 1 \in t
    <3>1. Max(t) = k + 1 /\ t \ {k + 1} \in SUBSET (1..k)
      BY <2>3, LastPlace
    <3>2. t \in SUBSET (1..n) /\ t # {} /\ k + 1 \in 1..n
      BY <2>3
    <3>3. p[k + 1] = q[k + 1]
      BY <3>2
    <3>4. g[t \ {k + 1}] = h[t \ {k + 1}]
      BY <2>1, <3>1
    <3>5. g[t] = g[t \ {Max(t)}] + q[Max(t)] /\ h[t] = h[t \ {Max(t)}] + p[Max(t)]
      BY <1>0, <3>2
    <3> QED
      BY ONLY <3>1, <3>3, <3>4, <3>5
  <2> QED
    BY <2>2, <2>3
<1> HIDE DEF K
<1>3. Nat \subseteq K
  BY <1>1, <1>2, SetInduction
<1> QED
  BY <1>3 DEF K

(* What FoldLeft() is, when it adds. *)
LEMMA TotalIs ==
    ASSUME NEW S, NEW q \in Seq(S)
    PROVE  \E h : Totals(h, q, Len(q)) /\ Total(q) = h[1..Len(q)]
<1> DEFINE h == CHOOSE h : Totals(h, q, Len(q))
<1>1. Totals(h, q, Len(q))
  BY TotalsExist
<1>2. DOMAIN q = 1..Len(q)
  OBVIOUS
<1>3. Total(q) = h[1..Len(q)]
  BY ONLY <1>2 DEF Total, FoldLeft, MapThenFoldSet, Totals
<1> QED
  BY <1>1, <1>3

(* Nothing adds up to zero. *)
LEMMA TotalEmpty == Total(<<>>) = 0
<1>1. <<>> \in Seq(Nat) /\ Len(<<>>) = 0
  OBVIOUS
<1>2. PICK h : Totals(h, <<>>, 0) /\ Total(<<>>) = h[1..0]
  BY <1>1, TotalIs
<1>3. 1..0 = {}
  OBVIOUS
<1> QED
  BY <1>2, <1>3 DEF Totals

(* A number more adds itself. *)
LEMMA TotalAppend ==
    ASSUME NEW S, NEW q \in Seq(S), NEW e \in S
    PROVE  Total(Append(q, e)) = Total(q) + e
<1> DEFINE p == Append(q, e)
           n == Len(q)
<1>1. /\ n \in Nat /\ p \in Seq(S) /\ Len(p) = n + 1
      /\ p[n + 1] = e /\ \A i \in 1..n : p[i] = q[i]
  OBVIOUS
<1>2. PICK g : Totals(g, q, n) /\ Total(q) = g[1..n]
  BY TotalIs
<1> HIDE DEF p, n
<1>3. PICK h : Totals(h, p, n + 1) /\ Total(p) = h[1..(n + 1)]
  <2>1. PICK h : Totals(h, p, Len(p)) /\ Total(p) = h[1..Len(p)]
    BY <1>1, TotalIs
  <2> QED
    BY <1>1, <2>1
<1>4. \A t \in SUBSET (1..n) : g[t] = h[t]
  BY <1>1, <1>2, <1>3, TotalsAgree
<1> DEFINE t == 1..(n + 1)
<1>5. t \in SUBSET (1..(n + 1)) /\ n + 1 \in t /\ t # {} /\ t \ {n + 1} = 1..n
  <2>1. n \in Nat
    BY <1>1
  <2> QED
    BY ONLY <2>1
<1> HIDE DEF t
<1>6. Max(t) = n + 1
  BY <1>1, <1>5, LastPlace
<1>7. h[t] = h[t \ {Max(t)}] + p[Max(t)]
  BY <1>3, <1>5 DEF Totals
<1>8. h[1..n] = g[1..n]
  BY <1>4
<1>9. Total(p) = g[1..n] + e
  BY <1>1, <1>3, <1>5, <1>6, <1>7, <1>8 DEF t
<1> QED
  BY <1>2, <1>9 DEF p
-----------------------------------------------------------------------------
(* Bytes in front of bytes in front of bytes. *)
LEMMA BytesAssociative ==
    ASSUME NEW r \in Seq(Byte), NEW s \in Seq(Byte), NEW t \in Seq(Byte)
    PROVE  (r \o s) \o t = r \o (s \o t)
  BY SMTT(30)

(* The bytes of two sequences, one behind the other. *)
LEMMA JoinedAt ==
    ASSUME NEW s \in Seq(Byte), NEW t \in Seq(Byte)
    PROVE  /\ s \o t \in Seq(Byte) /\ Len(s \o t) = Len(s) + Len(t)
           /\ \A k \in 1..(Len(s) + Len(t)) :
                (s \o t)[k] = IF k <= Len(s) THEN s[k] ELSE t[k - Len(s)]
  BY ConcatProperties, LenProperties

(* A part of the array. *)
LEMMA SliceBytes ==
    ASSUME NEW b \in [0..(BufSize - 1) -> Byte], NEW at \in Nat, NEW n \in Nat, at + n <= BufSize
    PROVE  /\ Slice(b, at, n) \in Seq(Byte) /\ Len(Slice(b, at, n)) = n
           /\ \A k \in 1..n : Slice(b, at, n)[k] = b[at + k - 1]
<1>1. BufSize \in Nat
  BY ProtocolAssumption
<1>2. \A k \in 1..n : at + k - 1 \in 0..(BufSize - 1)
  BY <1>1
<1>3. \A k \in 1..n : b[at + k - 1] \in Byte
  BY <1>2
<1> QED
  BY <1>3 DEF Slice

(* Two sequences of bytes with the same bytes are the same. *)
LEMMA SameBytes ==
    ASSUME NEW s \in Seq(Byte), NEW t \in Seq(Byte), Len(s) = Len(t),
           \A k \in 1..Len(s) : s[k] = t[k]
    PROVE  s = t
  BY SeqEqual

(* What is stored behind a part of the array is behind it. *)
LEMMA SliceEmitted ==
    ASSUME NEW b \in [0..(BufSize - 1) -> Byte], NEW from \in Nat, NEW n \in Nat,
           NEW bytes \in Seq(Byte), from + n + Len(bytes) <= BufSize
    PROVE  Slice(Put(b, from + n, bytes), from, n + Len(bytes)) = Slice(b, from, n) \o bytes
<1> DEFINE c == Put(b, from + n, bytes)
           s == Slice(b, from, n)
           l == Len(bytes)
<1>1. l \in Nat /\ BufSize \in Nat /\ from + n \in Nat /\ n + l \in Nat
  BY ProtocolAssumption, LenProperties
<1>2. c \in [0..(BufSize - 1) -> Byte]
  BY <1>1, PutBytes
<1>3. from + n <= BufSize /\ from + (n + l) <= BufSize
  BY <1>1
<1>4. /\ s \in Seq(Byte) /\ Len(s) = n
      /\ \A k \in 1..n : s[k] = b[from + k - 1]
  BY <1>3, SliceBytes
<1>5. /\ Slice(c, from, n + l) \in Seq(Byte) /\ Len(Slice(c, from, n + l)) = n + l
      /\ \A k \in 1..(n + l) : Slice(c, from, n + l)[k] = c[from + k - 1]
  BY <1>1, <1>2, <1>3, SliceBytes
<1>6. /\ s \o bytes \in Seq(Byte) /\ Len(s \o bytes) = n + l
      /\ \A k \in 1..(n + l) : (s \o bytes)[k] = IF k <= n THEN s[k] ELSE bytes[k - n]
  <2>1. l = Len(bytes) /\ s \in Seq(Byte) /\ Len(s) = n
    BY <1>4
  <2> HIDE DEF s, l
  <2> QED
    BY <2>1, JoinedAt
<1>7. ASSUME NEW k \in 1..(n + l)
      PROVE  c[from + k - 1] = IF k <= n THEN b[from + k - 1] ELSE bytes[k - n]
  <2>1. from + k - 1 \in 0..(BufSize - 1)
    BY <1>1, <1>3
  <2>2. c[from + k - 1] = IF from + n <= from + k - 1 /\ from + k - 1 < from + n + l
                          THEN bytes[from + k - 1 - (from + n) + 1] ELSE b[from + k - 1]
    BY <2>1 DEF Put
  <2>3. from + k - 1 - (from + n) + 1 = k - n
    BY <1>1
  <2>4. (from + n <= from + k - 1 /\ from + k - 1 < from + n + l) <=> ~(k <= n)
    BY <1>1
  <2> QED
    BY <2>2, <2>3, <2>4
<1> HIDE DEF c, s, l
<1>8. ASSUME NEW k \in 1..(n + l) PROVE Slice(c, from, n + l)[k] = (s \o bytes)[k]
  <2>1. Slice(c, from, n + l)[k] = IF k <= n THEN b[from + k - 1] ELSE bytes[k - n]
    BY <1>5, <1>7
  <2>2. k <= n => s[k] = b[from + k - 1]
    BY <1>1, <1>4
  <2>3. (s \o bytes)[k] = IF k <= n THEN s[k] ELSE bytes[k - n]
    BY <1>6
  <2> QED
    BY <2>1, <2>2, <2>3
<1>9. Slice(c, from, n + l) = s \o bytes
  BY <1>5, <1>6, <1>8, SameBytes
<1> QED
  BY <1>9 DEF c, s, l

(* What is stored elsewhere leaves it as it is. *)
LEMMA SliceAway ==
    ASSUME NEW b \in [0..(BufSize - 1) -> Byte], NEW from \in Nat, NEW n \in Nat,
           from + n <= BufSize, NEW at \in Nat, NEW bytes \in Seq(Byte),
           at >= from + n \/ at + Len(bytes) <= from
    PROVE  Slice(Put(b, at, bytes), from, n) = Slice(b, from, n)
<1>1. Len(bytes) \in Nat /\ BufSize \in Nat
  BY ProtocolAssumption, LenProperties
<1>2. ASSUME NEW k \in 1..n PROVE Put(b, at, bytes)[from + k - 1] = b[from + k - 1]
  <2>1. from + k - 1 \in 0..(BufSize - 1)
    BY <1>1
  <2>2. ~(at <= from + k - 1 /\ from + k - 1 < at + Len(bytes))
    BY <1>1
  <2> QED
    BY <2>1, <2>2 DEF Put
<1> QED
  BY <1>2 DEF Slice

(* Two parts that touch are one. *)
LEMMA SliceSplit ==
    ASSUME NEW b \in [0..(BufSize - 1) -> Byte], NEW from \in Nat, NEW n \in Nat, NEW m \in Nat,
           from + n + m <= BufSize
    PROVE  Slice(b, from, n + m) = Slice(b, from, n) \o Slice(b, from + n, m)
<1>1. BufSize \in Nat /\ from + n <= BufSize /\ from + n \in Nat /\ n + m \in Nat
      /\ from + (n + m) <= BufSize
  BY ProtocolAssumption
<1> DEFINE s == Slice(b, from, n)
           t == Slice(b, from + n, m)
           r == Slice(b, from, n + m)
<1>2. /\ s \in Seq(Byte) /\ Len(s) = n
      /\ \A k \in 1..n : s[k] = b[from + k - 1]
  BY <1>1, SliceBytes
<1>3. /\ t \in Seq(Byte) /\ Len(t) = m
      /\ \A k \in 1..m : t[k] = b[from + n + k - 1]
  BY <1>1, SliceBytes
<1>4. /\ r \in Seq(Byte) /\ Len(r) = n + m
      /\ \A k \in 1..(n + m) : r[k] = b[from + k - 1]
  BY <1>1, SliceBytes
<1> HIDE DEF s, t, r
<1>5. /\ s \o t \in Seq(Byte) /\ Len(s \o t) = n + m
      /\ \A k \in 1..(n + m) : (s \o t)[k] = IF k <= n THEN s[k] ELSE t[k - n]
  BY <1>2, <1>3, JoinedAt
<1>6. ASSUME NEW k \in 1..(n + m) PROVE r[k] = (s \o t)[k]
  <2>1. CASE k <= n
    <3>1. k \in 1..n
      BY <2>1
    <3>2. s[k] = b[from + k - 1]
      BY <1>2, <3>1
    <3> QED
      BY <1>4, <1>5, <2>1, <3>2
  <2>2. CASE ~(k <= n)
    <3>1. k - n \in 1..m /\ from + n + (k - n) - 1 = from + k - 1
      BY <2>2
    <3>2. t[k - n] = b[from + k - 1]
      BY <1>3, <3>1
    <3> QED
      BY <1>4, <1>5, <2>2, <3>2
  <2> QED
    BY <2>1, <2>2
<1>7. r = s \o t
  BY <1>4, <1>5, <1>6, SameBytes
<1> QED
  BY <1>7 DEF r, s, t

(* A tag is its number and four bytes. *)
Tag == [1..5 -> Byte]

(* Its five bytes, as a sequence. *)
LEMMA TagBytes ==
    ASSUME NEW e \in Tag
    PROVE  e \in Seq(Byte) /\ Len(e) = 5 /\ \A j \in 1..5 : e[j] \in Byte
<1>1. \A j \in 1..5 : e[j] \in Byte
  BY DEF Tag
<1>2. e = [j \in 1..5 |-> e[j]]
  BY DEF Tag
<1>3. [j \in 1..5 |-> e[j]] \in Seq(Byte) /\ Len([j \in 1..5 |-> e[j]]) = 5
  BY <1>1
<1> QED
  BY <1>1, <1>2, <1>3

(* The function FlattenSeq() computes: what the first i sequences come to. *)
Flats(g, q, n) == g = [j \in 1..n |-> IF j = 1 THEN q[j] ELSE g[j-1] \o q[j]]

(* What FlattenSeq() is, of up to three sequences. *)
LEMMA FlattenIs ==
    ASSUME NEW q, NEW n \in 1..3, Len(q) = n
    PROVE  \E g : Flats(g, q, n) /\ FlattenSeq(q) = g[n]
<1> DEFINE h == [j \in 1..n |-> IF j = 1 THEN q[1] ELSE IF j = 2 THEN q[1] \o q[2]
                                ELSE (q[1] \o q[2]) \o q[3]]
<1>1. ASSUME NEW j \in 1..n PROVE h[j] = IF j = 1 THEN q[j] ELSE h[j-1] \o q[j]
  <2>1. j = 1 \/ j = 2 \/ j = 3
    OBVIOUS
  <2>2. CASE j = 1
    BY <2>2
  <2>3. CASE j = 2
    <3>1. 1 \in 1..n /\ h[1] = q[1]
      BY <2>3
    <3>2. h[2] = q[1] \o q[2]
      BY <2>3
    <3>3. 2 - 1 = 1 /\ j # 1
      BY <2>3
    <3> HIDE DEF h
    <3>4. h[2] = h[2 - 1] \o q[2]
      BY ONLY <3>1, <3>2, <3>3, Zenon
    <3>5. h[j] = h[j-1] \o q[j]
      BY ONLY <2>3, <3>4, Zenon
    <3> QED
      BY ONLY <3>3, <3>5, Zenon
  <2>4. CASE j = 3
    <3>0. 2 \in 1..n /\ 3 \in 1..n /\ 2 # 1 /\ 3 # 1 /\ 3 # 2 /\ 3 - 1 = 2
      BY <2>4
    <3>1. h[2] = q[1] \o q[2]
      BY ONLY <3>0
    <3>2. h[3] = (q[1] \o q[2]) \o q[3]
      BY ONLY <3>0
    <3> HIDE DEF h
    <3>3. h[3] = h[3 - 1] \o q[3]
      BY ONLY <3>0, <3>1, <3>2
    <3>4. h[j] = h[j-1] \o q[j]
      BY ONLY <2>4, <3>3, Zenon
    <3>5. j # 1
      BY <2>4
    <3> QED
      BY ONLY <3>4, <3>5, Zenon
  <2> QED
    BY <2>1, <2>2, <2>3, <2>4
<1>2. h = [j \in 1..n |-> h[j]]
  OBVIOUS
<1> HIDE DEF h
<1>3. h = [j \in 1..n |-> IF j = 1 THEN q[j] ELSE h[j-1] \o q[j]]
  BY <1>1, <1>2
<1>4. Flats(h, q, n)
  BY <1>3 DEF Flats
<1> DEFINE g == CHOOSE g : Flats(g, q, n)
<1>5. Flats(g, q, n)
  BY <1>4
<1>6. FlattenSeq(q) = g[n]
  BY DEF FlattenSeq, Flats
<1> QED
  BY <1>5, <1>6

(* So the sequences in their order. *)
LEMMA FlattenFew ==
    ASSUME NEW q, NEW n \in 1..3, Len(q) = n
    PROVE  /\ n = 1 => FlattenSeq(q) = q[1]
           /\ n = 2 => FlattenSeq(q) = q[1] \o q[2]
           /\ n = 3 => FlattenSeq(q) = (q[1] \o q[2]) \o q[3]
<1>1. PICK g : Flats(g, q, n) /\ FlattenSeq(q) = g[n]
  BY FlattenIs
<1>2. /\ 1 \in 1..n => g[1] = q[1]
      /\ 2 \in 1..n => g[2] = g[1] \o q[2]
      /\ 3 \in 1..n => g[3] = g[2] \o q[3]
  <2>1. \A j \in 1..n : g[j] = IF j = 1 THEN q[j] ELSE g[j-1] \o q[j]
    BY <1>1 DEF Flats
  <2>2. 2 # 1 /\ 3 # 1 /\ 2 - 1 = 1 /\ 3 - 1 = 2
    OBVIOUS
  <2>3. 1 \in 1..n => g[1] = q[1]
    BY <2>1
  <2>4. 2 \in 1..n => g[2] = g[2 - 1] \o q[2]
    BY <2>1, <2>2
  <2>5. 3 \in 1..n => g[3] = g[3 - 1] \o q[3]
    BY <2>1, <2>2
  <2> QED
    BY <2>2, <2>3, <2>4, <2>5
<1>3. 1 \in 1..n /\ (n # 1 => 2 \in 1..n) /\ (n = 3 => 3 \in 1..n)
  OBVIOUS
<1>4. CASE n = 1
  BY <1>1, <1>2, <1>3, <1>4
<1>5. CASE n = 2
  BY <1>1, <1>2, <1>3, <1>5
<1>6. CASE n = 3
  <2>1. 1 \in 1..n /\ 2 \in 1..n /\ 3 \in 1..n
    BY <1>6
  <2>2. g[n] = g[3]
    BY <1>6
  <2>3. g[3] = (q[1] \o q[2]) \o q[3]
    BY ONLY <1>2, <2>1
  <2> QED
    BY ONLY <1>1, <1>6, <2>2, <2>3
<1> QED
  BY <1>4, <1>5, <1>6

(* Of nothing it is nothing. *)
LEMMA FlattenNone == FlattenSeq(<<>>) = <<>>
  BY DEF FlattenSeq

(* One tag more is five bytes more, behind the others. *)
LEMMA TagAppended ==
    ASSUME NEW q \in Seq(Tag), Len(q) <= 2, NEW e \in Tag
    PROVE  /\ FlattenSeq(q) \in Seq(Byte)
           /\ FlattenSeq(Append(q, e)) = FlattenSeq(q) \o e
<1> DEFINE n == Len(q)
           p == Append(q, e)
<1>1. /\ n \in Nat /\ Len(p) = n + 1 /\ p[n + 1] = e
      /\ \A j \in 1..n : q[j] \in Tag /\ p[j] = q[j]
  OBVIOUS
<1>2. e \in Seq(Byte)
  BY TagBytes
<1>3. n = 0 => q = <<>>
  OBVIOUS
<1>4. n \in {0, 1, 2}
  <2>1. n \in Nat /\ n <= 2
    BY <1>1
  <2> HIDE DEF n
  <2> QED
    BY <2>1
<1>5. Len(q) = n
  OBVIOUS
<1> HIDE DEF n, p
<1> DEFINE m == n + 1
<1>9. /\ m = 1 => FlattenSeq(p) = p[1]
      /\ m = 2 => FlattenSeq(p) = p[1] \o p[2]
      /\ m = 3 => FlattenSeq(p) = (p[1] \o p[2]) \o p[3]
  <2>1. m \in 1..3 /\ Len(p) = m
    BY <1>1, <1>4
  <2> HIDE DEF m
  <2> QED
    BY <2>1, FlattenFew
<1>10. /\ n = 1 => FlattenSeq(q) = q[1]
       /\ n = 2 => FlattenSeq(q) = q[1] \o q[2]
  <2>1. CASE n = 0
    BY ONLY <2>1
  <2>2. CASE n # 0
    <3>1. n \in 1..3
      BY <1>4, <2>2
    <3> QED
      BY <1>5, <3>1, FlattenFew
  <2> QED
    BY <2>1, <2>2
<1>6. CASE n = 0
  <2>1. FlattenSeq(q) = <<>>
    BY <1>3, <1>6, FlattenNone
  <2>2. FlattenSeq(p) = e
    <3>1. n + 1 = 1 /\ p[1] = e
      BY <1>1, <1>6
    <3> QED
      BY <1>9, <3>1
  <2>3. <<>> \o e = e /\ <<>> \in Seq(Byte)
    BY <1>2
  <2> QED
    BY <2>1, <2>2, <2>3 DEF p
<1>7. CASE n = 1
  <2>1. FlattenSeq(q) = q[1]
    BY <1>7, <1>10
  <2>2. n + 1 = 2 /\ p[1] = q[1] /\ p[2] = e /\ q[1] \in Tag
    BY <1>1, <1>7
  <2>3. FlattenSeq(p) = q[1] \o e
    BY <1>9, <2>2
  <2>4. q[1] \in Seq(Byte)
    BY <2>2, TagBytes
  <2> QED
    BY <2>1, <2>3, <2>4 DEF p
<1>8. CASE n = 2
  <2>1. FlattenSeq(q) = q[1] \o q[2]
    BY <1>8, <1>10
  <2>2. n + 1 = 3 /\ p[1] = q[1] /\ p[2] = q[2] /\ p[3] = e /\ q[1] \in Tag /\ q[2] \in Tag
    BY <1>1, <1>8
  <2>3. FlattenSeq(p) = (q[1] \o q[2]) \o e
    BY <1>9, <2>2
  <2>4. q[1] \in Seq(Byte) /\ q[2] \in Seq(Byte)
    BY <2>2, TagBytes
  <2>5. q[1] \o q[2] \in Seq(Byte)
    BY <2>4, JoinedAt
  <2> QED
    BY <2>1, <2>3, <2>5 DEF p
<1> QED
  BY <1>4, <1>6, <1>7, <1>8

(* Adding after taking the rest is taking the rest after adding. *)
LEMMA RestOfSum ==
    ASSUME NEW a \in Nat, NEW b \in Nat
    PROVE  ((a % 256) + b) % 256 = (a + b) % 256
  OBVIOUS

(* Four bytes appended are appended one after the other. *)
LEMMA FourAppended ==
    ASSUME NEW s \in Seq(Byte), NEW a \in Byte, NEW b \in Byte, NEW c \in Byte, NEW d \in Byte
    PROVE  /\ s \o <<a, b, c, d>> = Append(Append(Append(Append(s, a), b), c), d)
  OBVIOUS

(* What they add to a sum. *)
LEMMA WordAdded ==
    ASSUME NEW s \in Seq(Byte), Total(s) \in Nat, NEW v \in Word
    PROVE  /\ Total(s \o v) = Total(s) + (v[1] + v[2] + v[3] + v[4])
           /\ Total(s \o v) \in Nat
<1> DEFINE a == v[1]
           b == v[2]
           c == v[3]
           d == v[4]
           s1 == Append(s, a)
           s2 == Append(s1, b)
           s3 == Append(s2, c)
<1>1. a \in Byte /\ b \in Byte /\ c \in Byte /\ d \in Byte
  BY WordBytes
<1>2. v = <<a, b, c, d>>
  BY DEF Word
<1> HIDE DEF a, b, c, d
<1>3. a \in Nat /\ b \in Nat /\ c \in Nat /\ d \in Nat
  BY <1>1 DEF Byte
<1>4. s1 \in Seq(Byte)
  BY <1>1
<1>5. Total(s1) = Total(s) + a
  BY <1>1, TotalAppend
<1> HIDE DEF s1
<1>6. s2 \in Seq(Byte)
  BY <1>1, <1>4
<1>7. Total(s2) = Total(s1) + b
  BY <1>1, <1>4, TotalAppend
<1> HIDE DEF s2
<1>8. s3 \in Seq(Byte)
  BY <1>1, <1>6
<1>9. Total(s3) = Total(s2) + c
  BY <1>1, <1>6, TotalAppend
<1> HIDE DEF s3
<1>10. Total(Append(s3, d)) = Total(s3) + d
  BY <1>1, <1>8, TotalAppend
<1>11. s \o v = Append(s3, d)
  BY <1>1, <1>2, FourAppended DEF s1, s2, s3
<1>12. Total(s \o v) = Total(s) + (a + b + c + d)
  BY <1>3, <1>5, <1>7, <1>9, <1>10, <1>11
<1> QED
  BY <1>3, <1>12 DEF a, b, c, d

-----------------------------------------------------------------------------
(* The packet that was asked for; the bytes its checksum is of; and the    *)
(* bytes in front of its length.                                           *)
Packet == asked.packets[1]
Payload   == Packet.time \o FlattenSeq(Packet.tags)
Head3  == <<91, asked.parcel>> \o <<1>>

(* What the array holds of the message that was asked for, while the       *)
(* length is still to be patched in: it is two bytes in front of the time. *)
Opened ==
    /\ asked.kind = "package" /\ DOMAIN Packet = {"time", "tags"} /\ Packet.time \in Word
    /\ Packet.tags \in Seq(Tag) /\ Len(Packet.tags) = tags
    /\ Slice(buf, 0, 3) = Head3
    /\ Slice(buf, 5, pos - 5) = Payload
    /\ Payload \in Seq(Byte) /\ FlattenSeq(Packet.tags) \in Seq(Byte)
    /\ Len(FlattenSeq(Packet.tags)) = 5 * tags
    /\ Total(Payload) \in Nat /\ pkt.sum = SumBytes(Payload)

(* What it holds between packets, and when the message is complete. *)
Stored ==
    /\ step \in {"package", "packet", "output"} => Len(out) = 0
    /\ step \in {"package", "packet"} => asked.parcel \in Byte
    /\ step = "package" => asked.kind = "package"
    /\ (step = "package" /\ asked.packets = <<>>) =>
         Slice(buf, 0, pos) = <<91, asked.parcel>>
    /\ (step = "package" /\ asked.packets # <<>>) =>
         /\ DOMAIN asked.packets = {1}
         /\ Slice(buf, 0, pos) = <<91, asked.parcel>> \o EncodePacket(Packet)
    /\ step = "packet" => Opened
    /\ step = "output" => Slice(buf, 0, pos) = Encode(asked)
    /\ OutputIsEncoding

-----------------------------------------------------------------------------
(* The checksum is what is left of the sum. *)
LEMMA SumIsTotal == ASSUME NEW s PROVE SumBytes(s) = Total(s) % 256
  BY DEF SumBytes, Total

(* What stands at the beginning of the array. *)
LEMMA SliceStart ==
    ASSUME NEW b \in [0..(BufSize - 1) -> Byte], NEW bytes \in Seq(Byte), Len(bytes) <= BufSize
    PROVE  Slice(Put(b, 0, bytes), 0, Len(bytes)) = bytes
<1>1. Len(bytes) \in Nat
  BY LenProperties
<1> DEFINE l == Len(bytes)
           from == 0
<1>2. /\ from \in Nat /\ from + from = from /\ from + l = l
      /\ from + from + l <= BufSize
  BY <1>1
<1> HIDE DEF from
<1>3. from + from + Len(bytes) <= BufSize
  BY <1>2
<1>4. Slice(Put(b, from + from, bytes), from, from + Len(bytes)) = Slice(b, from, from) \o bytes
  BY ONLY <1>2, <1>3, SliceEmitted
<1>5. Slice(Put(b, from, bytes), from, l) = Slice(b, from, from) \o bytes
  BY <1>2, <1>4
<1>6. Slice(b, from, from) = <<>>
  BY DEF Slice, from
<1>7. <<>> \o bytes = bytes
  OBVIOUS
<1> QED
  BY <1>5, <1>6, <1>7 DEF from

(* The state of the builder. *)
LEMMA BuilderTypes ==
    IInv => buf \in [0..(BufSize - 1) -> Byte] /\ pos \in Nat /\ pos <= 26 /\ BufSize \in Nat /\ BufSize > 100
  BY ProtocolAssumption DEF IInv, TypeOK, Cursor, MaxTags

(* The invariant holds initially. *)
LEMMA InitStored == Init => Stored
  BY DEF Init, Stored, OutputIsEncoding

(* Nothing is handed out before output(). *)
LEMMA NoOutput == ASSUME out' = <<>> PROVE Len(out') = 0 /\ OutputIsEncoding'
  BY DEF OutputIsEncoding

(* While the message is being built, nothing is. *)
LEMMA StillNoOutput ==
    ASSUME Stored, step \in {"package", "packet"}, out' = out
    PROVE  Len(out') = 0 /\ OutputIsEncoding'
<1>1. Len(out') = 0
  BY DEF Stored
<1>2. out' # <<>> => Len(out') # 0
  BY <1>1
<1> QED
  BY <1>1 DEF OutputIsEncoding

(* The calls that do not build. *)
LEMMA OtherStored ==
    ASSUME Stored, UNCHANGED <<asked, out>>, step' \notin {"package", "packet", "output"}
    PROVE  Stored'
  BY DEF Stored, OutputIsEncoding

(* The introduction is complete at once. *)
LEMMA Header2Stored == ASSUME IInv, Stored, BuildHeader2 PROVE Stored'
<1>1. Imei \in Seq(Byte) /\ Len(Imei) = 8
  <2>1. Imei = [j \in 1..8 |-> Imei[j]] /\ \A j \in 1..8 : Imei[j] \in Byte
    BY ProtocolAssumption
  <2>2. [j \in 1..8 |-> Imei[j]] \in Seq(Byte) /\ Len([j \in 1..8 |-> Imei[j]]) = 8
    BY <2>1
  <2> QED
    BY <2>1, <2>2
<1>2. <<255, 35>> \in Seq(Byte) /\ Len(<<255, 35>>) = 2
  BY DEF Byte
<1> DEFINE bytes == <<255, 35>> \o Imei
<1>3. bytes \in Seq(Byte) /\ Len(bytes) = Len(<<255, 35>>) + Len(Imei)
  BY <1>1, <1>2, Joined, Zenon
<1>4. Emit(bytes) /\ asked'.kind = "header2" /\ out' = <<>> /\ step' = "output" /\ step = "header2"
  BY DEF BuildHeader2, NoMessage
<1>5. Encode(asked') = bytes
  BY <1>4 DEF Encode
<1> HIDE DEF bytes
<1>6. Len(bytes) = 10
  BY <1>1, <1>2, <1>3
<1>7. pos = 0
  BY <1>4 DEF IInv, Cursor
<1>8. buf' = Put(buf, 0, bytes) /\ pos' = Len(bytes)
  BY <1>4, <1>6, <1>7 DEF Emit
<1>9. Slice(buf', 0, pos') = bytes
  BY <1>3, <1>6, <1>8, SliceStart, BuilderTypes, SMTT(30)
<1> QED
  BY <1>4, <1>5, <1>9, NoOutput DEF Stored

(* The head of the package, at the beginning of the array. *)
LEMMA BeginPackageStored ==
    ASSUME IInv, Stored, NEW n \in Parcels, BeginPackage(n) PROVE Stored'
<1> DEFINE bytes == <<91, n>>
<1>1. bytes \in Seq(Byte) /\ Len(bytes) = 2
  BY ProtocolAssumption DEF Byte
<1>2. /\ Emit(bytes) /\ out' = <<>> /\ step' = "package" /\ step = "idle"
      /\ asked'.kind = "package" /\ asked'.parcel = n /\ asked'.packets = <<>>
  BY DEF BeginPackage
<1>3. bytes = <<91, asked'.parcel>>
  BY <1>2
<1> HIDE DEF bytes
<1>4. pos = 0
  BY <1>2 DEF IInv, Cursor
<1>5. buf' = Put(buf, 0, bytes) /\ pos' = Len(bytes)
  BY <1>1, <1>2, <1>4 DEF Emit
<1>6. Slice(buf', 0, pos') = bytes
  BY <1>1, <1>5, SliceStart, BuilderTypes, SMTT(30)
<1>7. n \in Byte
  BY ProtocolAssumption
<1> QED
  BY <1>2, <1>3, <1>6, <1>7, NoOutput DEF Stored

(* output() hands out what is stored. *)
LEMMA OutputStored == ASSUME IInv, Stored, Output PROVE Stored'
<1>1. /\ step = "output" /\ step' \notin {"package", "packet", "output"}
      /\ out' = Slice(buf, 0, pos) /\ asked' = asked
  BY DEF Output
<1>2. out' = Encode(asked')
  BY <1>1 DEF Stored
<1> QED
  BY <1>1, <1>2 DEF Stored, OutputIsEncoding

(* The end of the package, behind its packet if it has one. *)
LEMMA EndPackageStored == ASSUME IInv, Stored, EndPackage PROVE Stored'
<1> DEFINE w == Slice(buf, 0, pos)
           flat == FlattenSeq([k \in DOMAIN asked.packets |-> EncodePacket(asked.packets[k])])
           h == <<91, asked.parcel>>
<1>1. <<93>> \in Seq(Byte) /\ Len(<<93>>) = 1
  BY DEF Byte
<1>2. /\ step = "package" /\ step' = "output" /\ asked' = asked /\ out' = out
      /\ buf' = Put(buf, pos, <<93>>) /\ pos' = pos + 1
  BY DEF EndPackage, Emit
<1>3. asked.kind = "package"
  BY <1>2 DEF Stored
<1>4. Encode(asked) = (h \o flat) \o <<93>>
  BY <1>3 DEF Encode
<1>5. w = h \o flat
  <2>1. CASE asked.packets = <<>>
    <3>1. flat = <<>>
      <4>1. DOMAIN asked.packets = {}
        BY <2>1
      <4>2. [k \in DOMAIN asked.packets |-> EncodePacket(asked.packets[k])] = <<>>
        BY <4>1
      <4> QED
        BY <4>2, FlattenNone
    <3>2. w = h
      BY <1>2, <2>1 DEF Stored
    <3>3. w \in Seq(Byte)
      BY SliceBytes, BuilderTypes
    <3> HIDE DEF w, h, flat
    <3> QED
      BY <3>1, <3>2, <3>3
  <2>2. CASE asked.packets # <<>>
    <3>1. /\ DOMAIN asked.packets = {1}
          /\ w = h \o EncodePacket(asked.packets[1])
      BY <1>2, <2>2 DEF Stored, Packet
    <3> DEFINE q == [k \in DOMAIN asked.packets |-> EncodePacket(asked.packets[k])]
    <3>2. q = <<EncodePacket(asked.packets[1])>>
      BY <3>1
    <3>3. q[1] = EncodePacket(asked.packets[1])
      BY <3>1
    <3>4. flat = q[1]
      <4>1. Len(q) = 1
        BY <3>2
      <4> DEFINE n == 1
      <4>2. n \in 1..3 /\ Len(q) = n /\ n = 1
        BY <4>1
      <4>3. flat = FlattenSeq(q)
        OBVIOUS
      <4> HIDE DEF q, flat, n
      <4> QED
        BY <4>2, <4>3, FlattenFew
    <3> QED
      BY <3>1, <3>3, <3>4
  <2> QED
    BY <2>1, <2>2
<1>6. Slice(buf', 0, pos') = w \o <<93>>
  <2> DEFINE bytes == <<93>>
             from == 0
  <2>1. bytes \in Seq(Byte) /\ Len(bytes) = 1
    BY <1>1
  <2>2. from \in Nat /\ pos \in Nat /\ from + pos = pos
    BY BuilderTypes
  <2>3. buf \in [0..(BufSize - 1) -> Byte]
    BY BuilderTypes
  <2>4. from + pos + 1 <= BufSize
    BY BuilderTypes
  <2> HIDE DEF bytes, from
  <2>5. from + pos + Len(bytes) <= BufSize
    BY ONLY <2>1, <2>4
  <2>6. Slice(Put(buf, from + pos, bytes), from, pos + Len(bytes)) = Slice(buf, from, pos) \o bytes
    BY ONLY <2>1, <2>2, <2>3, <2>5, SliceEmitted
  <2>7. Slice(Put(buf, pos, bytes), from, pos + 1) = Slice(buf, from, pos) \o bytes
    BY ONLY <2>1, <2>2, <2>6
  <2> QED
    BY <1>2, <2>7 DEF bytes, from
<1> HIDE DEF w, h, flat
<1>7. Slice(buf', 0, pos') = Encode(asked')
  BY <1>2, <1>4, <1>5, <1>6
<1> QED
  BY <1>2, <1>7, StillNoOutput DEF Stored

(* The packet is opened: the time is in its place, and the sum of it. *)
LEMMA BeginPacketStored ==
    ASSUME IInv, Stored, NEW t \in Times, BeginPacket(t) PROVE Stored'
<1> DEFINE h == <<91, asked.parcel>>
           c == Put(buf, 2, <<1>>)
<1>0. /\ t \in Word /\ t \in Seq(Byte) /\ Len(t) = 4
      /\ t[1] \in Nat /\ t[2] \in Nat /\ t[3] \in Nat /\ t[4] \in Nat
  <2>1. t \in Word
    BY ProtocolAssumption
  <2>2. \A b \in Byte : b \in Nat
    BY DEF Byte
  <2> QED
    BY <2>1, <2>2, WordBytes
<1>1. /\ pos = 2 /\ step = "package" /\ step' = "packet" /\ out' = out
      /\ DOMAIN asked = {"kind", "parcel", "packets"}
  BY DEF BeginPacket, IInv, Cursor
<1>2. h \in Seq(Byte) /\ Slice(buf, 0, 2) = h
  <2>1. Slice(buf, 0, pos) = h
    BY <1>1 DEF BeginPacket, Stored
  <2>2. Slice(buf, 0, pos) \in Seq(Byte)
    <3>1. 0 \in Nat /\ 0 + pos <= BufSize
      BY BuilderTypes
    <3> QED
      BY <3>1, SliceBytes, BuilderTypes
  <2> HIDE DEF h
  <2> QED
    BY <1>1, <2>1, <2>2
<1>3. <<1>> \in Seq(Byte) /\ Len(<<1>>) = 1
  BY DEF Byte
<1>4. buf' = Put(c, 5, t) /\ pos' = 9 /\ tags' = 0 /\ pkt'.sum = Append4(0, t)
  BY <1>1 DEF BeginPacket
<1>5. c \in [0..(BufSize - 1) -> Byte]
  <2>1. 2 \in Nat
    OBVIOUS
  <2> QED
    BY <1>3, <2>1, PutBytes, BuilderTypes, Zenon
<1> DEFINE fresh == [time |-> t, tags |-> <<>>]
<1>6. /\ asked'.kind = asked.kind /\ asked'.parcel = asked.parcel
      /\ asked'.packets = <<fresh>>
  BY <1>1 DEF BeginPacket
<1>7. Packet'.time = t /\ Packet'.tags = <<>> /\ DOMAIN Packet' = {"time", "tags"}
  <2>1. Packet' = fresh
    <3>1. asked'.packets[1] = fresh
      BY <1>6
    <3> QED
      BY <3>1 DEF Packet
  <2> QED
    BY <2>1
<1>8. Payload' = t
  <2>1. t \o <<>> = t
    BY <1>0
  <2> QED
    BY <1>7, <2>1, FlattenNone DEF Payload
<1>9. Slice(buf', 0, 3) = h \o <<1>>
  <2>1. Slice(c, 0, 3) = Slice(buf, 0, 2) \o <<1>>
    <3> DEFINE bytes == <<1>>
               from == 0
               n == 2
    <3>1. bytes \in Seq(Byte) /\ Len(bytes) = 1
      BY <1>3
    <3>2. /\ from \in Nat /\ n \in Nat /\ from + n = 2 /\ n + 1 = 3
          /\ from + n + 1 <= BufSize
      BY BuilderTypes
    <3> HIDE DEF bytes, from, n
    <3>3. from + n + Len(bytes) <= BufSize
      BY <3>1, <3>2
    <3>4. buf \in [0..(BufSize - 1) -> Byte]
      BY BuilderTypes
    <3>5. Slice(Put(buf, from + n, bytes), from, n + Len(bytes)) = Slice(buf, from, n) \o bytes
      BY ONLY <3>1, <3>2, <3>3, <3>4, SliceEmitted
    <3>6. Slice(Put(buf, 2, bytes), from, 3) = Slice(buf, from, n) \o bytes
      BY ONLY <3>1, <3>2, <3>5
    <3> QED
      BY <3>6 DEF bytes, from, n
  <2> HIDE DEF c, h
  <2>2. Slice(Put(c, 5, t), 0, 3) = Slice(c, 0, 3)
    <3>1. 0 + 3 <= BufSize /\ 5 >= 0 + 3 /\ 5 \in Nat /\ 0 \in Nat /\ 3 \in Nat
      BY BuilderTypes
    <3> QED
      BY <1>0, <1>5, <3>1, SliceAway
  <2> QED
    BY <1>2, <1>4, <2>1, <2>2
<1>10. Slice(buf', 5, 4) = t
  <2> HIDE DEF c, h
  <2> DEFINE from == 5
             n == 0
  <2>1. /\ from \in Nat /\ n \in Nat /\ from + n = 5 /\ n + 4 = 4
        /\ from + n + 4 <= BufSize
    BY BuilderTypes
  <2>2. Slice(Put(c, 5, t), from, 4) = Slice(c, from, n) \o t
    <3> HIDE DEF from, n
    <3>1. from + n + Len(t) <= BufSize
      BY <1>0, <2>1
    <3>2. Slice(Put(c, from + n, t), from, n + Len(t)) = Slice(c, from, n) \o t
      BY ONLY <1>0, <1>5, <2>1, <3>1, SliceEmitted
    <3> QED
      BY ONLY <1>0, <2>1, <3>2
  <2>3. Slice(c, 5, 0) = <<>> /\ <<>> \o t = t
    BY <1>0 DEF Slice
  <2> QED
    BY <1>4, <2>1, <2>2, <2>3
<1>11. Total(t) = t[1] + t[2] + t[3] + t[4] /\ Total(t) \in Nat
  <2>1. <<>> \in Seq(Byte) /\ <<>> \o t = t /\ Total(<<>>) \in Nat
    BY <1>0, TotalEmpty
  <2>2. Total(<<>> \o t) = Total(<<>>) + (t[1] + t[2] + t[3] + t[4])
    BY <1>0, <2>1, WordAdded
  <2> QED
    BY <1>0, <2>1, <2>2, TotalEmpty
<1>12. pkt'.sum = SumBytes(Payload')
  <2>1. Append4(0, t) = (t[1] + t[2] + t[3] + t[4]) % 256
    BY <1>0 DEF Append4
  <2> QED
    BY <1>4, <1>8, <1>11, <2>1, SumIsTotal
<1>13. Opened'
  <2>1. asked'.kind = "package"
    <3>1. asked.kind = "package"
      BY <1>1 DEF Stored
    <3> QED
      BY <1>6, <3>1
  <2>2. /\ Packet'.tags \in Seq(Tag) /\ Len(Packet'.tags) = 0
        /\ FlattenSeq(Packet'.tags) \in Seq(Byte) /\ Len(FlattenSeq(Packet'.tags)) = 5 * 0
    <3>1. <<>> \in Seq(Tag) /\ <<>> \in Seq(Byte) /\ Len(<<>>) = 0
      OBVIOUS
    <3>2. FlattenSeq(Packet'.tags) = <<>>
      BY ONLY <1>7, FlattenNone
    <3>3. Len(<<>>) = 5 * 0
      BY <3>1
    <3>4. Len(FlattenSeq(Packet'.tags)) = 5 * 0 /\ FlattenSeq(Packet'.tags) \in Seq(Byte)
      BY ONLY <3>1, <3>2, <3>3, Zenon
    <3> QED
      BY ONLY <1>7, <3>1, <3>4, Zenon
  <2>3. Head3' = h \o <<1>>
    BY <1>6 DEF Head3
  <2>4. pos' - 5 = 4
    BY <1>4
  <2> HIDE DEF h, c, fresh
  <2>5. Slice(buf', 5, pos' - 5) = Payload'
    BY <1>8, <1>10, <2>4
  <2> QED
    BY <1>0, <1>4, <1>7, <1>8, <1>9, <1>11, <1>12, <2>1, <2>2, <2>3, <2>5 DEF Opened
<1> QED
  BY <1>1, <1>6, <1>13, StillNoOutput DEF Stored

(* What a tag adds to the sum. *)
LEMMA TagAdded ==
    ASSUME NEW s \in Seq(Byte), Total(s) \in Nat, NEW num \in Byte, NEW v \in Word,
           NEW sum, sum = SumBytes(s)
    PROVE  /\ s \o (<<num>> \o v) \in Seq(Byte)
           /\ Total(s \o (<<num>> \o v)) \in Nat
           /\ Append4((sum + num) % 256, v) = SumBytes(s \o (<<num>> \o v))
<1> DEFINE r == Append(s, num)
           w == v[1] + v[2] + v[3] + v[4]
           x == Total(s)
<1>0. num \in Nat /\ v \in Seq(Byte) /\ <<num>> \in Seq(Byte)
  BY WordBytes DEF Byte
<1>1. v[1] \in Nat /\ v[2] \in Nat /\ v[3] \in Nat /\ v[4] \in Nat
  <2>1. \A b \in Byte : b \in Nat
    BY DEF Byte
  <2> QED
    BY <2>1, WordBytes
<1>2. r \in Seq(Byte) /\ r = s \o <<num>>
  BY <1>0
<1>3. Total(r) = x + num /\ x \in Nat
  BY TotalAppend
<1>4. s \o (<<num>> \o v) = r \o v
  BY <1>0, <1>2, BytesAssociative, SMTT(30)
<1>5. Total(r) \in Nat
  BY <1>0, <1>3
<1>6. r \o v \in Seq(Byte)
  BY <1>0, <1>2, JoinedAt
<1> HIDE DEF r
<1>7. Total(r \o v) = Total(r) + w /\ Total(r \o v) \in Nat
  BY <1>2, <1>5, WordAdded
<1>8. sum = x % 256
  BY SumIsTotal
<1> DEFINE first == (sum + num) % 256
<1>9. first = (x + num) % 256 /\ first \in Nat
  <2> HIDE DEF x
  <2>1. ((x % 256) + num) % 256 = (x + num) % 256
    BY <1>0, <1>3, RestOfSum
  <2>2. (x + num) % 256 \in Nat
    BY <1>0, <1>3
  <2> QED
    BY <1>8, <2>1, <2>2
<1>10. Append4(first, v) = (first + w) % 256
  <2> HIDE DEF first
  <2>1. first + v[1] + v[2] + v[3] + v[4] = first + w
    BY <1>1, <1>9, SMTT(30)
  <2> QED
    BY <2>1 DEF Append4
<1>11. w \in Nat
  <2>1. \A a, b, c, d \in Nat : a + b + c + d \in Nat
    OBVIOUS
  <2> QED
    BY <1>1, <2>1
<1>12. (first + w) % 256 = ((x + num) + w) % 256
  <2> DEFINE y == x + num
  <2>1. y \in Nat
    BY <1>0, <1>3
  <2>2. first = y % 256
    BY <1>9
  <2> HIDE DEF first, w, y, x
  <2>3. ((y % 256) + w) % 256 = (y + w) % 256
    BY <1>11, <2>1, RestOfSum
  <2> QED
    BY <2>2, <2>3 DEF y
<1>13. SumBytes(r \o v) = ((x + num) + w) % 256
  BY <1>3, <1>7, SumIsTotal
<1> HIDE DEF first, w, x
<1> QED
  BY <1>4, <1>6, <1>7, <1>10, <1>12, <1>13, ZenonT(30) DEF first

(* As a function. *)
LEMMA BytesOfLength ==
    ASSUME NEW s \in Seq(Byte), NEW n \in Nat, Len(s) = n PROVE s \in [1..n -> Byte]
<1>1. DOMAIN s = 1..n /\ \A j \in 1..n : s[j] \in Byte
  BY ElementOfSeq, LenProperties
<1>2. s = [j \in 1..n |-> s[j]]
  BY <1>1
<1> QED
  BY <1>1, <1>2

(* A tag is written: it is behind the others, in the array and in the sum. *)
LEMMA WriteTagStored ==
    ASSUME IInv, Stored, NEW v \in TagValues, WriteTag(3 + tags, v) PROVE Stored'
<1> DEFINE num == 3 + tags
           tag == <<num>> \o v
           flat == FlattenSeq(Packet.tags)
           time == Packet.time
<1>1. /\ step = "packet" /\ tags \in 0..2 /\ pos = 9 + 5 * tags
      /\ DOMAIN asked = {"kind", "parcel", "packets"} /\ DOMAIN asked.packets = {1}
  BY DEF WriteTag, IInv, TypeOK, Cursor, MaxTags
<1>2. v \in Word /\ v \in Seq(Byte) /\ Len(v) = 4
  BY ProtocolAssumption, WordBytes
<1>3. num \in Byte /\ <<num>> \in Seq(Byte) /\ Len(<<num>>) = 1
  BY <1>1 DEF Byte
<1>4. tag \in Seq(Byte) /\ Len(tag) = 5 /\ tag \in Tag
  <2>1. tag \in Seq(Byte) /\ Len(tag) = Len(<<num>>) + Len(v)
    BY <1>2, <1>3, Joined, Zenon
  <2>2. Len(tag) = 5
    <3> HIDE DEF tag
    <3> QED
      BY <1>2, <1>3, <2>1
  <2> HIDE DEF tag
  <2>3. tag \in [1..5 -> Byte]
    <3> DEFINE n == 5
    <3>1. n \in Nat /\ Len(tag) = n
      BY <2>2
    <3> HIDE DEF n
    <3>2. tag \in [1..n -> Byte]
      BY <2>1, <3>1, BytesOfLength
    <3> QED
      BY <3>2 DEF n
  <2> QED
    BY <2>1, <2>2, <2>3 DEF Tag
<1>5. Opened
  BY <1>1 DEF Stored
<1>6. /\ step' = "packet" /\ out' = out /\ tags' = tags + 1
      /\ buf' = Put(buf, pos, tag) /\ pos' = pos + Len(tag)
  BY <1>1 DEF WriteTag, Emit
<1>7. pkt'.sum = Append4((pkt.sum + num) % 256, v)
  BY DEF WriteTag, IInv, TypeOK
<1> DEFINE more == [asked.packets[1] EXCEPT !.tags = Append(@, tag)]
<1>8. asked'.kind = asked.kind /\ asked'.parcel = asked.parcel /\ asked'.packets[1] = more
  <2> DEFINE packets == [asked.packets EXCEPT ![1] = more]
  <2>1. asked' = [asked EXCEPT !.packets = packets]
    BY DEF WriteTag
  <2> HIDE DEF more
  <2>2. asked'.kind = asked.kind /\ asked'.parcel = asked.parcel /\ asked'.packets = packets
    BY <1>1, <2>1
  <2>3. packets[1] = more
    BY <1>1
  <2> QED
    BY <2>2, <2>3
<1>9. /\ Packet'.time = time /\ Packet'.tags = Append(Packet.tags, tag)
      /\ DOMAIN Packet' = {"time", "tags"}
  <2>1. Packet' = more
    BY <1>8 DEF Packet
  <2>2. DOMAIN Packet = {"time", "tags"}
    BY <1>5 DEF Opened
  <2>3. Packet = asked.packets[1]
    BY DEF Packet
  <2> HIDE DEF tag
  <2> QED
    BY <2>1, <2>2, <2>3
<1>10. Packet.tags \in Seq(Tag) /\ Len(Packet.tags) = tags /\ time \in Seq(Byte)
  BY <1>5, WordBytes DEF Opened
<1>11. flat \in Seq(Byte) /\ FlattenSeq(Packet'.tags) = flat \o tag
  <2> DEFINE q == Packet.tags
  <2>1. q \in Seq(Tag) /\ Len(q) <= 2
    BY <1>1, <1>10
  <2> HIDE DEF q, tag
  <2>2. FlattenSeq(q) \in Seq(Byte) /\ FlattenSeq(Append(q, tag)) = FlattenSeq(q) \o tag
    BY <1>4, <2>1, TagAppended
  <2> QED
    BY <1>9, <2>2 DEF q
<1>12. Payload \in Seq(Byte) /\ Payload' = Payload \o tag
  <2>1. Payload = time \o flat
    BY DEF Payload
  <2>2. Payload' = time \o (flat \o tag)
    BY <1>9, <1>11 DEF Payload
  <2> HIDE DEF time, flat, tag
  <2>3. (time \o flat) \o tag = time \o (flat \o tag)
    BY <1>4, <1>10, <1>11, BytesAssociative
  <2>4. time \o flat \in Seq(Byte)
    BY <1>10, <1>11, JoinedAt
  <2> QED
    BY <2>1, <2>2, <2>3, <2>4
<1>13. /\ Payload' \in Seq(Byte) /\ Total(Payload') \in Nat
       /\ pkt'.sum = SumBytes(Payload')
  <2> DEFINE s == Payload
             sum == pkt.sum
  <2>1. s \in Seq(Byte) /\ Total(s) \in Nat /\ sum = SumBytes(s)
    BY <1>5, <1>12 DEF Opened
  <2> HIDE DEF s, sum, num
  <2>2. /\ s \o (<<num>> \o v) \in Seq(Byte) /\ Total(s \o (<<num>> \o v)) \in Nat
        /\ Append4((sum + num) % 256, v) = SumBytes(s \o (<<num>> \o v))
    BY <1>2, <1>3, <2>1, TagAdded
  <2> QED
    BY <1>7, <1>12, <2>2 DEF s, sum
<1>14. Slice(buf', 0, 3) = Slice(buf, 0, 3)
  <2> HIDE DEF tag
  <2>1. pos \in Nat /\ pos >= 0 + 3 /\ 0 + 3 <= BufSize /\ 0 \in Nat /\ 3 \in Nat
    BY <1>1, BuilderTypes
  <2> QED
    BY <1>4, <1>6, <2>1, SliceAway, BuilderTypes
<1>15. Slice(buf', 5, pos' - 5) = Payload'
  <2> DEFINE from == 5
             n == pos - 5
  <2>1. /\ from \in Nat /\ n \in Nat /\ from + n = pos /\ n + 5 = pos' - 5
        /\ from + n + 5 <= BufSize
    BY <1>1, <1>4, <1>6, BuilderTypes, SMTT(30)
  <2>2. Slice(buf, from, n) = Payload
    BY <1>5 DEF Opened
  <2> HIDE DEF from, n, tag
  <2>3. from + n + Len(tag) <= BufSize
    BY <1>4, <2>1
  <2>4. buf \in [0..(BufSize - 1) -> Byte]
    BY BuilderTypes
  <2>5. Slice(Put(buf, from + n, tag), from, n + Len(tag)) = Slice(buf, from, n) \o tag
    BY ONLY <1>4, <2>1, <2>3, <2>4, SliceEmitted
  <2>6. Slice(buf', from, pos' - 5) = Payload \o tag
    BY ONLY <1>4, <1>6, <2>1, <2>2, <2>5
  <2> QED
    BY <1>12, <2>6 DEF from
<1>16. Packet'.tags \in Seq(Tag) /\ Len(Packet'.tags) = tags'
  <2> DEFINE q == Packet.tags
  <2>1. q \in Seq(Tag) /\ Len(q) = tags
    BY <1>10
  <2> HIDE DEF q, tag
  <2>2. Append(q, tag) \in Seq(Tag) /\ Len(Append(q, tag)) = tags + 1
    BY <1>4, <2>1
  <2> QED
    BY <1>6, <1>9, <2>2 DEF q
<1>17. FlattenSeq(Packet'.tags) \in Seq(Byte) /\ Len(FlattenSeq(Packet'.tags)) = 5 * tags'
  <2>1. Len(flat) = 5 * tags
    BY <1>5 DEF Opened
  <2> HIDE DEF flat, tag
  <2>2. flat \o tag \in Seq(Byte) /\ Len(flat \o tag) = Len(flat) + Len(tag)
    BY <1>4, <1>11, JoinedAt
  <2>3. 5 * tags + 5 = 5 * (tags + 1)
    BY <1>1
  <2> QED
    BY <1>4, <1>6, <1>11, <2>1, <2>2, <2>3
<1>18. Opened'
  <2>1. /\ asked.kind = "package" /\ time \in Word /\ Slice(buf, 0, 3) = Head3
    BY <1>5 DEF Opened
  <2>2. Head3' = Head3
    BY <1>8 DEF Head3
  <2> HIDE DEF more, tag
  <2> QED
    BY <1>8, <1>9, <1>13, <1>14, <1>15, <1>16, <1>17, <2>1, <2>2 DEF Opened
<1> QED
  BY <1>1, <1>6, <1>8, <1>18, StillNoOutput DEF Stored

(* Three parts may be joined in either order; and so may those of a packet *)
(* behind the head of its package.                                         *)
Regroups(a, b, c) == (a \o b) \o c = a \o (b \o c)
PacketJoins(h, k, l, t, body, s) ==
    (((h \o k) \o l) \o (t \o body)) \o s = h \o ((((k \o l) \o t) \o body) \o s)

(* They may when they are bytes. *)
LEMMA Regrouped ==
    ASSUME NEW a \in Seq(Byte), NEW b \in Seq(Byte), NEW c \in Seq(Byte)
    PROVE  Regroups(a, b, c)
  BY BytesAssociative DEF Regroups

(* A packet stored behind the head is the head with the packet behind it. *)
LEMMA PacketJoined ==
    ASSUME NEW h \in Seq(Byte), NEW k \in Seq(Byte), NEW l \in Seq(Byte),
           NEW t \in Seq(Byte), NEW body \in Seq(Byte), NEW s \in Seq(Byte)
    PROVE  PacketJoins(h, k, l, t, body, s)
<1> DEFINE kl  == k \o l
           klt == kl \o t
           all == klt \o body
           hkl == (h \o k) \o l
<1>1. kl \in Seq(Byte)
  BY JoinedAt
<1>2. klt \in Seq(Byte)
  <2> HIDE DEF kl
  <2> QED
    BY <1>1, JoinedAt
<1>3. all \in Seq(Byte)
  <2> HIDE DEF klt
  <2> QED
    BY <1>2, JoinedAt
<1>4. hkl \in Seq(Byte)
  <2>1. h \o k \in Seq(Byte)
    BY JoinedAt
  <2> QED
    BY <2>1, JoinedAt
<1> HIDE DEF kl, klt, all, hkl
<1>5. Regroups(h, k, l) /\ Regroups(h, kl, t)
  BY <1>1, Regrouped
<1>6. Regroups(hkl, t, body) /\ Regroups(h, klt, body)
  BY <1>2, <1>4, Regrouped
<1>7. Regroups(h, all, s)
  BY <1>3, Regrouped
<1> QED
  BY ONLY <1>5, <1>6, <1>7, Zenon DEF Regroups, PacketJoins, kl, klt, all, hkl

(* The packet is closed: the length goes in front of the time, and the     *)
(* checksum behind the tags.                                               *)
LEMMA EndPacketStored == ASSUME IInv, Stored, EndPacket PROVE Stored'
<1> DEFINE h == <<91, asked.parcel>>
           time == Packet.time
           flat == FlattenSeq(Packet.tags)
           length == LE16(pos - 9)
           last == <<pkt.sum>>
           c == Put(buf, 3, length)
<1>1. /\ tags \in 2..3 /\ pos = 9 + 5 * tags /\ pkt.len_pos = 3 /\ pkt.sum \in Byte
      /\ step = "packet" /\ step' = "package" /\ asked' = asked /\ out' = out
      /\ pos' = pos + 1 /\ DOMAIN asked.packets = {1}
  BY DEF EndPacket, IInv, TypeOK, MaxTags, Cursor
<1>2. pos - 9 \in Nat /\ pos \in Nat /\ pos - 3 - 6 = pos - 9 /\ pos - 9 = 5 * tags
  BY <1>1
<1>3. length \in Seq(Byte) /\ Len(length) = 2 /\ last \in Seq(Byte) /\ Len(last) = 1
  <2>1. Len(length) = 2
    BY DEF LE16
  <2>2. length \in Seq(Byte) /\ last \in Seq(Byte)
    BY <1>1, <1>2, LengthBytes
  <2> QED
    BY <2>1, <2>2
<1>4. buf' = Put(c, pos, last)
  BY <1>1, <1>2 DEF EndPacket
<1>5. Opened
  BY <1>1 DEF Stored
<1>6. /\ Slice(buf, 0, 3) = h \o <<1>> /\ Slice(buf, 5, pos - 5) = time \o flat
      /\ time \in Seq(Byte) /\ flat \in Seq(Byte) /\ Len(flat) = pos - 9
      /\ pkt.sum = SumBytes(time \o flat)
  <2>1. time \in Seq(Byte)
    BY <1>5, WordBytes DEF Opened
  <2> QED
    BY <1>2, <1>5, <2>1 DEF Opened, Head3, Payload
<1> DEFINE packet == (((<<1>> \o length) \o time) \o flat) \o last
<1>7. EncodePacket(Packet) = packet
  <2>1. EncodePacket(Packet) =
          (((<<1>> \o LE16(Len(flat))) \o time) \o flat) \o <<SumBytes(time \o flat)>>
    BY DEF EncodePacket
  <2>2. LE16(Len(flat)) = length
    BY <1>6
  <2>3. <<SumBytes(time \o flat)>> = last
    BY <1>6
  <2> HIDE DEF length, time, flat, last
  <2> QED
    BY <2>1, <2>2, <2>3
<1>8. h \in Seq(Byte) /\ <<1>> \in Seq(Byte)
  <2>1. asked.parcel \in Byte
    BY <1>1 DEF Stored
  <2> QED
    BY <2>1 DEF Byte
<1> HIDE DEF h, time, flat, length, last
<1>9. c \in [0..(BufSize - 1) -> Byte]
  <2>1. 3 \in Nat
    OBVIOUS
  <2> QED
    BY <1>3, <2>1, PutBytes, BuilderTypes, Zenon
<1>10. Slice(c, 0, 5) = (h \o <<1>>) \o length
  <2> DEFINE from == 0
             n == 3
  <2>1. /\ from \in Nat /\ n \in Nat /\ from + n = 3 /\ n + 2 = 5
        /\ from + n + 2 <= BufSize
    BY BuilderTypes
  <2>2. Slice(buf, from, n) = h \o <<1>>
    BY <1>6
  <2>3. Slice(c, 0, 5) = Slice(Put(buf, 3, length), from, 5)
    OBVIOUS
  <2> HIDE DEF from, n, c
  <2>4. from + n + Len(length) <= BufSize
    BY <1>3, <2>1
  <2>5. buf \in [0..(BufSize - 1) -> Byte]
    BY BuilderTypes
  <2>6. Slice(Put(buf, from + n, length), from, n + Len(length)) = Slice(buf, from, n) \o length
    BY ONLY <1>3, <2>1, <2>4, <2>5, SliceEmitted
  <2> QED
    BY ONLY <1>3, <2>1, <2>2, <2>3, <2>6
<1>11. Slice(c, 5, pos - 5) = time \o flat
  <2>1. /\ pos - 5 \in Nat /\ 5 + (pos - 5) <= BufSize /\ 3 \in Nat /\ 5 \in Nat
        /\ 3 + Len(length) <= 5
    BY <1>1, <1>3, BuilderTypes
  <2> DEFINE from == 5
             m == pos - 5
             at == 3
  <2>2. /\ m \in Nat /\ from \in Nat /\ at \in Nat /\ from + m <= BufSize
        /\ (at >= from + m \/ at + Len(length) <= from)
    BY <2>1
  <2>3. Slice(Put(buf, at, length), from, m) = Slice(buf, from, m)
    <3> HIDE DEF from, m, at
    <3>1. buf \in [0..(BufSize - 1) -> Byte]
      BY BuilderTypes
    <3>2. length \in Seq(Byte)
      BY <1>3
    <3> QED
      BY ONLY <2>2, <3>1, <3>2, SliceAway
  <2> QED
    BY <1>6, <2>3
<1> HIDE DEF c
<1>12. Slice(c, 0, pos) = ((h \o <<1>>) \o length) \o (time \o flat)
  <2> DEFINE from == 0
             n == 5
             m == pos - 5
  <2>1. /\ from \in Nat /\ n \in Nat /\ m \in Nat /\ from + n + m <= BufSize
        /\ n + m = pos /\ from + n = 5
    BY <1>1, BuilderTypes
  <2>2. Slice(c, from, n) = (h \o <<1>>) \o length /\ Slice(c, 5, m) = time \o flat
    BY <1>10, <1>11
  <2> HIDE DEF from, n, m
  <2>3. Slice(c, from, n + m) = Slice(c, from, n) \o Slice(c, from + n, m)
    BY ONLY <1>9, <2>1, SliceSplit
  <2>4. Slice(c, from, pos) = ((h \o <<1>>) \o length) \o (time \o flat)
    BY ONLY <2>1, <2>2, <2>3
  <2> QED
    BY <2>4 DEF from
<1>13. Slice(buf', 0, pos + 1) = Slice(c, 0, pos) \o last
  <2> DEFINE from == 0
             n == pos
  <2>1. /\ from \in Nat /\ n \in Nat /\ from + n = pos /\ n + 1 = pos + 1
        /\ from + n + 1 <= BufSize
    BY <1>1, BuilderTypes
  <2>2. Slice(c, from, n) = Slice(c, 0, pos)
    OBVIOUS
  <2> HIDE DEF from, n
  <2>3. from + n + Len(last) <= BufSize
    BY <1>3, <2>1
  <2>4. Slice(Put(c, from + n, last), from, n + Len(last)) = Slice(c, from, n) \o last
    BY ONLY <1>3, <1>9, <2>1, <2>3, SliceEmitted
  <2>5. Slice(buf', from, pos + 1) = Slice(c, 0, pos) \o last
    BY ONLY <1>3, <1>4, <2>1, <2>2, <2>4
  <2> QED
    BY <2>5 DEF from
<1>14. Slice(buf', 0, pos') = h \o packet
  <2>1. (((h \o <<1>>) \o length) \o (time \o flat)) \o last = h \o packet
    <3> DEFINE k == <<1>>
    <3>1. k \in Seq(Byte)
      BY <1>8
    <3> HIDE DEF k
    <3>2. PacketJoins(h, k, length, time, flat, last)
      BY <1>3, <1>6, <1>8, <3>1, PacketJoined
    <3> QED
      BY ONLY <3>2, Zenon DEF PacketJoins, k
  <2> HIDE DEF packet
  <2> QED
    BY <1>1, <1>12, <1>13, <2>1
<1>15. /\ h' = h /\ Packet' = Packet /\ EncodePacket(Packet') = packet
  BY <1>1, <1>7 DEF h, Packet
<1>16. asked'.packets # <<>>
  <2>1. DOMAIN asked'.packets = {1} /\ DOMAIN <<>> = {}
    BY <1>1
  <2> QED
    BY ONLY <2>1
<1>17. asked'.kind = "package"
  BY <1>1, <1>5 DEF Opened
<1> HIDE DEF packet
<1> QED
  BY <1>1, <1>14, <1>15, <1>16, <1>17, StillNoOutput DEF Stored, h
-----------------------------------------------------------------------------
(* The builder's invariant holds in every state. *)
LEMMA StoredInvariance == Spec => []Stored
<1>1. IInv /\ Stored /\ [Next]_vars => Stored'
  <2> SUFFICES ASSUME IInv, Stored, [Next]_vars PROVE Stored'
    OBVIOUS
  <2>1. ASSUME UNCHANGED vars PROVE Stored'
    BY <2>1 DEF vars, Stored, Opened, OutputIsEncoding, Packet, Payload, Head3
  <2>2. ASSUME \/ Reset \/ (\E m \in Incoming : ReadBegin(m)) \/ ReadRest
               \/ Finish \/ ComHeader2 \/ UseAnswer
        PROVE  Stored'
    <3>1. UNCHANGED <<asked, out>> /\ step' \notin {"package", "packet", "output"}
      BY <2>2 DEF Reset, ReadBegin, ReadRest, Finish, ComHeader2, UseAnswer, builder
    <3> QED
      BY <3>1, OtherStored
  <2> QED
    BY <2>1, <2>2, Header2Stored, BeginPackageStored, BeginPacketStored, WriteTagStored,
       EndPacketStored, EndPackageStored, OutputStored DEF Next
<1> QED
  BY <1>1, InitStored, Invariance, PTL DEF Spec

(* What output() hands out is the message that was asked for, with the     *)
(* length of its tags in front of the time and the checksum of both behind *)
(* them, for every value, time and parcel number.                          *)
THEOREM EncodingSafe == Spec => []OutputIsEncoding
<1>1. Stored => OutputIsEncoding
  BY DEF Stored
<1> QED
  BY <1>1, StoredInvariance, PTL
=============================================================================
