--------------------------- MODULE ServerProtocol ---------------------------
(***************************************************************************)
(* The message builder and parser of the server connection                 *)
(* (src/main/server/protocol.hpp).  One array, buf, serves both directions:*)
(* the builder appends at pos, output() hands out buf[0..pos) and rewinds, *)
(* and a Server_com reads the answer into the same bytes from index 0.     *)
(*                                                                         *)
(* Array indices are the C++ ones (buf[0] is the first byte).  A value of  *)
(* w bytes is the sequence of its w bytes, least significant first, which  *)
(* is the order write() stores them in.  The caller (server/task.hpp)      *)
(* appears as `step', the order in which it makes the calls.               *)
(***************************************************************************)
EXTENDS Naturals, Sequences, SequencesExt

CONSTANTS
    BufSize,     \* sizeof buf: 255 + 6 in the code
    Imei,        \* the eight bytes of the device number
    Times,       \* possible results of time(0), four bytes each
    TagValues,   \* possible tag payloads, four bytes each
    Parcels,     \* parcel numbers the caller uses
    Incoming     \* byte strings the server may send as one answer

Byte  == 0..255
Word  == [1..4 -> Byte]
HeadLen == 3
MaxTags == 3     \* tags of one packet in write_gps_packet

ASSUME ProtocolAssumption ==
    /\ BufSize \in Nat /\ BufSize >= 255 + 6
    /\ Imei \in [1..8 -> Byte]
    /\ Times \subseteq Word
    /\ TagValues \subseteq Word
    /\ Parcels \subseteq Byte
    /\ \A m \in Incoming : m \in Seq(Byte) /\ Len(m) >= HeadLen

VARIABLES
    buf,    \* the shared array
    pos,    \* the builder's cursor
    pkt,    \* packet_buider: where the length goes, running checksum
    com,    \* Server_com: data.data (as an offset), data.size, parcel_number
    step,   \* which call the caller makes next
    tags,   \* number of tags in the open packet
    asked,  \* ghost: the message the caller asked for
    out,    \* ghost: the bytes output() handed out for it
    got     \* ghost: the bytes of the current answer, as the server sent it

vars == <<buf, pos, pkt, com, step, tags, asked, out, got>>
builder == <<pos, pkt, tags, asked, out>>

Put(b, at, bytes) ==
    [k \in DOMAIN b |-> IF at <= k /\ k < at + Len(bytes)
                        THEN bytes[k - at + 1] ELSE b[k]]

Slice(b, at, n) == [k \in 1..n |-> b[at + k - 1]]

LE16(n) == <<n % 256, (n \div 256) % 256>>

(* mistake: the checksum is kept in more than a byte *)
Append4Wide(sum, v) == sum + v[1] + v[2] + v[3] + v[4]

Append4(sum, v) == (sum + v[1] + v[2] + v[3] + v[4]) % 256

NoPacket == [len_pos |-> 0, sum |-> 0]
NoCom    == [at |-> 0, size |-> 0, parcel |-> 0]
NoMessage == [kind |-> "none", parcel |-> 0, packets |-> <<>>]
-----------------------------------------------------------------------------
Init ==
    /\ buf = [k \in 0..(BufSize - 1) |-> 0]
    /\ pos = 0
    /\ pkt = NoPacket
    /\ com = NoCom
    /\ step = "reset"
    /\ tags = 0
    /\ asked = NoMessage
    /\ out = <<>>
    /\ got = <<>>

(* append bytes at the cursor *)
Emit(bytes) ==
    /\ buf' = Put(buf, pos, bytes)
    /\ pos' = pos + Len(bytes)

Reset ==
    /\ step = "reset"
    /\ pos' = 0
    /\ step' = "header2"
    /\ UNCHANGED <<buf, pkt, com, tags, asked, out, got>>

BuildHeader2 ==
    /\ step = "header2"
    /\ Emit(<<255, 35>> \o Imei)
    /\ asked' = [NoMessage EXCEPT !.kind = "header2"]
    /\ out' = <<>>
    /\ step' = "output"
    /\ UNCHANGED <<pkt, com, tags, got>>

BeginPackage(n) ==
    /\ step = "idle"
    /\ Emit(<<91, n>>)
    /\ asked' = [kind |-> "package", parcel |-> n, packets |-> <<>>]
    /\ out' = <<>>
    /\ step' = "package"
    /\ UNCHANGED <<pkt, com, tags, got>>

BeginPacket(t) ==
    /\ step = "package"
    /\ asked.packets = <<>>
    /\ buf' = Put(Put(buf, pos, <<1>>), pos + 3, t)
    /\ pos' = pos + 7
    /\ pkt' = [len_pos |-> pos + 1, sum |-> Append4(0, t)]
    /\ tags' = 0
    /\ asked' = [asked EXCEPT !.packets = <<[time |-> t, tags |-> <<>>]>>]
    /\ step' = "packet"
    /\ UNCHANGED <<com, out, got>>

WriteTag(num, v) ==
    /\ step = "packet"
    /\ tags < MaxTags
    /\ Emit(<<num>> \o v)
    /\ pkt' = [pkt EXCEPT !.sum = Append4((@ + num) % 256, v)]
    /\ tags' = tags + 1
    /\ asked' = [asked EXCEPT !.packets[1].tags = Append(@, <<num>> \o v)]
    /\ UNCHANGED <<com, step, out, got>>

(* mistake: the length counts the time in front of the tags too *)
EndPacketCountsTime ==
    /\ step = "packet"
    /\ tags >= 2
    /\ buf' = Put(Put(buf, pkt.len_pos, LE16(pos - pkt.len_pos - 2)),
                  pos, <<pkt.sum>>)
    /\ pos' = pos + 1
    /\ step' = "package"
    /\ UNCHANGED <<pkt, com, tags, asked, out, got>>

EndPacket ==
    /\ step = "packet"
    /\ tags >= 2
    /\ buf' = Put(Put(buf, pkt.len_pos, LE16(pos - pkt.len_pos - 6)),
                  pos, <<pkt.sum>>)
    /\ pos' = pos + 1
    /\ step' = "package"
    /\ UNCHANGED <<pkt, com, tags, asked, out, got>>

EndPackage ==
    /\ step = "package"
    /\ Emit(<<93>>)
    /\ step' = "output"
    /\ UNCHANGED <<pkt, com, tags, asked, out, got>>

Output ==
    /\ step = "output"
    /\ out' = Slice(buf, 0, pos)
    /\ pos' = 0
    /\ step' = IF asked.kind = "header2" THEN "hello" ELSE "idle"
    /\ UNCHANGED <<buf, pkt, com, tags, asked, got>>
-----------------------------------------------------------------------------
(* The answer.  `got' is what the server sends; the caller fills the two   *)
(* segments the parser asks for from it.                                   *)

(* Server_com() and begin(): the first three bytes *)
ReadBegin(m) ==
    /\ step \in {"hello", "idle"}
    /\ got' = m
    /\ com' = NoCom
    /\ buf' = Put(buf, 0, SubSeq(m, 1, HeadLen))
    /\ step' = IF step = "hello" THEN "hello_rest" ELSE "rest"
    /\ UNCHANGED builder

RestSegment(size) == [at |-> 3, size |-> IF size > 0 THEN size + 2 ELSE 1]

(* mistakes: the offset is added to a head that is already in it; an empty *)
(* answer is taken to have a checksum                                      *)
DataAfterTwoHeads(size) == HeadLen + (IF size > 0 THEN 4 ELSE 3)
DataAfterChecksum(size) == 4

DataAt(size) == IF size > 0 THEN 4 ELSE 3

(* rest(): what remains, filled if the server sent as much *)
ReadRest ==
    /\ step \in {"hello_rest", "rest"}
    /\ IF buf[0] # 123
       THEN /\ step' = "reset"
            /\ UNCHANGED <<buf, com>>
       ELSE LET seg == RestSegment(buf[1]) IN
            /\ com' = [at |-> DataAt(buf[1]), size |-> buf[1], parcel |-> buf[2]]
            /\ Len(got) >= HeadLen + seg.size
            /\ buf' = Put(buf, seg.at, SubSeq(got, HeadLen + 1, HeadLen + seg.size))
            /\ step' = IF step = "rest" THEN "finish" ELSE "hello_finish"
    /\ UNCHANGED <<builder, got>>

(* mistake: the terminator is not looked at *)
FinishUnchecked ==
    /\ step \in {"finish", "hello_finish"}
    /\ step' = IF step = "finish" THEN "answered" ELSE "com_header2"
    /\ UNCHANGED <<buf, com, builder, got>>

(* finish(): the terminator *)
Finish ==
    /\ step \in {"finish", "hello_finish"}
    /\ step' = IF buf[com.at + com.size] # 125 THEN "reset"
               ELSE IF step = "finish" THEN "answered" ELSE "com_header2"
    /\ UNCHANGED <<buf, com, builder, got>>

ComHeader2 ==
    /\ step = "com_header2"
    /\ step' = IF com.parcel # 0 \/ com.size # 4 THEN "reset" ELSE "greeted"
    /\ UNCHANGED <<buf, com, builder, got>>

(* the caller uses the answer (logs it, sets the clock) and goes on *)
UseAnswer ==
    /\ step \in {"answered", "greeted"}
    /\ step' = "idle"
    /\ got' = <<>>
    /\ UNCHANGED <<buf, com, builder>>

Next ==
    \/ Reset
    \/ BuildHeader2
    \/ \E n \in Parcels : BeginPackage(n)
    \/ \E t \in Times : BeginPacket(t)
    \/ \E v \in TagValues : WriteTag(3 + tags, v)
    \/ EndPacket
    \/ EndPackage
    \/ Output
    \/ \E m \in Incoming : ReadBegin(m)
    \/ ReadRest
    \/ Finish
    \/ ComHeader2
    \/ UseAnswer

Spec == Init /\ [][Next]_vars
-----------------------------------------------------------------------------
(* The wire format, written from the layout of a finished message and not  *)
(* from the builder.                                                       *)
SumBytes(bytes) == FoldLeft(LAMBDA s, b : s + b, 0, bytes) % 256

EncodePacket(p) ==
    LET body == FlattenSeq(p.tags) IN
    <<1>> \o LE16(Len(body)) \o p.time \o body \o <<SumBytes(p.time \o body)>>

Encode(msg) ==
    IF msg.kind = "header2"
    THEN <<255, 35>> \o Imei
    ELSE <<91, msg.parcel>>
         \o FlattenSeq([k \in DOMAIN msg.packets |-> EncodePacket(msg.packets[k])])
         \o <<93>>

(* An answer: 7B, size, parcel, then for a non-empty one a checksum byte   *)
(* and the data, then 7D.                                                  *)
FrameLen(m) == HeadLen + (IF m[2] > 0 THEN 1 + m[2] ELSE 0) + 1
IsFrame(m)  == /\ Len(m) >= HeadLen + 1
               /\ m[1] = 123
               /\ Len(m) >= FrameLen(m)
               /\ m[FrameLen(m)] = 125
FrameData(m) == SubSeq(m, FrameLen(m) - m[2], FrameLen(m) - 1)
-----------------------------------------------------------------------------
Steps == {"reset", "header2", "hello", "hello_rest", "hello_finish",
          "com_header2", "greeted", "idle", "package", "packet", "output",
          "rest", "finish", "answered"}

(* Every variable stays in its type. *)
TypeOK ==
    /\ buf \in [0..(BufSize - 1) -> Byte]
    /\ pos \in Nat
    /\ pkt \in [len_pos : Nat, sum : Byte]
    /\ com \in [at : {0, 3, 4}, size : Byte, parcel : Byte]
    /\ step \in Steps
    /\ tags \in 0..MaxTags

(* No store of the builder, and no byte of an answer, falls outside buf:   *)
(* the cursor is the end of the last store (the stores of begin_package,   *)
(* end_packet and end_package have no assert of their own), and the end of *)
(* the segment rest() asks for is the end of the longest read.             *)
InsideBuf ==
    /\ pos <= BufSize
    /\ step \in {"finish", "hello_finish"} => com.at + com.size < BufSize

(* What output() hands out is the message that was asked for: the length   *)
(* patched in afterwards counts the tags only, and the checksum covers the *)
(* time and the tags.                                                      *)
OutputIsEncoding == out # <<>> => out = Encode(asked)

(* An answer is taken exactly when it is a frame, and its number and data  *)
(* are the frame's, whatever an earlier message or answer left in buf.     *)
AnswerIsFrame ==
    step \in {"answered", "com_header2", "greeted"} =>
        /\ IsFrame(got)
        /\ com.parcel = got[3]
        /\ Slice(buf, com.at, com.size) = FrameData(got)

(* A frame whose bytes are all there is never refused. *)
FramesAccepted ==
    [][ (step \in {"rest", "finish"} /\ IsFrame(got)) => (step' # "reset") ]_vars
=============================================================================
