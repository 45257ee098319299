------------------------------ MODULE CommTask ------------------------------
(***************************************************************************)
(* The task that keeps the device reporting (src/main/server/task.hpp,     *)
(* with its socket, src/main/network/tcp_sock.hpp): connect, introduce     *)
(* yourself, then send a parcel with the position every five minutes and   *)
(* read what the server sends in between; on any exception wait ten        *)
(* seconds and connect again.                                              *)
(*                                                                         *)
(* The module holds the task, the descriptors it owns, the byte stream of  *)
(* its connection and the lock on the position.  The server, the network,  *)
(* the clock and the GPS task are environment.  Telematics composes the    *)
(* task with the real GPS receiver.                                        *)
(***************************************************************************)
EXTENDS Integers, Sequences, SequencesExt

CONSTANTS
    Fds,          \* the socket descriptors of the network stack
    MaxParcel,    \* largest parcel number, 0xFB in the code
    TimeLen,      \* bytes of the time in the greeting, 4 in the code
    Noise,        \* byte strings a faulty server may send for an answer
    Sentences,    \* numbers of the GPS sentences a position can come from
    Merged,       \* latitude and longitude of the sentences that have become
                  \* one where characters were lost: no checksum is looked at
    MaxDue,       \* bound: answers the server has outstanding
    MaxFaults     \* bound: network failures and restarts in a behaviour

ASSUME CommAssumption ==
    /\ Fds \subseteq Nat \ {0}
    /\ MaxParcel \in Nat \ {0}
    /\ TimeLen \in Nat \ {0}
    /\ Noise \subseteq Seq(Nat)
    /\ Sentences \subseteq Nat \ {0}
    /\ Merged \subseteq (Sentences \cup {0}) \X (Sentences \cup {0})
    /\ MaxDue \in Nat
    /\ MaxFaults \in Nat

VARIABLES
    pc,        \* where the task is
    hello,     \* TRUE in establish(), FALSE in the reporting loop
    s,         \* TCP_sock::s of the member socket, 0 for -1
    tmp,       \* s of the temporary TCP_sock being constructed
    conn,      \* state of every descriptor
    i,         \* the parcel counter
    pos,       \* Protocol::pos
    got, goal, \* bytes of the answer read into buf so far, and wanted
    expired,   \* the running Timeout has elapsed
    err,       \* what the last exception was about
    wire,      \* parcel number last written on the connection, 0 = header2
    pkt,       \* the position in the package being built
    stream,    \* bytes the server sent on s and the task has not read
    avail,     \* how many of them have arrived
    due,       \* ghost: the answers those bytes belong to
    welcomed,  \* ghost: the server sent a greeting on this connection
    lock,      \* holder of the mutex of gps.data
    fix,       \* gps.data: for each field the sentence it was read from
    faults     \* failures of the network and restarts so far

local == <<pc, hello, i, pos, got, goal, err, wire, pkt>>
socks == <<s, tmp, conn>>
peer  == <<stream, avail, due, welcomed>>
gpsv  == <<lock, fix>>
vars  == <<pc, hello, s, tmp, conn, i, pos, got, goal, expired, err, wire, pkt,
           stream, avail, due, welcomed, lock, fix, faults>>

NoFix == [lat |-> 0, lon |-> 0, quality |-> 0, speed |-> 0]
NoPacket == [lat |-> 0, lon |-> 0, speed |-> 0]
HeadLen == 3
Reading == {"select", "blocked", "head", "rest"}
Field == Sentences \cup {0}

(* Answers on the wire: 7B, size, parcel, [checksum, data], 7D *)
Frame(parcel, data) ==
    <<123, Len(data), parcel>>
      \o (IF data = <<>> THEN <<>> ELSE <<0>> \o data) \o <<125>>
Greeting == Frame(0, [k \in 1..TimeLen |-> 1])
Confirm(n) == Frame(n, <<>>)
Command == Frame(MaxParcel + 1, <<2>>)

(* mistake: the checksum in front of the data is forgotten *)
RestLenWithoutChecksum(size) == size + 1

RestLen(size) == IF size > 0 THEN size + 2 ELSE 1

Lost == {"fin", "eof", "reset"}
Connected == s # 0 /\ conn[s] = "up"

Init ==
    /\ pc = "resolve" /\ hello = TRUE
    /\ s = 0 /\ tmp = 0
    /\ conn = [f \in Fds |-> "free"]
    /\ i = 0 /\ pos = 0 /\ got = <<>> /\ goal = 0
    /\ expired = FALSE /\ err = "none" /\ wire = 0 /\ pkt = NoPacket
    /\ stream = <<>> /\ avail = 0 /\ due = <<>> /\ welcomed = FALSE
    /\ lock = "free" /\ fix = NoFix
    /\ faults = 0
-----------------------------------------------------------------------------
(* Exceptions: every throw ends in the catch of task() and its delay. *)
Throw(e) == pc' = "backoff" /\ err' = e

Fault == faults < MaxFaults /\ faults' = faults + 1

(* dns_lookup(): true for an address, not for the network being down *)
Resolve ==
    /\ pc = "resolve"
    /\ \/ pc' = "socket" /\ UNCHANGED <<err, faults>>
       \/ Fault /\ Throw("dns")
    /\ hello' = TRUE
    /\ UNCHANGED <<socks, i, pos, got, goal, expired, wire, pkt, peer, gpsv>>

OpenSocket ==
    /\ pc = "socket"
    /\ \/ \E f \in Fds :
            /\ conn[f] = "free"
            /\ tmp' = f
            /\ conn' = [conn EXCEPT ![f] = "fresh"]
            /\ pc' = "connect"
            /\ UNCHANGED err
       \/ /\ \A f \in Fds : conn[f] # "free"
          /\ Throw("socket")
          /\ UNCHANGED <<tmp, conn>>
    /\ UNCHANGED <<hello, s, i, pos, got, goal, expired, wire, pkt, peer, gpsv, faults>>

Connect ==
    /\ pc = "connect"
    /\ \/ /\ conn' = [conn EXCEPT ![tmp] = "up"]
          /\ pc' = "adopt"
          /\ UNCHANGED <<tmp, err, faults>>
       \/ /\ Fault
          /\ conn' = [conn EXCEPT ![tmp] = "free"]
          /\ tmp' = 0
          /\ Throw("connect")
    /\ UNCHANGED <<hello, s, i, pos, got, goal, expired, wire, pkt, peer, gpsv>>

(* mistake: the assignment forgets the socket it replaces *)
AdoptLeaks ==
    /\ pc = "adopt"
    /\ s' = tmp
    /\ tmp' = 0
    /\ pos' = 0
    /\ stream' = <<>> /\ avail' = 0 /\ due' = <<>> /\ welcomed' = FALSE
    /\ pc' = "hello"
    /\ UNCHANGED <<hello, conn, i, got, goal, expired, err, wire, pkt, gpsv, faults>>

(* the move assignment, set_read_timeout() and proto.reset() *)
Adopt ==
    /\ pc = "adopt"
    /\ conn' = IF s > 0 THEN [conn EXCEPT ![s] = "free"] ELSE conn
    /\ s' = tmp
    /\ tmp' = 0
    /\ pos' = 0
    /\ stream' = <<>> /\ avail' = 0 /\ due' = <<>> /\ welcomed' = FALSE
    /\ pc' = "hello"
    /\ UNCHANGED <<hello, i, got, goal, expired, err, wire, pkt, gpsv, faults>>

(* build_header2(), output(), write(): written or not, the result is not   *)
(* looked at.  Then the answer is awaited for fifteen seconds.             *)
Hello ==
    /\ pc = "hello"
    /\ pos' = 0
    /\ wire' = 0
    /\ expired' = FALSE
    /\ pc' = "select"
    /\ UNCHANGED <<hello, socks, i, got, goal, err, pkt, peer, gpsv, faults>>
-----------------------------------------------------------------------------
(* read_response() *)

Readable == avail > 0 \/ conn[s] \in Lost

(* select() looks at the socket before it blocks on it *)
Block ==
    /\ pc = "select"
    /\ ~Readable
    /\ pc' = "blocked"
    /\ UNCHANGED <<hello, socks, i, pos, got, goal, expired, err, wire, pkt, peer, gpsv, faults>>

(* select() reports the socket; Server_com() and begin() *)
WaitReadable ==
    /\ pc \in {"select", "blocked"}
    /\ Readable
    /\ pc' = "head"
    /\ got' = <<>>
    /\ goal' = HeadLen
    /\ UNCHANGED <<hello, socks, i, pos, expired, err, wire, pkt, peer, gpsv, faults>>

(* mistake: no answer to the introduction counts as one *)
WaitTimeoutGoesOn ==
    /\ pc = "blocked"
    /\ expired
    /\ pc' = (IF hello THEN "package" ELSE "window")
    /\ hello' = FALSE
    /\ UNCHANGED <<socks, i, pos, got, goal, expired, err, wire, pkt, peer, gpsv, faults>>

(* select() times out, be the socket readable by now or not *)
WaitTimeout ==
    /\ pc = "blocked"
    /\ expired
    /\ IF hello THEN Throw("no answer")
                ELSE pc' = "window" /\ UNCHANGED err
    /\ UNCHANGED <<hello, socks, i, pos, got, goal, expired, wire, pkt, peer, gpsv, faults>>

(* mistake: the end of the stream is not an error *)
ReadPastEnd ==
    /\ pc \in {"head", "rest"}
    /\ Len(got) < goal
    /\ \/ /\ avail > 0
          /\ got' = Append(got, Head(stream))
          /\ stream' = Tail(stream)
          /\ avail' = avail - 1
          /\ UNCHANGED <<pc, err, conn>>
       \/ /\ avail = 0 /\ conn[s] = "fin"
          /\ conn' = [conn EXCEPT ![s] = "eof"]
          /\ UNCHANGED <<pc, err, got, stream, avail>>
       \/ /\ avail = 0 /\ conn[s] = "reset"
          /\ Throw("read")
          /\ UNCHANGED <<conn, got, stream, avail>>
    /\ UNCHANGED <<hello, s, tmp, i, pos, goal, expired, wire, pkt, due, welcomed,
                   gpsv, faults>>

(* One lwip_read() of read_all(): fill_segment() passes no timeout, so     *)
(* SO_RCVTIMEO is 0 and an empty socket blocks; the EAGAIN return and the  *)
(* "server response timeout" of fill_segment() are never reached.  The     *)
(* first read after a FIN returns 0, which read_all() reads on from; the   *)
(* next one fails, as a read of a reset connection does.                   *)
Read ==
    /\ pc \in {"head", "rest"}
    /\ Len(got) < goal
    /\ \/ /\ avail > 0
          /\ LET r == IF avail < goal - Len(got) THEN avail ELSE goal - Len(got) IN
             /\ got' = got \o SubSeq(stream, 1, r)
             /\ stream' = SubSeq(stream, r + 1, Len(stream))
             /\ avail' = avail - r
          /\ UNCHANGED <<pc, err, conn>>
       \/ /\ avail = 0 /\ conn[s] = "fin"
          /\ conn' = [conn EXCEPT ![s] = "eof"]
          /\ UNCHANGED <<pc, err, got, stream, avail>>
       \/ /\ avail = 0 /\ conn[s] \in {"eof", "reset"}
          /\ Throw("read")
          /\ UNCHANGED <<conn, got, stream, avail>>
    /\ UNCHANGED <<hello, s, tmp, i, pos, goal, expired, wire, pkt, due, welcomed,
                   gpsv, faults>>

(* rest(): check the first byte, ask for what the second one announces *)
Rest ==
    /\ pc = "head"
    /\ Len(got) = goal
    /\ IF got[1] = 123
       THEN pc' = "rest" /\ goal' = HeadLen + RestLen(got[2]) /\ UNCHANGED err
       ELSE Throw("frame") /\ UNCHANGED goal
    /\ UNCHANGED <<hello, socks, i, pos, got, expired, wire, pkt, peer, gpsv, faults>>

(* finish(), and com_header2() for the answer to header2 *)
Finish ==
    /\ pc = "rest"
    /\ Len(got) = goal
    /\ IF got[goal] # 125 THEN Throw("frame") /\ UNCHANGED <<hello, i>>
       ELSE IF ~hello THEN pc' = "window" /\ UNCHANGED <<hello, i, err>>
       ELSE IF got[3] # 0 \/ got[2] # TimeLen
            THEN Throw("greeting") /\ UNCHANGED <<hello, i>>
       ELSE pc' = "package" /\ hello' = FALSE /\ i' = 0 /\ UNCHANGED err
    /\ due' = IF due = <<>> THEN due ELSE Tail(due)
    /\ UNCHANGED <<socks, pos, got, goal, expired, wire, pkt, stream, avail,
                   welcomed, gpsv, faults>>
-----------------------------------------------------------------------------
(* The reporting loop *)

(* mistakes: the number does not wrap; it wraps to the introduction's *)
BeginPackageOn ==
    /\ pc = "package"
    /\ i' = i + 1
    /\ expired' = FALSE
    /\ pos' = pos + 2
    /\ pkt' = NoPacket
    /\ pc' = "lock"
    /\ UNCHANGED <<hello, socks, got, goal, err, wire, peer, gpsv, faults>>
BeginPackageToZero ==
    /\ pc = "package"
    /\ i' = (i + 1) % (MaxParcel + 1)
    /\ expired' = FALSE
    /\ pos' = pos + 2
    /\ pkt' = NoPacket
    /\ pc' = "lock"
    /\ UNCHANGED <<hello, socks, got, goal, err, wire, peer, gpsv, faults>>

(* ++i, the Timeout of five minutes, begin_package() *)
BeginPackage ==
    /\ pc = "package"
    /\ i' = IF i + 1 = MaxParcel + 1 THEN 1 ELSE i + 1
    /\ expired' = FALSE
    /\ pos' = pos + 2
    /\ pkt' = NoPacket
    /\ pc' = "lock"
    /\ UNCHANGED <<hello, socks, got, goal, err, wire, peer, gpsv, faults>>

(* mistake: the position is read without its lock *)
TakeNoLock ==
    /\ pc = "lock"
    /\ lock' = "comm"
    /\ pc' = "position"
    /\ UNCHANGED <<hello, socks, i, pos, got, goal, expired, err, wire, pkt, peer, fix, faults>>

(* write_gps_packet(): gps.data.get() *)
TakeLock ==
    /\ pc = "lock"
    /\ lock = "free"
    /\ lock' = "comm"
    /\ pc' = "position"
    /\ UNCHANGED <<hello, socks, i, pos, got, goal, expired, err, wire, pkt, peer, fix, faults>>

(* begin_packet() and the first tag, if there is a fix *)
BuildLat ==
    /\ pc = "position"
    /\ IF fix.quality # 0
       THEN /\ pkt' = [pkt EXCEPT !.lat = fix.lat]
            /\ pos' = pos + 7 + 5
            /\ pc' = "position2"
       ELSE /\ pc' = "release"
            /\ UNCHANGED <<pkt, pos>>
    /\ UNCHANGED <<hello, socks, i, got, goal, expired, err, wire, peer, gpsv, faults>>

(* the other tags and end_packet() *)
BuildRest ==
    /\ pc = "position2"
    /\ pkt' = [pkt EXCEPT !.lon = fix.lon, !.speed = fix.speed]
    /\ pos' = pos + 5 + (IF fix.speed # 0 THEN 5 ELSE 0) + 1
    /\ pc' = "release"
    /\ UNCHANGED <<hello, socks, i, got, goal, expired, err, wire, peer, gpsv, faults>>

(* mistake: the lock is kept *)
ReleaseKeeps ==
    /\ pc = "release"
    /\ pc' = "send"
    /\ UNCHANGED <<hello, socks, i, pos, got, goal, expired, err, wire, pkt, peer, gpsv, faults>>

(* the reference goes out of scope *)
Release ==
    /\ pc = "release"
    /\ lock' = "free"
    /\ pc' = "send"
    /\ UNCHANGED <<hello, socks, i, pos, got, goal, expired, err, wire, pkt, peer, fix, faults>>

(* mistake: the cursor stays behind what was sent *)
SendKeepsCursor ==
    /\ pc = "send"
    /\ wire' = i
    /\ pkt' = NoPacket
    /\ pc' = "window"
    /\ UNCHANGED <<hello, socks, i, pos, got, goal, expired, err, peer, gpsv, faults>>

(* end_package(), output(), write(): the result is only logged *)
Send ==
    /\ pc = "send"
    /\ pos' = 0
    /\ wire' = i
    /\ pkt' = NoPacket
    /\ pc' = "window"
    /\ UNCHANGED <<hello, socks, i, got, goal, expired, err, peer, gpsv, faults>>

(* while (!t.done()) *)
Window ==
    /\ pc = "window"
    /\ pc' = IF expired THEN "package" ELSE "select"
    /\ UNCHANGED <<hello, socks, i, pos, got, goal, expired, err, wire, pkt, peer, gpsv, faults>>

(* vTaskDelay() after an exception *)
Backoff ==
    /\ pc = "backoff"
    /\ pc' = "resolve"
    /\ UNCHANGED <<hello, socks, i, pos, got, goal, expired, err, wire, pkt, peer, gpsv, faults>>

Task ==
    \/ Resolve \/ OpenSocket \/ Connect \/ Adopt \/ Hello
    \/ Block \/ WaitReadable \/ WaitTimeout \/ Read \/ Rest \/ Finish
    \/ BeginPackage \/ TakeLock \/ BuildLat \/ BuildRest \/ Release \/ Send
    \/ Window \/ Backoff
-----------------------------------------------------------------------------
(* The environment.  The server answers header2 with the time, a parcel    *)
(* with its number, and sends commands when it likes on a connection it has*)
(* let in; a faulty one sends anything.                                    *)

Saying(frame) ==
    /\ Connected
    /\ Len(due) < MaxDue
    /\ stream' = stream \o frame
    /\ due' = Append(due, frame)

ServerGreets ==
    /\ pc \in Reading /\ hello
    /\ ~welcomed
    /\ Saying(Greeting)
    /\ welcomed' = TRUE
    /\ UNCHANGED <<local, socks, expired, avail, gpsv, faults>>

ServerSays ==
    /\ welcomed /\ pc # "adopt"
    /\ \E frame \in {Confirm(n) : n \in {wire} \ {0}} \cup {Command} : Saying(frame)
    /\ UNCHANGED <<local, socks, expired, avail, welcomed, gpsv, faults>>

ServerBabbles ==
    /\ pc \notin {"adopt", "hello"}
    /\ \E frame \in Noise : Saying(frame)
    /\ UNCHANGED <<local, socks, expired, avail, welcomed, gpsv, faults>>

(* the network delivers in order, in pieces of any size *)
Deliver ==
    /\ Connected
    /\ avail < Len(stream)
    /\ avail' \in (avail + 1)..Len(stream)
    /\ UNCHANGED <<local, socks, expired, stream, due, welcomed, gpsv, faults>>

(* the server closes, after all it sent has arrived *)
Close ==
    /\ Connected
    /\ avail = Len(stream)
    /\ Fault
    /\ conn' = [conn EXCEPT ![s] = "fin"]
    /\ UNCHANGED <<local, s, tmp, expired, peer, gpsv>>

(* the connection breaks: what has not arrived never will *)
Break ==
    /\ Connected
    /\ Fault
    /\ conn' = [conn EXCEPT ![s] = "reset"]
    /\ stream' = SubSeq(stream, 1, avail)
    /\ UNCHANGED <<local, s, tmp, expired, avail, due, welcomed, gpsv>>

(* The Timeout of the window, or of the greeting, runs out.  It is minutes *)
(* (or seconds) long, the statements around the reading take no time next  *)
(* to it: it runs out while the task waits for the server or reads.        *)
Elapse ==
    /\ ~expired
    /\ pc \in Reading
    /\ expired' = TRUE
    /\ UNCHANGED <<local, socks, peer, gpsv, faults>>

(* The GPS task: while it holds the lock the fields may be anything, when  *)
(* it gives it back they are one sentence's, or those of a merged one.     *)
GpsTakes ==
    /\ lock = "free"
    /\ lock' = "gps"
    /\ UNCHANGED <<local, socks, expired, peer, fix, faults>>

Fix == [lat : Field, lon : Field, quality : Field, speed : Field]
GivenFix == {f \in Fix : \/ f.lat = f.lon /\ f.lon = f.quality
                        \/ <<f.lat, f.lon>> \in Merged}

GpsWrites ==
    /\ lock = "gps"
    /\ fix' \in Fix
    /\ UNCHANGED <<local, socks, expired, peer, lock, faults>>

GpsGives ==
    /\ lock = "gps"
    /\ lock' = "free"
    /\ fix' \in GivenFix
    /\ UNCHANGED <<local, socks, expired, peer, faults>>

(* The device restarts in the middle of anything: the console's "reset" and *)
(* "erase_log", an abort of ESP_ERROR_CHECK, the power.  Nothing of the    *)
(* task survives, and nothing of the network stack; wire is what the other *)
(* end has last seen of the connection.                                    *)
Restart ==
    /\ Fault
    /\ pc' = "resolve" /\ hello' = TRUE
    /\ s' = 0 /\ tmp' = 0
    /\ conn' = [f \in Fds |-> "free"]
    /\ i' = 0 /\ pos' = 0 /\ got' = <<>> /\ goal' = 0
    /\ expired' = FALSE /\ err' = "none" /\ pkt' = NoPacket
    /\ stream' = <<>> /\ avail' = 0 /\ due' = <<>> /\ welcomed' = FALSE
    /\ lock' = "free" /\ fix' = NoFix
    /\ UNCHANGED wire

Environment ==
    \/ ServerGreets \/ ServerSays \/ ServerBabbles \/ Deliver
    \/ Close \/ Break \/ Elapse \/ Restart
    \/ GpsTakes \/ GpsWrites \/ GpsGives

Next == Task \/ Environment

Spec == Init /\ [][Next]_vars
-----------------------------------------------------------------------------
(* Fairness.  A task that can run is scheduled, a timer that runs elapses; *)
(* a sentence the GPS task reads ends, and the mutex goes in the end to the *)
(* task that waits for it (every give serves the wait queue).               *)
Fairness ==
    /\ WF_vars(Task)
    /\ SF_vars(TakeLock)
    /\ SF_vars(Elapse)
    /\ WF_vars(GpsGives)

FairSpec == Spec /\ Fairness

(* the same with a network that delivers and a server that answers *)
PeerFairness == WF_vars(Deliver) /\ WF_vars(ServerGreets)

FairPeerSpec == FairSpec /\ PeerFairness
-----------------------------------------------------------------------------
PCs == {"resolve", "socket", "connect", "adopt", "hello", "select", "blocked",
        "head", "rest", "window", "package", "lock", "position", "position2", "release", "send",
        "backoff"}

Building == {"lock", "position", "position2", "release", "send"}

Parcel == 0..MaxParcel

(* Every variable stays in its type. *)
TypeOK ==
    /\ pc \in PCs /\ hello \in BOOLEAN /\ expired \in BOOLEAN
    /\ s \in Fds \cup {0} /\ tmp \in Fds \cup {0}
    /\ conn \in [Fds -> {"free", "fresh", "up"} \cup Lost]
    /\ i \in Parcel /\ wire \in Parcel /\ pos \in Nat
    /\ got \in Seq(Nat) /\ goal \in Nat
    /\ stream \in Seq(Nat) /\ avail \in 0..Len(stream)
    /\ welcomed \in BOOLEAN
    /\ lock \in {"free", "comm", "gps"}
    /\ fix \in Fix
    /\ pkt \in [lat : Field, lon : Field, speed : Field]
    /\ faults \in 0..MaxFaults

(* No descriptor leaks, whatever fails and however often the task connects *)
(* again: the open ones are the member socket and, inside the constructor, *)
(* the temporary; the two are different; and from the assignment on the    *)
(* member socket is open.                                                  *)
FdsOwned ==
    /\ \A f \in Fds : conn[f] # "free" <=> f \in {s, tmp}
    /\ tmp # 0 <=> pc \in {"connect", "adopt"}
    /\ tmp # 0 => tmp # s
    /\ pc \in {"hello", "package", "window"} \cup Reading \cup Building => s # 0

(* Server_com's assert(p.pos == 0), for the task that is its only caller:  *)
(* whatever exception ended the last connection, the builder is rewound    *)
(* when an answer is read into the same array.                             *)
RewoundBeforeReading == pc \notin Building => pos = 0

(* With a server that sends well-formed answers only, the bytes read so far *)
(* and those still to come are a prefix of whole answers of this very      *)
(* connection, in order: reads in pieces, an answer that arrives after its *)
(* window and a reconnection in the middle of one never shift the frames,  *)
(* and no connection ever ends for a framing error.                        *)
StreamInSync ==
    Noise = {} =>
        /\ pc \in {"package", "window"} \cup Reading \cup Building =>
            IsPrefix((IF pc \in {"head", "rest"} THEN got ELSE <<>>) \o stream,
                     FlattenSeq(due))
        /\ err \notin {"frame", "greeting"}

(* The task holds the lock on the position exactly while it copies the     *)
(* fields: never while it waits for the network, the server or its delay.  *)
LockBrief == lock = "comm" <=> pc \in {"position", "position2", "release"}

(* A package holds a position that the GPS task has given back: latitude   *)
(* and longitude are of one sentence, or of one that was merged from two   *)
(* before it was parsed, and never put together by the reporting task.     *)
PositionWhole ==
    pc \in {"release", "send"} =>
        pkt.lat = pkt.lon \/ <<pkt.lat, pkt.lon>> \in Merged

(* The task reports only on a connection whose server has answered the     *)
(* introduction: an answer left over from an earlier connection lets it    *)
(* into none.                                                              *)
Online == pc \in {"package", "window"} \cup Building \/ (pc \in Reading /\ ~hello)
OnlineOnlyIfWelcomed == (Noise = {} /\ Online) => welcomed

phaseOf ==
    IF Online THEN "online"
    ELSE IF pc \in Reading THEN "greeting" ELSE "down"

(* The task implements the session the server sees: introduction first,    *)
(* then parcels numbered one after the other from 1, wrapping from 0xFB to *)
(* 1, afresh on every connection.                                          *)
Abstract == INSTANCE Session WITH phase <- phaseOf, number <- wire
ImplementsSession == Abstract!Spec

(* A connection the server or the network ended is noticed and replaced.   *)
Dead == s # 0 /\ conn[s] \in Lost
DeadReplaced == Dead ~> ~Dead

(* Failures end, and from some time on the server answers an introduction  *)
(* within its fifteen seconds: then the task reports again and again.      *)
AnswerLate == pc \in Reading /\ hello /\ expired
ReportsAgain == <>[]~AnswerLate => []<>(pc = "send")

(* "server response timeout" (task.hpp:59), with the 1000 ms the calls of  *)
(* fill_segment() pass (task.hpp:67-68): reading an answer comes to an end *)
(* even if the rest of it never arrives.                                   *)
ResponseDeadline == pc \in {"head", "rest"} ~> pc \notin {"head", "rest"}
=============================================================================
