# A verification project for the ESP32-C3 tracker firmware

The firmware reads its position from a GNSS receiver, reports it over TCP to a
tracking server every five minutes, and is looked after from a serial console.
It runs on one core under FreeRTOS: a GPS task, a reporting task, the console's
task, the system event loop, the Wi-Fi and TCP/IP tasks of the SDK, and, when it
is switched on, the Bluetooth stack's task. This directory holds TLA+ models of
its core, the TLC runs that check them, and proofs checked by TLAPS.

All paths below are relative to `src/main/` of the repository.

## The system

| part | state | operations | talks to |
|---|---|---|---|
| **server protocol** `server/protocol.hpp` | one array of 261 bytes and a cursor, shared by the builder and the answer reader | build_header2, begin/end_package, begin/end_packet, write_tag, output, reset; begin, rest, finish, com_header2 | called by the reporting task only |
| **reporting task** `server/task.hpp`, `network/tcp_sock.hpp`, `network/DNS.hpp`, `freertospp/timeout.hpp` | the socket, the parcel counter, the window's timeout | establish, write_gps_packet, read_response, retry after any exception | server over TCP; `gps.data` under its mutex |
| **GPS task** `GPS.hpp` | the UART buffer, the sentence being parsed, `data` (GGA and VTG) | hunt for `$`, parse_gga, parse_vtg, dump | the UART driver; readers of `data` |
| **mutex** `Mutex.hpp` | a FreeRTOS mutex, a guarded value | take, give, `Mutex_val::get` | both tasks above |
| **Wi-Fi station** `wifi.cpp` | CONNECTED_BIT, the driver's state and stored configuration, `sta_netif` | initialise_wifi, event_handler, wifi_join | app_main, event loop, console task |
| **console** `console.hpp` | flags, `f_meter` | join, freq_meter, expander_read, reset, erase_log, ... | Wi-Fi, frequency meter, expander; `esp_restart()` |
| **frequency meter** `freq_meter.hpp` | the edge count, its task, the interrupt service | constructor, destructor, isr, task, get_freq | console task, interrupt |
| **Bluetooth server** `bluetooth.cpp` | advertising flags, profile handles, prepared write buffer | two event handlers | the stack's task. Compiled; its `setup()` is commented out in app_main |
| **application start** `main.cpp` | the static objects, the flash partition | constructors in link order, `nvs_flash_init` and its retry, the set-ups, the device loop | everything below |
| **port expander and pins** `PCA9557.hpp`, `pins.hpp` | a byte in memory: which pins are inputs | the object's constructor, a pin's constructor, set_port_mode | static objects of other translation units; the console |
| **I2C** `i2c.hpp` | none of its own | write_reg, read_reg | expander, accelerometer |
| **accelerometer** `QMA6100P.hpp` | a buffer decoded in place; the chip's queue of samples | setup, read_fifo | I2C |
| **CAN** `CAN.hpp` | the driver's queue, alerts and node state | setup, handle_alerts | the driver |
| **helpers** `freertospp/*`, `stream_buffer.hpp`, `segment.hpp` | | Task, Timer, Ring_buffer, shared stack | |
| **modem, MQTT, web server, file system, ADC, IMU, LED** | SDK components | set-up, printing | the modem's set-up only is called |

What is hard in it, and the properties each part owes:

* The reporting task reads a byte stream cut into pieces, on connections that
  break at any point, into the array it also writes from. It must stay in step
  with the stream, never leak a descriptor, never meet the builder's cursor off
  its mark, notice dead connections, number its parcels as the server expects.
* The GPS task parses *into* the shared data and waits for the UART with the
  mutex taken: readers must never see half a sentence, and must get through.
* Three tasks drive one Wi-Fi station: the connected bit has to end up right,
  and nobody may leave the station disconnected.
* The frequency meter is deleted while its task and its interrupt may be inside;
  the destructor waits ten ticks, not for the task.
* The Bluetooth handlers react to completions whose order they do not choose.
* Constructors of static objects in several files write to one object, in the
  order the linker happened to choose.
* The device may restart at any moment, from the console or because an
  `ESP_ERROR_CHECK` fails; everything in RAM begins anew, what is in flash, on
  the network, in the chips and at the server does not.
* CAN messages come in while the alert that announced the last ones is being
  read and cleared; the accelerometer's queue fills between the reading of its
  length and of its contents.

`PROJECT.json` lists every such place with its line under `hazards`; those that
no property covers yet carry a note.

## The modules

**ServerProtocol** models the protocol object byte by byte: `buf` is a function
on 0..260, `pos` the cursor, every store of the code a `Put`. The actions are
the public operations in the order `CommTask::task()` and `establish()` call
them (`step` is that order), `ReadBegin`/`ReadRest`/`Finish`/`ComHeader2` the
answer reader with the array filled from what a server may send (`Incoming`). A
failed check of an answer ends in `reset`, as the task's exception does. The
reference (`Encode`, `IsFrame`, `FrameData`) is written from the layout of a
finished message, not from the builder.

**Session** is the abstract specification of a connection: introduce yourself,
be let in, number parcels 1, 2, ..., MaxParcel, 1, ..., start over.

**CommTask** is the reporting task with its socket. `pc` is the place in the
code; one action is one call that can block, fail or be interleaved. `conn`
holds the state of every descriptor of the TCP/IP stack, so that the temporary
`TCP_sock` of `establish()` and the move assignment are visible. `stream` is
what the server has sent and the task not read, `avail` how much of it has
arrived; `Read` is one `lwip_read()`. The server, network, clock and the GPS
task's use of the lock are environment. Two facts about the code shape the
reading: `fill_segment()` drops the timeout it is given, so `SO_RCVTIMEO` is 0
and the EAGAIN return and its own exception are never reached; and a read
behind the peer's FIN returns 0 once and fails from then on (lwIP), which is why
the loop in `read_all()` ends at all.

The GPS task of this module leaves in the data the fields of one sentence, or
latitude and longitude of a pair in `Merged`: characters may have been lost in
front of the parser, which then takes two sentences for one. What the reporting
task owes is that it does not put two positions together itself.

`Restart` is `esp_restart()` of the console: the task begins at its first line,
the TCP/IP stack has no descriptors, the server no connection.

**GpsReceiver** is the GPS task at the grain of a segment (the characters up to
a separator): each parse function consumes one or two. `GgaSlots`/`VtgSlots` are
the statements of `parse_gga()`/`parse_vtg()` in order. The receiver and the
UART's ring are environment, with segments lost whole or merged with their
neighbour when the ring is full. `ch()` asks for all of its buffer at once and
waits until that much is there; a buffer begins and ends in the middle of
sentences, so how many segments it holds (`ask`) is any number up to `Room`,
chosen before they come. A reader is `dump()`: it takes the mutex, looks, and
gives it back. `Restart` clears the data and the parser; the receiver has its
own power and goes on in the middle of a sentence.

**Telematics** composes CommTask and GpsReceiver on one mutex: CommTask's `fix`
is a mapping of the receiver's `gga` and `vtg`, its GPS actions are replaced by
the real receiver, and the composition is checked to implement CommTask, whose
GPS actions are thereby shown to be a sound assumption. The other way round,
the reporting task is one of the readers GpsReceiver is made for (`readerOf`:
it waits at `lock`, looks from there to `release`; `holderOf`: the mutex it holds
is held by the reader), so the composition implements GpsReceiver too:
`ImplementsBoth` is `ImplementsComm /\ ImplementsReceiver`. A restart ends both
tasks in one step. The server only answers introductions, and a piece that
arrives is all that was sent: pieces are `comm`'s question. No segment is lost
here (`Merged` is empty): losses are `gps`'s.

**WifiStation** has the boot sequence, the event handler (in two steps: it calls
`esp_wifi_connect()` and clears the bit afterwards) and the join command call by
call, over a driver that queues its events. `JoinAborts` is the
`ESP_ERROR_CHECK` around `esp_wifi_set_config()`, which a driver that is
connecting may refuse: the check aborts, and an abort is a restart. Only the
stored configuration survives one.

**FreqMeter** has the constructor and destructor statement by statement, the
interrupt handler, and the meter's task with the statements inside
`portDISABLE_INTERRUPTS()` and the two that use `last_update` behind it, where it
can be kept off the processor again. `Tick` is the clock: the destructor goes on
after `DelayTicks` of them, wherever the task is (`left`); `stay` is how long the
task has been inside `get_freq()`. A meter in the model is an object: one made
while an old task is still about is another one, also if the heap gives it the
same memory, and what the late task then does to it is not followed.

**GattServer** has the two Bluetooth event handlers, one action per event, over
one queue of events of the stack. `OnPrepareWrite` allocates, decides, answers
and copies: `bytes` is what the buffer holds, byte by byte, `prepare_len` the
code's length, and the ghosts say which pieces were answered with OK (`told`),
whether each began where the one before ended (`ordered`) and which were stored
beside the buffer (`astray`). The stack takes either half of the advertising
data or fails (`refused`) and reports it in either case; the handler does not
look. `Restart` is also the abort when the stack takes no answer, and the answer
no memory is left for.

**Accelerometer** and **CanBus** are the two devices of the loop at the end of
`app_main()`. The first has the chain of register writes of `setup()`, each of
which may fail and is only logged, the length read first and the frames
afterwards while samples come in, fetches that are cut short, and the decoding
of a reading in place. The code never compares the number the chip gives with
its two buffers; `astray` notes a store beside them. The second has `setup()`,
the alerts of the driver, which reading clears, and `handle_alerts()` with its
two separate calls: wait for the alerts, then drain the queue.

**Board** composes them under `app_main()`: the static constructors in every
order a linker may choose, the flash partition, opened, erased once if it is
stale and opened once more, with an abort, which is a new start, on any other
error (`NvsInit`, `NvsErase`, `NvsInitAgain`, `FlashFails`, `Abort`), the
set-ups, and the loops that read the accelerometer or handle the bus (`use` says
which of them is built in, or neither). That loop is commented out at this
commit (the set-ups are called); it is modelled as it stands in the comment,
since it is the only use of the two devices. The console's `expander_read` makes
a pin an input at any time behind the start.

`MC*` modules only instantiate. Operators with a comment "mistake" next to an
action are plausible bugs: each property is checked to fail with one of them in
place of the action (`mutants` in `PROJECT.json`).

## The runs

| run | what it shows | bounds |
|---|---|---|
| `protocol` | packages are their reference encoding; exactly the well-formed answers are taken, up to the largest, inside the array | the real size 261; answers of size 0, 1, 4, 255, well formed and with a wrong start, end, number |
| `comm` | descriptors owned, stream in sync, online only after the greeting, implements Session, through reconnections and restarts; correct server | two descriptors, parcels wrap at 2, two answers outstanding, two failures or restarts |
| `comm_hostile` | a server that may send malformed frames, a GPS task writing whenever the lock lets it: a package holds a position that task has left, of one sentence or of a merged one, the cursor at 0 whenever an answer is read | two descriptors, one sentence, "none" and one merged position, no failure but the malformed frames |
| `comm_live` | a dead connection is replaced; reports go on for ever once failures and restarts end | two of them |
| `comm_silent` | *violation*: reading an answer has no deadline | none fail |
| `gps` | one sentence's data, mutex held by who is inside, back in step after losses, readers served | two sentences of each kind, with and without a fix, a ring of two segments, buffers of one or two, one loss, one restart |
| `telematics` | the two tasks together implement CommTask and GpsReceiver; a waiting package is sent | one sentence with and without a fix, one descriptor, one failure or restart: reconnecting is `comm`'s |
| `wifi` | the bit follows the station, it is never abandoned, it comes back | two networks, three events not handled, two restarts |
| `wifi_join` | *violation*: join reports the connection it has just ended | |
| `freq` | the interrupt touches no freed meter, the task only one it was kept inside of for the whole delay; edges conserved, no abort, old tasks end | two meters, three edges each, a delay of two ticks |
| `gatt` | advertising whole and taken up again, prepared writes stored, counted and answered, with completions that failed | a buffer of three; pieces of none, one or two bytes inside, across and behind its end, until four bytes are prepared; two restarts |
| `board` | the expander's image is one of two, fetches take whole frames and stay in the buffers, no message is slept on, the application comes up; decoding agrees with two's complement for all 65536 readings | pins 0 and 3 declared, 6 not, 8 without a bit; frames of 3 bytes, a queue of 8, a buffer of 7 and room for 2 readings; room for 2 messages; two restarts, two errors of the flash |

Why the bounds are enough. The frame layout has three forms (no data, data, the
greeting), and all are there at the real sizes in `protocol`; CommTask needs
only their lengths, so a time of one byte and a largest parcel of 1 or 2 keep
every case (the wrap included). Two descriptors are what a reconnection holds at
once; two failures let a reconnection fail after a failure. Counters are bounded
in the guards of the environment (`MaxDue`, `MaxFaults`, `MaxLost`,
`MaxRestarts`, `MaxEvents`, `MaxEdges`, `MaxPrepared`), never in the code's own
actions. A restart in the middle of what the restart before it left behind is
the longest history that is not a repetition: two of them in `wifi` and `board`.
In `board` a frame of three bytes is cut at each of its bytes; the chip's queue
holds two frames and two bytes of a third, one more byte than the buffer, so
that a fetch of all of it would show. In `freq` two ticks are the shortest delay
with a moment at which the task has used up some of it and not all. In `gatt`
the first piece may fit, end behind the buffer or begin there, and two pieces
over one another count more bytes than it has. The time left when a read begins
is abstracted: `Elapse` may happen at any time the task waits or reads, which
includes every real duration.

## Fairness

* `WF(Task)` in CommTask, `WF` of the tasks in the others: a FreeRTOS task that
  can run runs. In GpsReceiver the segments keep coming.
* `SF(TakeLock)`, `SF(Lock)`, `SF(ReaderLock)`: giving a FreeRTOS mutex makes the
  first of its waiters ready but does not hand it over, so a giver that never
  blocked could take it again first. None here does so for ever: the GPS task
  waits for the UART between sentences, the reporting task for its five minutes,
  the console for a command, without the mutex. A waiter that is made ready again and
  again thus finds it free in the end.
* `SF(Elapse)`: a timer that keeps running runs out, although the state in which
  it may do so in the model comes and goes.
* `WF(Deliver)`, `WF(ServerGreets)` are assumed of the network and the server in
  `comm_live` only. `ReportsAgain` assumes that from some time on the greeting
  comes within its fifteen seconds; nothing is assumed of failures except that
  they end (`MaxFaults`).
* FreqMeter: `SF` of every meter's task: tasks of equal priority are time-sliced,
  and interrupts are off for a copy only. Nothing is assumed of how many ticks
  that takes: the delay of the destructor may end first.
* GattServer: `WF` of the stack's task, which runs both handlers; registering the
  application and starting to advertise are taken to succeed. Restarts end.
* Board: `WF(Main)`, the main task. Nothing is assumed of the bus, of the chips,
  or of which transfers succeed; restarts and errors of the flash end
  (`MaxRestarts`, `MaxFaults`). The aborts they lead to are not bounded.
* `PackageSent` and `ReaderServed` excuse a restart: the package, or the command,
  that waited is gone with the task.
* WifiStation: `SF(Associate)`, `SF(GetIp)`: access points can be reached again
  and again.

## Where the code and its texts disagree

1. `server/task.hpp:58`: the one second passed at lines 67 and 68 is not passed
   on; a server that stops inside an answer stops the reporting for ever
   (`comm_silent`).
2. `wifi.cpp:77`: `wifi_join()` waits for a bit that its own disconnect has not
   cleared yet, and reports "Connected" (`wifi_join`).

Seen by reading, without a run: the local `sta_netif` of `initialise_wifi()`
(`wifi.cpp:39`) hides the global of that name which the console's status command
reads (`console.hpp:44`), so the command never finds an interface.

## What is proved

Every theorem is about every value of the constants; each component's named
assumption (`CommAssumption`, `WifiAssumption`, ...) is all that is assumed. The
one that is not plain from its face is GattServer's: a piece is no longer than
the buffer (an attribute has at most 600 bytes, the buffer 1024); where it goes
is not assumed.

| module | theorem | property |
|---|---|---|
| `CommTaskProofs` | `TypeCorrect` | `TypeOK` |
| | `SocketsOwned` | `FdsOwned`: no descriptor leaks or is closed twice |
| | `AssertionHolds` | `RewoundBeforeReading`: the `assert(p.pos == 0)` in `Server_com` |
| | `PositionSafe` | `LockBrief` and `PositionWhole`: a package's position is of one sentence, or of one merged before it was parsed |
| | `InStep` | `StreamInSync`: what is read and to be read begins the answers due |
| | `WelcomedSafe` | `OnlineOnlyIfWelcomed`: no answer of an old connection lets the task in |
| | `Refinement` | `ImplementsSession`: every step is a step of Session or a stutter |
| `ServerProtocolProofs` | `TypeCorrect` | `TypeOK` |
| | `StoresInside` | `InsideBuf`: builder and answers stay inside the array |
| | `EncodingSafe` | `OutputIsEncoding`: what goes out is the reference encoding |
| | `AnswersAreFrames` | `AnswerIsFrame`: what is taken is a frame, with its data |
| | `NoFrameRefused` | `FramesAccepted`: no frame of any size is refused |
| `GpsReceiverProofs` | `MutexSafe` | `MutexHeld`: the mutex is held by exactly who is inside |
| | `TypeCorrect` | `TypeOK` |
| | `WholeSentences` | `Coherent`: what is read is of one sentence each |
| `TelematicsProofs` | `ReceiverRefined` | `ImplementsReceiver` |
| | `TaskRefined` | `ImplementsComm` |
| | `BothRefined` | `ImplementsBoth` |
| | `ReceiverSafe` | the receiver's `MutexHeld` and `Coherent`, of the two tasks together |
| | `PositionOfOneSentence` | CommTask's `LockBrief` and `PositionWhole`, of the two together |
| | `StreamOfComposition` | CommTask's `StreamInSync` and `OnlineOnlyIfWelcomed`, of the two together |
| `WifiStationProofs` | `TypeCorrect` | `TypeOK` (not a property of a run) |
| | `BitSafe` | `BitFollowsStation` |
| | `NeverLeftIdle` | `NeverAbandoned` |
| `FreqMeterProofs` | `TypeCorrect` | `TypeOK` |
| | `NoUseAfterFree` | `OnlyLiveTouched`: a freed meter is touched only by a task kept inside it for the whole delay |
| | `EdgesCountedOnce` | `EdgesConserved` |
| | `ToggleSafe` | `NeverAborts` |
| `GattServerProofs` | `TypeCorrect` | `TypeOK` |
| | `AdvertisingSafe` | `AdvertisedWhole` |
| | `PreparedSafe` | `PreparedAsAnswered`: the length is that of the pieces answered with OK; only a first one is stored beside the buffer; in their order they are what it begins with |
| `BoardProofs` | `TypeCorrect` | `TypeOK` |
| | `ImageSafe` | `ImageConsistent` |
| | `FetchesAligned` | `Aligned`: a fetch that is not cut takes whole frames |
| | `FetchesFit` | `InBuffers`: no fetch goes beside the buffers if the frames of a full queue fit |
| | `WakeupSafe` | `NoLostWakeup` |
| | `DecodeIsTwosComplement` | the decoding of a reading, for every sixteen bits |

Every safety property and every refinement a passing run checks is in the table.

Every module of proofs has an inductive invariant `IInv` (in TelematicsProofs it
is the receiver's, `ReceiverInv`), a lemma that it holds initially, lemmas that
steps keep it, and theorems that follow from it. What each adds to the
properties, and why the properties alone are not enough:

*CommTask.* `TypeOK`, `FdsOwned`,
`RewoundBeforeReading`, `LockBrief` and `PositionWhole` are conjuncts of it. The
others are what they need: `Numbered` (which places of the code belong to a
connection that has been let in; the number on the wire is 0 until the first
report; counter and wire agree except while a package is built, when the counter
is one ahead: the refinement needs it at `Send`, several steps behind the
increment), `Positioned` (`fix` is of one sentence whenever the GPS task does
not hold the lock, and what the package holds so far is what `fix` says, for
`PositionWhole`), and `Measured` (the bytes wanted while the head and the rest
are read, for `Rest` and `Finish`).
`InitIInv`, `NextIInv` (a step per action) and `Invariance` establish it; each
theorem then follows from `Invariance`. The refinement's step case maps `Hello`
to `Open`, `Finish` to `Accept`, `Send` to `Report`, whatever throws to `Drop`,
and all the rest to a stutter. `Restart` is a `Drop`.

A second invariant, `Framed`, rests on the first and is about a correct server
(`Noise = {}`, as both its properties say). `Pending`: the bytes not taken out of
the stream yet, those of the answer being read in front (`Unread`), begin the
concatenation of the answers due, and are all of it while the connection is up;
`StreamInSync` alone would not say that a connection that is up loses nothing,
so that what the server says next follows on. `Greeted`: the first answer due is
the greeting until it is read, which is why the task behind it is welcome.
`Answering`: while the rest is read the length wanted is that of the first
answer due. `FirstRead` is the heart: when as much is unread as the first answer
is long, its beginning is that answer, and what follows begins the others.

*ServerProtocol.* `Cursor` (where the builder is at each of the caller's calls:
2 behind the head of a package, 9 and five more for each tag, at most 26 in all)
and `Answered` (which bytes of the array are the answer's already: the head,
then the rest up to where `finish()` looks). `Stored` says what the array holds
of the message asked for at each call: the head alone, the head and the encoding
of the packet, the whole message. Inside a packet it is `Opened`: head and kind
in the first three bytes, two bytes whose contents say nothing yet, time and
tags behind them, and a running sum that is the sum of those. `EndPacketStored`
patches the two bytes in the middle; the `Slice` lemmas say what an emit, and a
store away from a part of the array, leave of that part.

*GpsReceiver.* Three invariants, each resting on the one before. `IInv` is
`MutexHeld` with the ranges of the three variables it speaks of. `TypeInv` is
`TypeOK` with the segments' types. `CInv` speaks of the stream (what was
received and the rest of what is being sent): while nothing is lost every name
of a sentence in it is followed by all of that sentence, what waits for the
mutex finds one from its first segment, and while slot `k` is parsed the stream
begins with segment `k` and the slots before it hold what the sentence said, or
`acc` the number whose unit is next. `SlotsFit` compares the statements of
`parse_gga()` and `parse_vtg()` with the receiver's sentences, slot by slot;
taking, sending and restarting only drop a beginning of the stream (`Suffix`);
a sentence behind it is announced by its own name alone (`ComposeAnnounced`).

*Telematics.* The modules of proofs of both tasks are instanced with the
composition's variables (`Gp`, `Cp`), so their lemmas are used as they are;
`Assumed` shows that their assumptions on the constants hold. `StepReceiver`
maps a step of the composition to one of the receiver (`BeginPackage`,
`TakeLock`, `Release` of the reporting task are its reader's, the rest
stutters), which carries the receiver's invariants over as `ReceiverInv`. They
are what the other direction needs: `FixWhole` concludes that the position is of
one sentence whenever the GPS task does not hold the lock, which is the promise
CommTask's `GpsGives` makes, and `StepTask` maps every step with it. What is
proved of CommTask then holds of the composition through `TaskRefined`.

*WifiStation.* `LastEventTells`: when nobody is half way through a handler, the
last event in the queue says whether the station is up, and with an empty queue
the bit does. The bit alone is wrong most of the time; this is what makes it
right in the end.

*FreqMeter.* `Owned` (what service, handler and memory the console owns at every
statement of new and delete), `Ended` and `Counted` (while a copy is taken
interrupts are off, and the copy is the count). `Ended` says of the task of a
freed meter that it has gone, is about to go without touching the meter
(`Ends`), or was inside when it was notified and has stayed there for the whole
delay (`Late`). While the console sleeps the two clocks are held together: what
a task inside has stayed and what the console has still to sleep are at least
the delay. `OnlyLiveTouched` is what is left when `Late` is not excluded,
because the code does not exclude it.

*GattServer.* `Queued`: the events that matter to advertising (the two data,
their two answers, the registration, a disconnection) are in the queue at most
once, and the flags say how far each has come; `Given`: what is neither
announced nor flagged has been answered for; `Linked`: a device that advertises
has no client and no goodbye to handle. Without it a late disconnection could
start the advertising beside a client. `Asking`: a request is in the queue once
and in front of any goodbye, and its client waits for the answer or has gone; so
the room for a piece that was there when it was asked for is there when it is
handled. `Prepared`: `PreparedAsAnswered` with the types of what it speaks of.
It is inductive: a piece stored behind `Len(told)` bytes that are the buffer's
first leaves them alone and adds its own, and the two checks the code makes of a
later piece are what keeps it inside.

*Board.* `Imaged`: what the image is while some units are still to be
constructed, by whether the expander's own is among them; `Alerted`: a message
in the queue has its alert set except between the two calls of
`handle_alerts()`; `Fetching`: a length that was read is at most what the queue
holds, which only grows until the fetch, so that a fetch that is not cut takes
a multiple of the frame (`WantedFrames`, `WholePart`), and no more frames than a
full queue has, which is what `InBuffers` needs of its premise; `Typed` for the
rest.

*Sums and concatenations.* `FoldLeft` and `FlattenSeq` are defined by recursion,
and the library's induction theorems, which take a predicate, cannot be used.
Induction over a set of good numbers can: `SetInduction` (a set that holds 0 and
every successor of a member holds every number) follows from the library's
theorem that a one-to-one map of a finite set into itself reaches all of it:
subtracting one would be such a map on the numbers that are missing up to some
m, and does not reach m. From it come that the partial concatenations (`Flats`)
and partial sums (`Totals`) exist and are unique, and from that what they are of
an appended sequence (`FlattenAppend`, `TotalAppend`). These lemmas stand in
every module that needs them, so that each can be read and checked by itself.

## Model-checked only

* All liveness, which is out of the prover's reach under fairness: `DeadReplaced`,
  `ReportsAgain`, `Resync`, `ReaderServed`, `PackageSent`, `KeepsComingBack`,
  `DeletedEnds`, `ComesUp`, `FoundAgain`, `WriteAnswered`.
* The two violations above, which are counterexamples.

## Not modelled

* *Outside a buffer or an object*: what a byte stored beside a buffer hits
  (`astray` notes that there was one), and what a task left behind by a deleted
  meter does to memory in use again.
* *Memory and set-up*: `xTaskCreate()` is taken to succeed; so are the
  registration of the Bluetooth server and the start of its advertising.
* *GPS*: the arithmetic of NMEA numbers; the 83 byte buffer for the name of a
  sentence, written without a bound; the power switch.
* *Reporting*: the values of tag 5 (speed, altitude and course are converted to
  a byte, and some optionals are read without being looked at); short writes,
  whose count is only logged; setting the system time.
* *Board*: the levels of output pins; the building of an I2C command and what
  throws in it; `PCA9557::send_full_config()`, `read_full()` and `read_pins()`
  (not called; the first two hand a segment where a byte is wanted, or read an
  address of their own); the accelerometer's `set_offsets()` and scaling; CAN's
  `send()` and filter. The other comments behind `app_main()`.
* *Bluetooth*: initialisation of controller and stack, the demo notification.
* *Nobody uses them*: timers, the shared stack, the ring buffer (which includes
  a header that is not in the repository), the stream buffer.
* *SDK set-up or pure output*: modem, file system, MQTT, web server, ADC, IMU,
  LED, statistics. `PROJECT.json` gives the reason of each under `components`.

## Plan

1. Done: Session, ServerProtocol, CommTask, GpsReceiver, Telematics,
   WifiStation, FreqMeter, GattServer, Accelerometer, CanBus, Board; the eight
   modules of proofs.
2. Next proofs: what a lost segment can at worst do to the composition (its
   theorems hold without losses); the array's bytes in terms of what the server
   decodes; the two devices of Board as modules with theorems of their own.
3. Next models: tag 5 and its optionals; the GPS name buffer by length; writes
   that are cut short.
