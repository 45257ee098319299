--------------------------- MODULE Accelerometer ---------------------------
(***************************************************************************)
(* The accelerometer (src/main/QMA6100P.hpp) behind the I2C bus            *)
(* (src/main/i2c.hpp): setup() writes its registers, read_fifo() asks how  *)
(* many bytes are in its queue and fetches the whole frames of them.       *)
(*                                                                         *)
(* A transfer on the bus may fail at any byte.  The code logs it and goes  *)
(* on, so a failed write had its effect or not, and a failed read took any *)
(* part of what was asked for out of the queue.                            *)
(*                                                                         *)
(* The code never compares the number the chip gives with its buffers.     *)
(* What a byte beside them hits is not followed, only that there was one.  *)
(*                                                                         *)
(* The chip is external.  The module has no next-state relation of its     *)
(* own: Board runs it.                                                     *)
(***************************************************************************)
EXTENDS Integers, Sequences

CONSTANTS
    FrameLen,    \* bytes of a reading of three axes, 6 in the code
    MaxBytes,    \* bytes the queue of the chip holds; fifo_st counts to 255
    BufLen,      \* bytes of process_buf, 64 in the code
    DataLen      \* readings data has room for, 10 in the code

VARIABLES
    todo,     \* registers setup() has still to write
    regs,     \* chip: those of them that are set
    fill,     \* chip: bytes in the queue, which stops when it is full
    phase,    \* chip: bytes of its first frame that are gone already
    count,    \* fifo_st, while read_fifo() has whole frames to fetch
    cut,      \* ghost: a fetch was cut short since the chip was last reset
    astray    \* ghost: something was stored outside process_buf or data

chip == <<regs, fill, phase, cut>>
accel == <<todo, count, astray, chip>>

PoweredUp == regs = {} /\ fill = 0 /\ phase = 0 /\ cut = FALSE

Init == todo = <<>> /\ count = 0 /\ astray = FALSE /\ PoweredUp
-----------------------------------------------------------------------------
(* a byte of the next sample enters the queue *)
SampleByte ==
    /\ regs = {"pm", "fifo_cfg"}
    /\ fill < MaxBytes
    /\ fill' = fill + 1
    /\ UNCHANGED <<todo, count, regs, phase, cut, astray>>

(* setup(): the soft reset, the power mode and the queue; the range, the   *)
(* bandwidth and the self test are data                                    *)
BeginSetup ==
    /\ todo' = <<"s_reset", "pm", "fifo_cfg">>
    /\ UNCHANGED <<count, astray, chip>>

(* write_reg(): the result is only logged *)
WriteReg ==
    /\ todo # <<>>
    /\ todo' = Tail(todo)
    /\ \/ UNCHANGED chip
       \/ /\ Head(todo) = "s_reset"
          /\ regs' = {} /\ fill' = 0 /\ phase' = 0 /\ cut' = FALSE
       \/ /\ Head(todo) # "s_reset"
          /\ regs' = regs \cup {Head(todo)}
          /\ UNCHANGED <<fill, phase, cut>>
    /\ UNCHANGED <<count, astray>>
-----------------------------------------------------------------------------
(* mistake: an incomplete frame is enough *)
ReadCountAny ==
    /\ todo = <<>> /\ count = 0
    /\ count' \in {0, fill}
    /\ UNCHANGED <<todo, astray, chip>>

(* read_fifo(), which returns at once if there is no whole frame, as after *)
(* a read that failed: read_reg() then returns 0                           *)
ReadCount ==
    /\ todo = <<>> /\ count = 0
    /\ count' \in {0} \cup ({fill} \cap FrameLen..MaxBytes)
    /\ UNCHANGED <<todo, astray, chip>>

(* mistake: the incomplete frame behind the others is fetched too *)
WantedAll == count

Wanted == count - (count % FrameLen)

(* the chip hands out n bytes of those wanted *)
HandsOut(n) ==
    /\ fill' = fill - n
    /\ phase' = (phase + n) % FrameLen
    /\ cut' = (cut \/ n \in 1..(Wanted - 1))
    /\ UNCHANGED regs

(* the bytes go to process_buf, the readings made of all wanted to data,   *)
(* also when the transfer failed                                           *)
Fetch ==
    /\ count # 0
    /\ \E n \in 0..Wanted :
        /\ HandsOut(n)
        /\ astray' = (astray \/ n > BufLen \/ Wanted > DataLen * FrameLen)
    /\ count' = 0
    /\ UNCHANGED todo

(* The processor restarts, perhaps in the middle of a fetch; the chip goes *)
(* on, unless the power went too.                                          *)
Restart ==
    /\ todo' = <<>> /\ count' = 0 /\ astray' = FALSE
    /\ \/ \E n \in 0..Wanted : HandsOut(n)
       \/ regs' = {} /\ fill' = 0 /\ phase' = 0 /\ cut' = FALSE
-----------------------------------------------------------------------------
(* A reading as the code decodes it from its sixteen bits: less one and    *)
(* inverted in sixteen bits, then negated, if the sign bit is set.         *)
SignBit == 32768    \* 1 << 15
Word == 0..(2 * SignBit - 1)
Inverted(w) == 2 * SignBit - 1 - w
Decode(w) == IF w \div SignBit = 1 THEN -Inverted(w - 1) ELSE w

(* what the chip means by them *)
TwosComplement(w) == IF w < SignBit THEN w ELSE w - 2 * SignBit
-----------------------------------------------------------------------------
TypeOK ==
    /\ todo \in {<<>>, <<"fifo_cfg">>, <<"pm", "fifo_cfg">>, <<"s_reset", "pm", "fifo_cfg">>}
    /\ regs \subseteq {"pm", "fifo_cfg"}
    /\ fill \in 0..MaxBytes /\ phase \in 0..(FrameLen - 1)
    /\ count \in {0} \cup FrameLen..MaxBytes
    /\ cut \in BOOLEAN /\ astray \in BOOLEAN

(* A fetch takes whole frames that are there, from the start of one: the   *)
(* samples that come in behind the count that was read, failed transfers   *)
(* and restarts never shift the axes, unless a fetch was itself cut short  *)
(* (the code does not notice) and no reset of the chip has come since.     *)
Aligned == (count # 0 /\ ~cut) => (phase = 0 /\ Wanted \in FrameLen..fill)

(* If the whole frames of a full queue fit into both buffers, which the    *)
(* code takes for granted, nothing is ever stored outside them: not for    *)
(* the incomplete frame behind the others either.                          *)
QueueFits ==
    \A n \in 0..MaxBytes :
        n * FrameLen <= MaxBytes => n * FrameLen <= BufLen /\ n <= DataLen
InBuffers == QueueFits => ~astray
=============================================================================
