-------------------------------- MODULE PaFifo --------------------------------
(***************************************************************************)
(* PortAudio driven as if it blocked (src/src/s_audio_pa.c, FAKEBLOCKING): *)
(* PortAudio's thread calls pa_fifo_callback for every FramesPerBuf blocks,*)
(* which takes output from one ring and puts input in another; Pd's main   *)
(* thread, in pa_send_dacs, puts one block of output and takes one of      *)
(* input, polling for it.  There is no lock: each index has one writer.    *)
(*                                                                         *)
(* pa_send_dacs syncs on the input when there is any, and puts its output  *)
(* without looking for room.  The input ring starts full and the output    *)
(* ring empty, so that together they hold one ring's worth; the properties *)
(* below are about what that buys.                                         *)
(*                                                                         *)
(* A block's contents are the value the write index had when it was        *)
(* accepted.  A transfer is a copy and a store of the index; the rings are *)
(* not volatile and have no barrier, so a build that does not keep those   *)
(* in order has StoresInOrder FALSE.                                       *)
(***************************************************************************)
EXTENDS Integers, PaRing

CONSTANTS
  FramesPerBuf,   \* blocks PortAudio transfers per callback
  NBuffers,       \* values of the nbuffers pa_open_audio is called with
  Modes,          \* which of input and output a device may have
  ClosesInWait,   \* TRUE: the device may be closed while pa_send_dacs waits
  StoresInOrder   \* TRUE: a copy is visible before the index that covers it

AllModes == {"both", "in", "out"}

ASSUME PaAssumption ==
  /\ FramesPerBuf \in Nat \ {0}
  /\ NBuffers \subseteq Nat \ {0}
  /\ Modes \subseteq AllModes
  /\ ClosesInWait \in BOOLEAN /\ StoresInOrder \in BOOLEAN

VARIABLES
  open,           \* pa_stream is not 0
  mode,           \* which of pa_inchans and pa_outchans are not 0
  out, outbuf,    \* pa_outring and its buffer
  in, inbuf,      \* pa_inring and its buffer
  mpc,            \* the main thread, in pa_send_dacs
  cpc,            \* PortAudio's thread, in pa_fifo_callback
  mx, cx,         \* the transfer each is in
  lost            \* history: blocks a ring had no room for, since opening

rings == <<out, outbuf, in, inbuf>>
vars  == <<open, mode, rings, mpc, cpc, mx, cx, lost>>

Garbage == -1
Sizes == {n * FramesPerBuf : n \in NBuffers}

(* A transfer: where it starts, how many blocks, what is still to be done. *)
Transfer(i, n) == [at |-> i, n |-> n, todo |-> {"copy", "store"}]
NoTransfer == [at |-> 0, n |-> 0, todo |-> {}]

MayStoreEarly(x) == "store" \in x.todo                           \* mutant
MayStore(x) == "store" \in x.todo /\ (StoresInOrder => "copy" \notin x.todo)
MayCopy(x) == "copy" \in x.todo
Done(x, step) == [x EXCEPT !.todo = @ \ {step}]
Finishes(x, step) == x.todo = {step}

(* The buffer after a copy into it: each block bears its index.            *)
Filled(buf, q, x) ==
  [p \in DOMAIN buf |->
     IF p \in Region(q, x.at, x.n)
       THEN CHOOSE j \in Indices(q, x.at, x.n) : Place(q, j) = p
       ELSE buf[p]]

-------------------------------------------------------------------------------
(* Opening and closing.                                                    *)

(* pa_open_audio: the input ring starts full of silence.                   *)
InFillNone(size) == 0                                            \* mutant
InFill(size) == size

FreshIn(size) == RingInit(size, InFill(size))
FreshRings(size) ==
  /\ out' = RingInit(size, 0)
  /\ outbuf' = [p \in 0..(size - 1) |-> Garbage]
  /\ in' = FreshIn(size)
  /\ inbuf' = [p \in 0..(size - 1) |-> p]
  /\ lost' = 0

Init ==
  /\ open = FALSE
  /\ mode \in Modes
  /\ \E size \in Sizes :
       /\ out = RingInit(size, 0)
       /\ outbuf = [p \in 0..(size - 1) |-> Garbage]
       /\ in = FreshIn(size)
       /\ inbuf = [p \in 0..(size - 1) |-> p]
  /\ mpc = "dsp" /\ cpc = "idle"
  /\ mx = NoTransfer /\ cx = NoTransfer
  /\ lost = 0

OpenAudio ==
  /\ ~open /\ mpc = "dsp"
  /\ open' = TRUE
  /\ mode' \in Modes
  /\ \E size \in Sizes : FreshRings(size)
  /\ UNCHANGED <<mpc, cpc, mx, cx>>

(* A message may close or reopen the device between ticks, and, since      *)
(* sys_microsleep polls the GUI, while pa_send_dacs waits.  Pa_AbortStream *)
(* returns once no callback is running.                                    *)
Waiting == mpc \in {"waitout", "waitin"}
MayClose == open /\ cpc = "idle" /\ (mpc = "dsp" \/ (ClosesInWait /\ Waiting))

CloseAudio ==
  /\ MayClose
  /\ open' = FALSE
  /\ mpc' = "dsp"
  /\ UNCHANGED <<mode, rings, cpc, mx, cx, lost>>

ReopenAudio ==
  /\ MayClose
  /\ mode' = mode
  /\ \E size \in Sizes : FreshRings(size)
  /\ UNCHANGED <<open, mpc, cpc, mx, cx>>

(* After POLL_TIMEOUT pa_send_dacs gives up and reopens the device itself. *)
TimesOut ==
  /\ MayClose /\ Waiting
  /\ mpc' = "dsp"
  /\ \E size \in Sizes : FreshRings(size)
  /\ UNCHANGED <<open, mode, cpc, mx, cx>>

-------------------------------------------------------------------------------
(* The main thread: pa_send_dacs.                                          *)

SendDacs ==
  /\ open /\ mpc = "dsp"
  /\ mpc' = (CASE mode = "out"  -> "waitout"
               [] mode = "both" -> "write"
               [] mode = "in"   -> "waitin")
  /\ UNCHANGED <<open, mode, rings, cpc, mx, cx, lost>>

OutHasRoomUntested == TRUE                                       \* mutant
OutHasRoom == WriteAvailable(out) >= 1

RoomForOutput ==
  /\ mpc = "waitout"
  /\ OutHasRoom
  /\ mpc' = "write"
  /\ UNCHANGED <<open, mode, rings, cpc, mx, cx, lost>>

(* sys_ringbuf_write takes as much as there is room for; nobody looks at   *)
(* what it returns.                                                        *)
PutsOutput ==
  /\ mpc = "write"
  /\ LET n == Fewer(1, WriteAvailable(out))
     IN /\ mx' = Transfer(out.w, n)
        /\ lost' = lost + (1 - n)
  /\ mpc' = "writing"
  /\ UNCHANGED <<open, mode, rings, cpc, cx>>

AfterOutput == IF mode = "out" THEN "dsp" ELSE "waitin"

CopiesOutput ==
  /\ mpc = "writing" /\ MayCopy(mx)
  /\ outbuf' = Filled(outbuf, out, mx)
  /\ mx' = Done(mx, "copy")
  /\ mpc' = IF Finishes(mx, "copy") THEN AfterOutput ELSE mpc
  /\ UNCHANGED <<open, mode, out, in, inbuf, cpc, cx, lost>>

StoresOutput ==
  /\ mpc = "writing" /\ MayStore(mx)
  /\ out' = [out EXCEPT !.w = Advanced(out, @, mx.n)]
  /\ mx' = Done(mx, "store")
  /\ mpc' = IF Finishes(mx, "store") THEN AfterOutput ELSE mpc
  /\ UNCHANGED <<open, mode, outbuf, in, inbuf, cpc, cx, lost>>

InHasBlock == ReadAvailable(in) >= 1

InputArrived ==
  /\ mpc = "waitin"
  /\ InHasBlock
  /\ mx' = Transfer(in.r, Fewer(1, ReadAvailable(in)))
  /\ mpc' = "reading"
  /\ UNCHANGED <<open, mode, rings, cpc, cx, lost>>

CopiesInput ==
  /\ mpc = "reading" /\ MayCopy(mx)
  /\ mx' = Done(mx, "copy")
  /\ mpc' = IF Finishes(mx, "copy") THEN "dsp" ELSE mpc
  /\ UNCHANGED <<open, mode, rings, cpc, cx, lost>>

TakesInput ==
  /\ mpc = "reading" /\ MayStore(mx)
  /\ in' = [in EXCEPT !.r = Advanced(in, @, mx.n)]
  /\ mx' = Done(mx, "store")
  /\ mpc' = IF Finishes(mx, "store") THEN "dsp" ELSE mpc
  /\ UNCHANGED <<open, mode, out, outbuf, inbuf, cpc, cx, lost>>

MainStep == \/ RoomForOutput \/ PutsOutput \/ CopiesOutput \/ StoresOutput
            \/ InputArrived \/ CopiesInput \/ TakesInput

-------------------------------------------------------------------------------
(* PortAudio's thread: pa_fifo_callback.  Without enough output it plays   *)
(* silence and leaves both rings alone.                                    *)

EnoughOutput == mode = "in" \/ ReadAvailable(out) >= FramesPerBuf

Callback ==
  /\ open /\ cpc = "idle"
  /\ EnoughOutput
  /\ IF mode = "in"
       THEN cpc' = "room" /\ UNCHANGED cx
       ELSE /\ cpc' = "playing"
            /\ cx' = Transfer(out.r, Fewer(FramesPerBuf, ReadAvailable(out)))
  /\ UNCHANGED <<open, mode, rings, mpc, mx, lost>>

AfterPlayingAlone == "idle"                                      \* mutant
AfterPlaying == IF mode = "out" THEN "idle" ELSE "room"

CopiesPlayed ==
  /\ cpc = "playing" /\ MayCopy(cx)
  /\ cx' = Done(cx, "copy")
  /\ cpc' = IF Finishes(cx, "copy") THEN AfterPlaying ELSE cpc
  /\ UNCHANGED <<open, mode, rings, mpc, mx, lost>>

FreesPlayed ==
  /\ cpc = "playing" /\ MayStore(cx)
  /\ out' = [out EXCEPT !.r = Advanced(out, @, cx.n)]
  /\ cx' = Done(cx, "store")
  /\ cpc' = IF Finishes(cx, "store") THEN AfterPlaying ELSE cpc
  /\ UNCHANGED <<open, mode, outbuf, in, inbuf, mpc, mx, lost>>

(* With input only nothing holds the callback back; lost is capped there.  *)
LostCap == 2
PutsInput ==
  /\ cpc = "room"
  /\ LET n == Fewer(FramesPerBuf, WriteAvailable(in))
     IN /\ cx' = Transfer(in.w, n)
        /\ lost' = IF mode = "in" THEN Fewer(lost + (FramesPerBuf - n), LostCap)
                                  ELSE lost + (FramesPerBuf - n)
  /\ cpc' = "recording"
  /\ UNCHANGED <<open, mode, rings, mpc, mx>>

CopiesRecorded ==
  /\ cpc = "recording" /\ MayCopy(cx)
  /\ inbuf' = Filled(inbuf, in, cx)
  /\ cx' = Done(cx, "copy")
  /\ cpc' = IF Finishes(cx, "copy") THEN "idle" ELSE cpc
  /\ UNCHANGED <<open, mode, out, outbuf, in, mpc, mx, lost>>

StoresRecorded ==
  /\ cpc = "recording" /\ MayStore(cx)
  /\ in' = [in EXCEPT !.w = Advanced(in, @, cx.n)]
  /\ cx' = Done(cx, "store")
  /\ cpc' = IF Finishes(cx, "store") THEN "idle" ELSE cpc
  /\ UNCHANGED <<open, mode, out, outbuf, inbuf, mpc, mx, lost>>

CallbackStep == \/ Callback \/ CopiesPlayed \/ FreesPlayed
                \/ PutsInput \/ CopiesRecorded \/ StoresRecorded

Next == \/ OpenAudio \/ CloseAudio \/ ReopenAudio \/ TimesOut
        \/ SendDacs \/ MainStep \/ CallbackStep

Spec == Init /\ [][Next]_vars

(* The device goes on calling back and the main thread goes on polling;    *)
(* nobody needs to close the device or to time out.                        *)
FairSpec == Spec /\ WF_vars(MainStep) /\ WF_vars(CallbackStep)

-------------------------------------------------------------------------------
(* Properties.                                                             *)

TransferOK(x) == /\ x.at \in Nat /\ x.n \in 0..(1 + FramesPerBuf)
                 /\ x.todo \subseteq {"copy", "store"}

(* The type invariant: the rings' indices stay below twice their size.     *)
TypeOK ==
  /\ open \in BOOLEAN /\ mode \in Modes
  /\ out.size \in Sizes /\ in.size = out.size
  /\ out \in Ring(out.size) /\ in \in Ring(in.size)
  /\ DOMAIN outbuf = 0..(out.size - 1) /\ DOMAIN inbuf = 0..(in.size - 1)
  /\ mpc \in {"dsp", "waitout", "write", "writing", "waitin", "reading"}
  /\ cpc \in {"idle", "playing", "room", "recording"}
  /\ TransferOK(mx) /\ TransferOK(cx)
  /\ lost \in Nat

(* The "consistency check" of sys_ringbuf_getreadavailable never fails.    *)
RingsConsistent ==
  /\ ReadAvailable(out) \in 0..out.size
  /\ ReadAvailable(in) \in 0..in.size

(* Each ring holds the blocks it accepted, in order: what a reader finds   *)
(* between the indices is never from an earlier lap or half written.       *)
Holds(q, buf) ==
  \A j \in Indices(q, q.r, ReadAvailable(q)) : buf[Place(q, j)] = j
BlocksInOrder == open => (mode # "in" => Holds(out, outbuf))
                      /\ (mode # "out" => Holds(in, inbuf))

(* The two threads never copy to and from the same place of a buffer, with *)
(* no lock and whatever each has read of the other's index.                *)
Busy(q, x) == IF "copy" \in x.todo THEN Region(q, x.at, x.n) ELSE {}
NoRace ==
  /\ mpc = "writing" /\ cpc = "playing" => Busy(out, mx) \cap Busy(out, cx) = {}
  /\ mpc = "reading" /\ cpc = "recording" => Busy(in, mx) \cap Busy(in, cx) = {}

(* Although the output is put without looking for room, a device loses no  *)
(* more than one block between being opened and being closed: with input   *)
(* and output one, of either; with output only none.                       *)
AtMostOneLost ==
  /\ mode = "both" => lost <= 1
  /\ mode = "out" => lost = 0

(* Whenever the main thread waits in vain and no callback is under way,    *)
(* the next callback will find enough output to take, so it will also put  *)
(* the input: the two never wait for each other.                           *)
NeverStuck ==
  /\ mpc = "waitin" /\ cpc = "idle" /\ ~InHasBlock => EnoughOutput
  /\ mpc = "waitout" /\ cpc = "idle" /\ ~OutHasRoom => EnoughOutput

(* pa_send_dacs always returns while the device goes on calling back.      *)
SendDacsReturns == mpc # "dsp" ~> mpc = "dsp"

(* The check compiled in with CHECKFIFOS (s_audio_pa.c:202), "in and out   *)
(* rings unequal", whenever the main thread is not between its two halves. *)
(* Not so for good after the first block is dropped: README, 5.2.          *)
RingsEqual ==
  open /\ mode = "both" /\ cpc = "idle" /\ mpc = "dsp" =>
    ReadAvailable(out) = WriteAvailable(in)
===============================================================================
