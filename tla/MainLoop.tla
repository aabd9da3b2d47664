------------------------------- MODULE MainLoop -------------------------------
(***************************************************************************)
(* Pd's main loop (src/src/m_sched.c: m_mainloop, m_pollingscheduler,      *)
(* m_callbackscheduler, sched_audio_callbackfn) and the opening and closing*)
(* of the audio device under it (src/src/s_audio.c).  The device either    *)
(* has a fifo the main thread waits on in pa_send_dacs ("polled"), or its  *)
(* thread calls back into Pd and runs the ticks itself.  sys_lock is held  *)
(* for ticks and for messages, which arrive in either thread and may close *)
(* and open the device; what the settings dialog asks for while callbacks  *)
(* are involved is left to m_mainloop instead, by way of sys_quit.         *)
(*                                                                         *)
(* Pa_AbortStream (external) returns once no callback is under way: from   *)
(* inside a callback it never does.                                        *)
(***************************************************************************)
EXTENDS Integers, Sequences

CONSTANTS
  Settings,       \* what the audio settings can be
  CallbackOnes,   \* those of them that ask for callbacks
  MaxMessages     \* bound: messages that reach the device

Closed == "closed"
ASSUME MainLoopAssumption ==
  /\ CallbackOnes \subseteq Settings /\ Closed \notin Settings
  /\ MaxMessages \in Nat

VARIABLES
  quit,        \* sys_quit is SYS_QUIT_RESTART
  useaudio,    \* sched_useaudio
  nextsettings,\* audio_nextsettings
  stream,      \* pa_stream: the settings it was opened with, or Closed
  isopen,      \* sys_audioapiopened is not API_NONE
  callbackopen,\* audio_callback_is_open
  dspstate,    \* i_dspstate
  lock,        \* who holds sys_lock
  mpc, cpc,    \* the main thread, the device's thread
  job,         \* what each has still to do to the device
  forward,     \* m_pollingscheduler's timeforward is not SENDDACS_NO
  moved,       \* pd_systime is not m_callbackscheduler's timewas
  pdsystime,   \* pd_systime, modulo 2
  sent,        \* how many messages have reached the device
  hasty,       \* history: whose job was taken up without asking for callbacks
  astray       \* history: a message used a device with callbacks by itself

tasks == <<job, hasty>>
messages == <<sent, astray>>
deviceVars == <<useaudio, stream, isopen, callbackopen>>
loopVars == <<quit, deviceVars, nextsettings, dspstate, lock, mpc, cpc, tasks,
              forward, moved, pdsystime, messages>>

Threads == {"main", "callback"}
Calls(s) == s \in CallbackOnes
Idle == <<>>

LoopInit ==
  /\ quit = FALSE
  /\ useaudio = "none" /\ stream = Closed /\ isopen = FALSE
  /\ callbackopen = FALSE
  /\ nextsettings \in Settings
  /\ dspstate = FALSE
  /\ lock = "free"
  /\ mpc = "top" /\ cpc = "idle"
  /\ job = [t \in Threads |-> Idle]
  /\ forward = FALSE /\ moved = FALSE /\ pdsystime = 0
  /\ sent = 0 /\ hasty = {} /\ astray = FALSE

-------------------------------------------------------------------------------
(* Closing and opening the device.                                         *)

CloseJob == <<"close">>
OpenJob == <<"open">>
ReopenUnclosed == OpenJob                                        \* mutant
ReopenJob == <<"close", "open">>
NoteJob(way) == <<way>>
Ways == {"none", "poll", "callback"}
Jobs == {Idle, CloseJob, OpenJob, ReopenJob} \cup {NoteJob(way) : way \in Ways}

(* The next thing thread t does to the device.                             *)
Doing(t, step) == job[t] # Idle /\ Head(job[t]) = step
GoesOn(t, steps) == job' = [job EXCEPT ![t] = steps] /\ UNCHANGED hasty
Finish(t) == GoesOn(t, Tail(job[t]))

NoCallback == cpc = "idle"
Aborts == stream \notin CallbackOnes \/ NoCallback

(* sys_close_audio.                                                        *)
CloseAudio(t) ==
  /\ Doing(t, "close")
  /\ isopen => Aborts
  /\ IF isopen
       THEN /\ stream' = Closed /\ isopen' = FALSE
            /\ useaudio' = "none" /\ callbackopen' = FALSE
       ELSE UNCHANGED <<stream, isopen, useaudio, callbackopen>>
  /\ Finish(t)
  /\ UNCHANGED <<quit, nextsettings, dspstate, lock, mpc, cpc, forward,
                 moved, pdsystime, messages>>

(* sys_reopen_audio: sys_setchsr gives the device new buffers and rebuilds *)
(* the DSP graph; pa_open_audio closes a stream that is there, opens and   *)
(* starts another, or fails.  It also succeeds without a stream, when the  *)
(* device is not there any more or has no channels ...                     *)
Way(s) == IF Calls(s) THEN "callback" ELSE "poll"
OpenAudio(t) ==
  /\ Doing(t, "open")
  /\ Aborts
  /\ \/ stream' = nextsettings /\ GoesOn(t, NoteJob(Way(nextsettings)))
     \/ stream' = Closed /\ GoesOn(t, NoteJob("none"))
     \/ stream' = Closed /\ GoesOn(t, NoteJob(Way(nextsettings)))
  /\ UNCHANGED <<quit, useaudio, isopen, callbackopen, nextsettings, dspstate,
                 lock, mpc, cpc, forward, moved, pdsystime, messages>>

(* ... and only then does Pd take note of the outcome.                     *)
(* sched_set_using_audio stores the new way first and then asks whether it *)
(* is new, so that it never sets sys_quit.                                 *)
NoteAudio(t) ==
  /\ \E way \in Ways :
       /\ Doing(t, way)
       /\ isopen' = (way # "none")
       /\ callbackopen' = (way = "callback")
       /\ useaudio' = way
  /\ Finish(t)
  /\ UNCHANGED <<quit, stream, nextsettings, dspstate, lock, mpc, cpc,
                 forward, moved, pdsystime, messages>>

DeviceStep(t) == CloseAudio(t) \/ OpenAudio(t) \/ NoteAudio(t)

-------------------------------------------------------------------------------
(* Messages to Pd, from the GUI or from a patch, in the thread that reads  *)
(* them or runs the tick.                                                  *)

Receives(t) ==
  /\ lock = t /\ job[t] = Idle
  /\ IF t = "main" THEN mpc \in {"tick", "poll", "idle", "dacspoll",
                                 "stalledpoll", "stalledtick"}
                   ELSE cpc \in {"tick", "poll"}
  /\ sent < MaxMessages
  /\ sent' = sent + 1
  /\ UNCHANGED <<deviceVars, lock, mpc, cpc, forward, moved, pdsystime>>

(* hasty and astray are the ways out of the properties.  Only the dialog   *)
(* asks for callbacks, and it cannot see those of a device that was opened *)
(* and not yet noted: a job is hasty when callbacks are noted, or when it  *)
(* is taken up in one.  One that opens a device with callbacks leaves the  *)
(* main thread in the scheduler it is in, which is astray as well.         *)
Does(t, steps, isHasty) ==
  /\ job' = [job EXCEPT ![t] = steps]
  /\ hasty' = IF isHasty THEN hasty \cup {t} ELSE hasty \ {t}

Involved(t) == callbackopen \/ t = "callback"
DoesUnasked(t, steps) ==
  /\ Does(t, steps, Involved(t))
  /\ astray' = (astray \/ Involved(t) \/ (steps # CloseJob /\ Calls(nextsettings')))

(* glob_audio_dialog; closing is immediate where it does that itself.      *)
DialogMayReopenAny(s) == ~Calls(s)                               \* mutant
DialogMayReopen(s) == ~callbackopen /\ ~Calls(s)
Unnoted(t) == t = "callback" /\ ~callbackopen
AudioDialog(t) ==
  /\ Receives(t)
  /\ \E s \in Settings :
       /\ nextsettings' = s
       /\ IF DialogMayReopen(s)
            THEN /\ Does(t, ReopenJob, Unnoted(t)) /\ astray' = (astray \/ Unnoted(t))
                 /\ UNCHANGED quit
            ELSE quit' = TRUE /\ UNCHANGED <<tasks, astray>>
  /\ UNCHANGED dspstate

(* glob_dsp.                                                               *)
DspOn(t) ==
  /\ Receives(t) /\ ~dspstate
  /\ dspstate' = TRUE
  /\ UNCHANGED <<quit, nextsettings>>
  /\ IF isopen THEN UNCHANGED <<tasks, astray>> ELSE DoesUnasked(t, OpenJob)
DspOff(t) ==
  /\ Receives(t) /\ dspstate
  /\ dspstate' = FALSE
  /\ UNCHANGED <<quit, nextsettings>>
  /\ DoesUnasked(t, CloseJob)

(* glob_audio_setapi, and glob_loadpreferences.                            *)
OtherApi(t) ==
  /\ Receives(t)
  /\ nextsettings' \in {s \in Settings : Calls(s) = Calls(nextsettings)}
  /\ DoesUnasked(t, ReopenJob)
  /\ UNCHANGED <<quit, dspstate>>
Preferences(t) ==
  /\ Receives(t)
  /\ nextsettings' \in Settings
  /\ DoesUnasked(t, ReopenJob)
  /\ UNCHANGED <<quit, dspstate>>
NoApi(t) ==
  /\ Receives(t)
  /\ UNCHANGED nextsettings
  /\ DoesUnasked(t, CloseJob)
  /\ UNCHANGED <<quit, dspstate>>

Message(t) == \/ AudioDialog(t) \/ DspOn(t) \/ DspOff(t)
              \/ OtherApi(t) \/ Preferences(t) \/ NoApi(t)

-------------------------------------------------------------------------------
(* sched_tick, as far as the device goes: time advances unless sys_quit is *)
(* set and a clock is due.  The next is for threads that hold sys_lock.    *)

Advances == pdsystime' = 1 - pdsystime /\ moved' = TRUE
EndsTick == Advances \/ (quit /\ UNCHANGED <<pdsystime, moved>>)

Takes(t) == lock = "free" /\ lock' = t
Free == lock' = "free"

(* A step of the main thread, which has nothing to do to the device.       *)
MainGoes(from, to) ==
  /\ mpc = from /\ job["main"] = Idle
  /\ mpc' = to
  /\ UNCHANGED <<deviceVars, nextsettings, dspstate, cpc, messages>>

-------------------------------------------------------------------------------
(* m_mainloop.                                                             *)

Scheduler == IF useaudio = "callback" THEN "stalled" ELSE "take"
PicksScheduler ==
  /\ MainGoes("top", Scheduler)
  /\ UNCHANGED <<quit, lock, tasks, forward, moved, pdsystime>>

SchedulerLeft ==
  /\ MainGoes("left", IF quit THEN "forget" ELSE "top")
  /\ UNCHANGED <<quit, lock, tasks, forward, moved, pdsystime>>

ForgetsQuit ==
  /\ MainGoes("forget", "restart")
  /\ quit' = FALSE
  /\ UNCHANGED <<lock, tasks, forward, moved, pdsystime>>

(* Without the lock, so that a callback under way can end.                 *)
Restarts ==
  /\ MainGoes("restart", "top")
  /\ IF isopen THEN Does("main", ReopenJob, FALSE) ELSE UNCHANGED tasks
  /\ UNCHANGED <<quit, lock, forward, moved, pdsystime>>

-------------------------------------------------------------------------------
(* m_callbackscheduler: looks once a second whether time has moved.        *)

QuitUnseen == FALSE                                              \* mutant
QuitSeen == quit

TimeWasOnce == moved                                             \* mutant
TimeWas == FALSE

SleepsASecond ==
  /\ MainGoes("stalled", IF QuitSeen THEN "left" ELSE "slept")
  /\ moved' = TimeWas
  /\ UNCHANGED <<quit, lock, tasks, forward, pdsystime>>

LooksAtTime ==
  /\ MainGoes("slept", IF moved THEN "stalled" ELSE "stalledtake")
  /\ UNCHANGED <<quit, lock, tasks, forward, moved, pdsystime>>

TakesLockStalled ==
  /\ MainGoes("stalledtake", "stalledpoll")
  /\ Takes("main")
  /\ UNCHANGED <<quit, tasks, forward, moved, pdsystime>>

PollsStalled ==
  /\ MainGoes("stalledpoll", "stalledtick")
  /\ UNCHANGED <<quit, lock, tasks, forward, moved, pdsystime>>

TicksStalled ==
  /\ MainGoes("stalledtick", "stalled")
  /\ EndsTick
  /\ Free
  /\ UNCHANGED <<quit, tasks, forward>>

-------------------------------------------------------------------------------
(* m_pollingscheduler: a tick, then audio is transferred.                  *)

TakesLock ==
  /\ MainGoes("take", "loop")
  /\ Takes("main")
  /\ UNCHANGED <<quit, tasks, forward, moved, pdsystime>>

LoopTests ==
  /\ MainGoes("loop", IF quit THEN "left" ELSE "tick")
  /\ IF quit THEN Free ELSE UNCHANGED lock
  /\ UNCHANGED <<quit, tasks, forward, moved, pdsystime>>

Ticks ==
  /\ MainGoes("tick", "poll")
  /\ EndsTick
  /\ UNCHANGED <<quit, lock, tasks, forward>>

Polls ==
  /\ MainGoes("poll", "inner")
  /\ UNCHANGED <<quit, lock, tasks, forward, moved, pdsystime>>

InnerTests ==
  /\ MainGoes("inner", IF quit THEN "loop" ELSE "transfer")
  /\ IF quit THEN UNCHANGED lock ELSE Free
  /\ UNCHANGED <<quit, tasks, forward, moved, pdsystime>>

(* With no audio the clock says whether it is time.                        *)
TimeHasCome ==
  /\ MainGoes("transfer", "retake")
  /\ useaudio = "none"
  /\ forward' = TRUE
  /\ UNCHANGED <<quit, lock, tasks, moved, pdsystime>>

NothingToDo ==
  /\ MainGoes("transfer", "idletake")
  /\ useaudio = "none" \/ stream = Closed
  /\ forward' = FALSE
  /\ UNCHANGED <<quit, lock, tasks, moved, pdsystime>>

(* A stream with callbacks of its own has no rings: pa_send_dacs waits for *)
(* it in vain, or uses a buffer that is not there, which ends Pd and with  *)
(* it the behaviour.                                                       *)
Transfers ==
  /\ MainGoes("transfer", "dacs")
  /\ useaudio # "none" /\ stream # Closed
  /\ UNCHANGED <<quit, lock, tasks, forward, moved, pdsystime>>

(* pa_send_dacs waits, polling for messages; then it has transferred, or   *)
(* finds the device closed, or gives up and reopens it.                    *)
WaitsForDevice ==
  /\ MainGoes("dacs", "dacspoll")
  /\ stream # Closed
  /\ Takes("main")
  /\ UNCHANGED <<quit, tasks, forward, moved, pdsystime>>

HasWaited ==
  /\ MainGoes("dacspoll", "dacs")
  /\ Free
  /\ UNCHANGED <<quit, tasks, forward, moved, pdsystime>>

HasTransferred ==
  /\ \E after \in {"retake", "idletake"} : MainGoes("dacs", after)
  /\ stream # Closed /\ ~Calls(stream)
  /\ forward' = TRUE
  /\ UNCHANGED <<quit, lock, tasks, moved, pdsystime>>

DeviceGone ==
  /\ MainGoes("dacs", "idletake")
  /\ stream = Closed
  /\ forward' = FALSE
  /\ UNCHANGED <<quit, lock, tasks, moved, pdsystime>>

TimesOut ==
  /\ MainGoes("dacs", "idletake")
  /\ stream # Closed
  /\ Does("main", ReopenJob, FALSE)
  /\ forward' = FALSE
  /\ UNCHANGED <<quit, lock, moved, pdsystime>>

DeviceAnswers == HasTransferred \/ DeviceGone \/ TimesOut

(* sched_idletask, and sys_microsleep.                                     *)
TakesLockIdle ==
  /\ MainGoes("idletake", "idle")
  /\ Takes("main")
  /\ UNCHANGED <<quit, tasks, forward, moved, pdsystime>>

HasIdled ==
  /\ MainGoes("idle", "retake")
  /\ Free
  /\ UNCHANGED <<quit, tasks, forward, moved, pdsystime>>

TakesLockAgain ==
  /\ MainGoes("retake", IF forward THEN "loop" ELSE "inner")
  /\ Takes("main")
  /\ UNCHANGED <<quit, tasks, forward, moved, pdsystime>>

MainTakes == TakesLock \/ TakesLockStalled \/ TakesLockIdle \/ TakesLockAgain
MainRuns ==
  \/ PicksScheduler \/ SchedulerLeft \/ ForgetsQuit \/ Restarts
  \/ SleepsASecond \/ LooksAtTime \/ PollsStalled \/ TicksStalled
  \/ LoopTests \/ Ticks \/ Polls \/ InnerTests \/ NothingToDo \/ Transfers
  \/ HasWaited \/ HasIdled

-------------------------------------------------------------------------------
(* The device's thread: pa_lowlevel_callback, sched_audio_callbackfn.      *)

CallbackGoes(from, to) ==
  /\ cpc = from /\ job["callback"] = Idle
  /\ cpc' = to
  /\ UNCHANGED <<quit, deviceVars, nextsettings, dspstate, mpc, tasks, forward, messages>>

(* A stream that is being closed calls no more.                            *)
DeviceCalls ==
  /\ CallbackGoes("idle", "take")
  /\ Calls(stream)
  /\ ~(Doing("main", "close") /\ isopen) /\ ~Doing("main", "open")
  /\ UNCHANGED <<lock, moved, pdsystime>>

CallbackTakesLock ==
  /\ CallbackGoes("take", "tick")
  /\ Takes("callback")
  /\ UNCHANGED <<moved, pdsystime>>

CallbackTicks ==
  /\ CallbackGoes("tick", "taketopoll")
  /\ EndsTick
  /\ Free

CallbackTakesLockToPoll ==
  /\ CallbackGoes("taketopoll", "poll")
  /\ Takes("callback")
  /\ UNCHANGED <<moved, pdsystime>>

(* A callback runs a tick for every block of 64 samples it is asked for.   *)
NextBlock ==
  /\ CallbackGoes("poll", "take")
  /\ Free
  /\ UNCHANGED <<moved, pdsystime>>

AudioReturns ==
  /\ CallbackGoes("poll", "idle")
  /\ Free
  /\ UNCHANGED <<moved, pdsystime>>

CallbackTakes == CallbackTakesLock \/ CallbackTakesLockToPoll
CallbackRuns == CallbackTicks \/ NextBlock \/ AudioReturns

LoopNext ==
  \/ \E t \in Threads : DeviceStep(t) \/ Message(t)
  \/ MainTakes \/ MainRuns \/ TimeHasCome \/ WaitsForDevice \/ DeviceAnswers
  \/ DeviceCalls \/ CallbackTakes \/ CallbackRuns

LoopSpec == LoopInit /\ [][LoopNext]_loopVars

(* Threads run, and the device asks for so many blocks in one callback and *)
(* no more.  The mutex is given to a thread that keeps asking for it.  A   *)
(* wait for the device ends, by an answer or by the time-out, and a device *)
(* with a fifo does answer now and then; with no audio real time passes.   *)
(* No message and no callback need ever come.                              *)
LoopFairSpec ==
  /\ LoopSpec
  /\ \A t \in Threads : WF_loopVars(DeviceStep(t))
  /\ WF_loopVars(MainRuns) /\ WF_loopVars(CallbackRuns) /\ SF_loopVars(AudioReturns)
  /\ SF_loopVars(MainTakes) /\ SF_loopVars(CallbackTakes)
  /\ SF_loopVars(DeviceAnswers) /\ SF_loopVars(HasTransferred)
  /\ SF_loopVars(TimeHasCome)

-------------------------------------------------------------------------------
(* Properties.                                                             *)

MainPlaces ==
  {"top", "left", "forget", "restart",
   "stalled", "slept", "stalledtake", "stalledpoll", "stalledtick",
   "take", "loop", "tick", "poll", "inner", "transfer", "dacs", "dacspoll",
   "idletake", "idle", "retake"}
CallbackPlaces == {"idle", "take", "tick", "taketopoll", "poll"}

LoopTypeOK ==
  /\ quit \in BOOLEAN /\ useaudio \in {"none", "poll", "callback"}
  /\ nextsettings \in Settings /\ stream \in Settings \cup {Closed}
  /\ isopen \in BOOLEAN /\ callbackopen \in BOOLEAN
  /\ dspstate \in BOOLEAN
  /\ lock \in Threads \cup {"free"}
  /\ mpc \in MainPlaces /\ cpc \in CallbackPlaces
  /\ job \in [Threads -> Jobs]
  /\ forward \in BOOLEAN /\ moved \in BOOLEAN /\ pdsystime \in {0, 1}
  /\ sent \in 0..MaxMessages
  /\ hasty \subseteq Threads /\ astray \in BOOLEAN

(* Whoever closes a device that calls back can count on the callback under *)
(* way to end: it is not that callback itself, and it does not hold the    *)
(* lock the callback needs.  This is so for the settings dialog, m_mainloop*)
(* and pa_send_dacs.  It is not so for DSP off, another API, none, and     *)
(* preferences, which close a device with callbacks where they are, nor for*)
(* what a callback takes up before its device is noted: hasty.             *)
Closes(t) == Doing(t, "close") /\ isopen
Hasty(t) == t \in hasty /\ job[t] # Idle
CloseCanEnd ==
  \A t \in Threads :
    Closes(t) /\ Calls(stream) /\ cpc # "idle" =>
      Hasty("main") \/ Hasty("callback") \/ (t = "main" /\ lock # "main")

(* The sound buffers and the DSP graph are replaced while no callback is   *)
(* under way, although m_mainloop does it without the lock.  Only a message*)
(* in a callback that comes before the device is noted may do otherwise.   *)
BuffersAreFree ==
  \A t \in Threads : Doing(t, "open") => NoCallback \/ (t = "callback" /\ Hasty(t))

(* "It is not permissible to call PortAudio API functions from within the  *)
(* stream callback" (portaudio.h:827), which closing a device does.        *)
CallbackClosesNothing == ~(Closes("callback") /\ Calls(stream))

(* Whatever the settings are changed to, and wherever the main thread is   *)
(* then, the device comes to have them, if there is one to be opened, with *)
(* the scheduler that serves it; unless a message itself closed or opened  *)
(* a device with callbacks (astray).                                       *)
CallbackScheduler == {"stalled", "slept", "stalledtake", "stalledpoll", "stalledtick"}
Served ==
  isopen => /\ stream \in {nextsettings, Closed}
            /\ ((mpc \in CallbackScheduler) <=> Calls(nextsettings))
SettingsTakeEffect == <>astray \/ <>[]Served

(* Logical time goes on, with a device or none, and with one that has      *)
(* stopped calling back.  It does not where a device without channels is   *)
(* noted as open in m_pollingscheduler: pa_send_dacs has no stream and says*)
(* each time that no time has passed.                                      *)
Streamless == isopen /\ stream = Closed /\ mpc \notin CallbackScheduler
GoesOnForEver == []<>(pdsystime = 0) /\ []<>(pdsystime = 1)
TimeGoesOn == <>astray \/ <>[]Streamless \/ GoesOnForEver

(* "no audio; use system clock" (m_sched.c:361): time goes on although no  *)
(* stream is open.  It does not hold, in the case that TimeGoesOn leaves   *)
(* out.                                                                    *)
ClockWithoutAudio == <>astray \/ (<>[](stream = Closed) => GoesOnForEver)
===============================================================================
