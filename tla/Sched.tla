-------------------------------- MODULE Sched ---------------------------------
(***************************************************************************)
(* Pd's logical-time scheduler (src/src/m_sched.c): the list of set clocks *)
(* ordered by time, the operations the rest of Pd calls on a clock, and    *)
(* sched_tick, which takes logical time forward by one DSP tick and calls  *)
(* back the clocks that come due on the way.                               *)
(*                                                                         *)
(* A clock's owner is a client of this module: whenever client code runs - *)
(* in a callback, in a message the tick polls from the GUI, in dsp_tick or *)
(* between ticks - it may set, delay, unset, re-unit, create and free any  *)
(* clock, the one that is ringing included, ask for the audio to be        *)
(* reopened or quit.  Everything here runs under sys_lock, so client       *)
(* operations interleave with the tick only at those places; the exception *)
(* is Restart, which m_mainloop does without the lock.                     *)
(*                                                                         *)
(* Time is a double counted in TIMEUNITs in the code and an integer here:  *)
(* a delay recomputed by clock_setunit is rounded down to a whole unit.    *)
(***************************************************************************)
EXTENDS Integers, Sequences, SequencesExt

CONSTANTS
  Clocks,         \* the addresses of clocks
  Tick,           \* SYSTIMEPERTICK
  UnitsPerMsec,   \* TIMEUNITPERMSEC
  UnitsPerSample, \* TIMEUNITPERSECOND / st_dacsr
  PollEvery,      \* the 5000 of sched_tick's countdown
  Callbacks,      \* TRUE: the audio library calls sched_audio_callbackfn
  Times,          \* absolute times clock_set is called with
  Delays,         \* delays clock_delay is called with
  TimeUnits,      \* units clock_setunit is called with
  SampFlags,      \* ... and its sampflag
  Horizon,        \* bound: no clock is set beyond this time
  MaxTime         \* bound: no tick ends beyond this time

ASSUME SchedAssumption ==
  /\ Tick \in Nat \ {0} /\ UnitsPerMsec \in Nat \ {0}
  /\ UnitsPerSample \in Nat \ {0} /\ PollEvery \in Nat
  /\ Callbacks \in BOOLEAN /\ SampFlags \subseteq BOOLEAN
  /\ Times \subseteq Int /\ Delays \subseteq Nat /\ TimeUnits \subseteq Int
  /\ Horizon \in Nat /\ MaxTime \in Nat

Unset == -1

VARIABLES
  systime,    \* pd_systime
  settime,    \* c_settime of each clock
  unit,       \* c_unit: > 0 in TIMEUNITs, < 0 in samples
  setlist,    \* pd_clock_setlist, followed through c_next
  live,       \* the clocks that are allocated
  phase,      \* where sched_tick is, and which client code may run
  next,       \* sched_tick's next_sys_time
  countdown,  \* ... and its countdown
  reopen,     \* sys_quit = SYS_QUIT_RESTART
  ticks,      \* sched_counter: DSP ticks done
  cut         \* history: some tick returned before its end

clockVars == <<settime, unit, setlist, live>>
tickVars  == <<systime, phase, next, countdown, ticks, cut>>
vars      == <<clockVars, tickVars, reopen>>

Init ==
  /\ systime = 0 /\ next = 0 /\ ticks = 0 /\ countdown = 0
  /\ settime = [c \in Clocks |-> Unset]
  /\ unit = [c \in Clocks |-> UnitsPerMsec]
  /\ setlist = <<>>
  /\ live = {}
  /\ phase = "idle"
  /\ reopen = FALSE /\ cut = FALSE

-------------------------------------------------------------------------------
(* The ordered list.                                                       *)

IsSet(c) == settime[c] >= 0
PlaceOf(c) == CHOOSE i \in DOMAIN setlist : setlist[i] = c

(* The list once clock_unset has taken c out of it.                        *)
ListWithout(c) == IF IsSet(c) THEN RemoveAt(setlist, PlaceOf(c)) ELSE setlist

(* A clock goes in front of the first one that is due later than t.        *)
EndsOrNotSooner(s, t, i) == i = Len(s) + 1 \/ settime[s[i]] >= t  \* mutant
EndsOrLater(s, t, i) == i = Len(s) + 1 \/ settime[s[i]] > t
PlaceFor(s, t) ==
  CHOOSE i \in 1..(Len(s) + 1) :
    EndsOrLater(s, t, i) /\ \A j \in 1..(i - 1) : ~EndsOrLater(s, t, j)

Remove1Linked(c) ==                                              \* mutant
  /\ setlist' = setlist
  /\ settime' = [settime EXCEPT ![c] = Unset]
Remove1(c) ==
  /\ setlist' = ListWithout(c)
  /\ settime' = [settime EXCEPT ![c] = Unset]

NotPast(t) == IF t < systime THEN systime ELSE t

SetInPlace(c, t) ==                                              \* mutant
  /\ NotPast(t) <= Horizon
  /\ setlist' = IF IsSet(c) THEN setlist
                ELSE InsertAt(setlist, PlaceFor(setlist, NotPast(t)), c)
  /\ settime' = [settime EXCEPT ![c] = NotPast(t)]
SetTo(c, t) ==
  /\ NotPast(t) <= Horizon
  /\ setlist' = InsertAt(ListWithout(c), PlaceFor(ListWithout(c), NotPast(t)), c)
  /\ settime' = [settime EXCEPT ![c] = NotPast(t)]

-------------------------------------------------------------------------------
(* Units: their length in TIMEUNITs, and the time left of a set clock      *)
(* counted in an old unit and started again in a new one.                  *)

UnitLength(u) == IF u > 0 THEN u ELSE -u * UnitsPerSample
InUnit(left, old, new) == (left * UnitLength(new)) \div UnitLength(old)

NewUnit(timeunit, samps) ==
  LET positive == IF timeunit <= 0 THEN 1 ELSE timeunit
  IN IF samps THEN -positive ELSE positive * UnitsPerMsec

(* The test for "no change" multiplies the old unit by TIMEUNITPERMSEC     *)
(* where it should divide.                                                 *)
SameUnit(c, timeunit, samps) ==
  LET positive == IF timeunit <= 0 THEN 1 ELSE timeunit
  IN positive = IF samps THEN -unit[c] ELSE unit[c] * UnitsPerMsec

TimeLeft(c) == settime[c] - systime

(* The time left of a clock counted in samples comes out negative, as      *)
(* c_unit is: it is only "already set" for clock_setunit when nothing is   *)
(* left.                                                                   *)
SeenAsSet(c) == IsSet(c) /\ (unit[c] > 0 \/ TimeLeft(c) = 0)

-------------------------------------------------------------------------------
(* What client code does to a clock.                                       *)

ClientPhases == {"idle", "callback", "gui", "dsp"}
Client == phase \in ClientPhases /\ UNCHANGED tickVars
Messages == phase # "dsp"   \* perform routines only set, delay and unset

ClockNew(c) ==
  /\ Client /\ Messages /\ c \notin live
  /\ live' = live \cup {c}
  /\ settime' = [settime EXCEPT ![c] = Unset]
  /\ unit' = [unit EXCEPT ![c] = UnitsPerMsec]
  /\ UNCHANGED <<setlist, reopen>>

ClockFree(c) ==
  /\ Client /\ Messages /\ c \in live
  /\ Remove1(c)
  /\ live' = live \ {c}
  /\ UNCHANGED <<unit, reopen>>

ClockUnset(c) ==
  /\ Client /\ c \in live
  /\ Remove1(c)
  /\ UNCHANGED <<unit, live, reopen>>

ClockSet(c, t) ==
  /\ Client /\ c \in live
  /\ SetTo(c, t)
  /\ UNCHANGED <<unit, live, reopen>>

ClockDelay(c, d) ==
  /\ Client /\ c \in live
  /\ SetTo(c, systime + d * UnitLength(unit[c]))
  /\ UNCHANGED <<unit, live, reopen>>

ClockSetUnit(c, timeunit, samps) ==
  LET new == NewUnit(timeunit, samps)
  IN /\ Client /\ Messages /\ c \in live
     /\ ~SameUnit(c, timeunit, samps)
     /\ unit' = [unit EXCEPT ![c] = new]
     /\ IF SeenAsSet(c)
          THEN SetTo(c, systime + InUnit(TimeLeft(c), unit[c], new))
          ELSE UNCHANGED <<settime, setlist>>
     /\ UNCHANGED <<live, reopen>>

(* sched_reopenmeplease, when the audio settings are changed.              *)
AskReopen ==
  /\ Client /\ Messages
  /\ reopen' = TRUE
  /\ UNCHANGED clockVars

(* glob_exit sets SYS_QUIT_QUIT and leaves with exit().                    *)
Exit ==
  /\ phase \in ClientPhases /\ Messages
  /\ phase' = "exited"
  /\ UNCHANGED <<systime, next, countdown, ticks, cut, clockVars, reopen>>

ClientStep ==
  \/ \E c \in Clocks : ClockNew(c) \/ ClockFree(c) \/ ClockUnset(c)
  \/ \E c \in Clocks, t \in Times : ClockSet(c, t)
  \/ \E c \in Clocks, d \in Delays : ClockDelay(c, d)
  \/ \E c \in Clocks, u \in TimeUnits, s \in SampFlags : ClockSetUnit(c, u, s)
  \/ AskReopen
  \/ Exit

-------------------------------------------------------------------------------
(* sched_tick.  The polling scheduler stops before the next tick once      *)
(* sys_quit is set; an audio callback does not look.                       *)

NextTime(t) == t + Tick

TickStarts ==
  /\ phase = "idle"
  /\ Callbacks \/ ~reopen
  /\ NextTime(systime) <= MaxTime
  /\ next' = NextTime(systime)
  /\ countdown' = PollEvery
  /\ phase' = "tick"
  /\ UNCHANGED <<systime, ticks, cut, clockVars, reopen>>

SomeDue == setlist # <<>> /\ settime[Head(setlist)] < next

TimeoutRings ==
  /\ phase = "tick"
  /\ SomeDue
  /\ systime' = settime[Head(setlist)]
  /\ Remove1(Head(setlist))
  /\ phase' = "callback"
  /\ UNCHANGED <<unit, live, next, countdown, ticks, cut, reopen>>

(* The end of the loop's body: with sys_quit set the tick is cut short,    *)
(* and logical time stays where the last clock put it.                     *)
LoopEnds ==
  /\ phase' = IF reopen THEN "idle" ELSE "tick"
  /\ cut' = (cut \/ reopen)

CountdownRestarts == PollEvery                                   \* mutant
CountdownAfter == IF countdown = 0 THEN PollEvery ELSE countdown - 1

CallbackReturns ==
  /\ phase = "callback"
  /\ countdown' = CountdownAfter
  /\ IF countdown = 0
       THEN phase' = "gui" /\ UNCHANGED cut
       ELSE LoopEnds
  /\ UNCHANGED <<systime, next, ticks, clockVars, reopen>>

GuiPolled ==
  /\ phase = "gui"
  /\ LoopEnds
  /\ UNCHANGED <<systime, next, countdown, ticks, clockVars, reopen>>

TimeAtEnd == next

TickEnds ==
  /\ phase = "tick"
  /\ ~SomeDue
  /\ systime' = TimeAtEnd
  /\ phase' = "dsp"
  /\ UNCHANGED <<next, countdown, ticks, cut, clockVars, reopen>>

DspReturns ==
  /\ phase = "dsp"
  /\ ticks' = ticks + 1
  /\ phase' = "idle"
  /\ UNCHANGED <<systime, next, countdown, cut, clockVars, reopen>>

TickStep == TimeoutRings \/ CallbackReturns \/ GuiPolled \/ TickEnds \/ DspReturns

(* m_mainloop clears sys_quit and reopens the audio.  With callbacks the   *)
(* ticks run in another thread, which this does not wait for.              *)
Restart ==
  /\ reopen
  /\ Callbacks \/ phase = "idle"
  /\ phase # "exited"
  /\ reopen' = FALSE
  /\ UNCHANGED <<tickVars, clockVars>>

Next == ClientStep \/ TickStarts \/ TickStep \/ Restart

Spec == Init /\ [][Next]_vars

(* A tick that has begun runs on: nothing in it waits, provided that each  *)
(* callback and each polled message returns.                               *)
FairSpec == Spec /\ WF_vars(TickStep)

-------------------------------------------------------------------------------
(* Properties.                                                             *)

(* The type invariant of the clocks and the tick.                          *)
TypeOK ==
  /\ systime \in Nat /\ next \in Nat /\ ticks \in Nat
  /\ countdown \in 0..PollEvery
  /\ settime \in [Clocks -> Nat \cup {Unset}]
  /\ unit \in [Clocks -> Int \ {0}]
  /\ setlist \in Seq(Clocks)
  /\ live \subseteq Clocks
  /\ phase \in ClientPhases \cup {"tick", "exited"}
  /\ reopen \in BOOLEAN /\ cut \in BOOLEAN

(* clock_unset walks the list without a test for its end, so every clock   *)
(* whose c_settime says it is set must be in the list, exactly once, and   *)
(* no freed clock may stay there.                                          *)
ListedOnce ==
  /\ \A i, j \in DOMAIN setlist : setlist[i] = setlist[j] => i = j
  /\ \A c \in Clocks : IsSet(c) <=> \E i \in DOMAIN setlist : setlist[i] = c
  /\ \A i \in DOMAIN setlist : setlist[i] \in live

(* The list is in order of time and none of it is overdue, whatever client *)
(* code does in the middle of a tick.                                      *)
InOrder ==
  /\ \A i, j \in DOMAIN setlist :
       i < j => settime[setlist[i]] <= settime[setlist[j]]
  /\ \A i \in DOMAIN setlist : systime <= settime[setlist[i]]

(* Logical time never goes back: a clock set in the past rings now.        *)
TimeMonotone == [][systime' >= systime]_vars

(* Between ticks, logical time is a whole number of DSP ticks, exactly as  *)
(* many as were computed, whenever the clocks in between rang; only a tick *)
(* cut short by a request to reopen the audio takes it off that grid.      *)
OnTheGrid == phase = "idle" /\ ~cut => systime = ticks * Tick

(* A tick cannot shut the GUI out: even clocks that set themselves again   *)
(* with no delay, for ever, let it be polled.                              *)
GuiServed == phase = "tick" ~> phase \in {"gui", "idle", "exited"}

(* "If the clock is currently set, recalculate the delay based on the new  *)
(* unit and reschedule" (m_sched.c:108).  Not so: README, 5.2.             *)
UnitChangeReschedules ==
  [][\A c \in live \cap live' :
       IsSet(c) /\ unit'[c] # unit[c] =>
         settime'[c] = systime + InUnit(TimeLeft(c), unit[c], unit'[c])]_vars

(* The mapping under which this is an Alarms: the queue of an instant is   *)
(* the stretch of the list that is due then.  No clock is set beyond       *)
(* Horizon and no tick ends beyond MaxTime, so those are all the instants. *)
DueAt(t) ==
  LET due == {i \in DOMAIN setlist : settime[setlist[i]] = t}
  IN IF due = {} THEN <<>> ELSE SubSeq(setlist, Min(due), Max(due))

LastInstant == IF MaxTime > Horizon THEN MaxTime ELSE Horizon

Promise == INSTANCE Alarms WITH
  Instants <- 0..LastInstant,
  now      <- systime,
  line     <- [t \in 0..LastInstant |-> DueAt(t)]

(* The scheduler implements Alarms: earliest first, first set first among  *)
(* equals, and logical time stops at every clock that is due.              *)
KeepsPromise == Promise!Spec
===============================================================================
