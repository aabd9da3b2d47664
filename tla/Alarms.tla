-------------------------------- MODULE Alarms --------------------------------
(***************************************************************************)
(* What Pd's scheduler promises the owners of its clocks (m_sched.c): the  *)
(* clocks due at one instant form a queue, and the clock that rings next   *)
(* is the head of the queue of the earliest instant at which any is due.   *)
(* Logical time is then exactly that instant, it never goes back, and it   *)
(* never passes an instant at which a clock still waits.  Patches rely on  *)
(* the order among equals: two "delay 0" run in the order they were set.   *)
(***************************************************************************)
EXTENDS Naturals, Sequences, SequencesExt

CONSTANTS Clocks, Instants

VARIABLES now, line   \* line[t]: the clocks due at instant t, in order

NobodyBefore(t) == \A s \in Instants : s < t => line[s] = <<>>

(* A queue without c, which is in it at most once.                         *)
Less(q, c) ==
  IF \E i \in DOMAIN q : q[i] = c
    THEN RemoveAt(q, CHOOSE i \in DOMAIN q : q[i] = c)
    ELSE q
Without(c) == [t \in Instants |-> Less(line[t], c)]

Init == now = 0 /\ line = [t \in Instants |-> <<>>]

Arm(c, t) ==
  /\ now <= t
  /\ UNCHANGED now
  /\ line' = [Without(c) EXCEPT ![t] = Append(@, c)]

Disarm(c) ==
  /\ UNCHANGED now
  /\ line' = Without(c)

Ring(t) ==
  /\ now' = t
  /\ line[t] # <<>>
  /\ NobodyBefore(t)
  /\ line' = [line EXCEPT ![t] = Tail(@)]

Advance(t) ==
  /\ now <= t /\ now' = t
  /\ NobodyBefore(t)
  /\ UNCHANGED line

Next ==
  \/ \E c \in Clocks : Disarm(c)
  \/ \E c \in Clocks, t \in Instants : Arm(c, t)
  \/ \E t \in Instants : Ring(t) \/ Advance(t)

Spec == Init /\ [][Next]_<<now, line>>
===============================================================================
