------------------------------ MODULE LossyQueue ------------------------------
(***************************************************************************)
(* What a queue of libpd promises the program that embeds Pd: messages are *)
(* handed over whole and in order, each once and in batches; one is lost   *)
(* only when it does not fit besides those that wait; and whoever waits is *)
(* handed over.  Messages are numbered as Pd sends them, so the queue is   *)
(* the set of those in it: the oldest has the smallest number.             *)
(***************************************************************************)
EXTENDS Integers, Sequences, FiniteSets

CONSTANTS Capacity, ArgCounts, MaxMessages

VARIABLES offered, waiting, batch, handed
qvars == <<offered, waiting, batch, handed>>

Message(n, k) == [n |-> n, args |-> k]

(* A message takes a word for its header and one for each argument.        *)
WordsIn(ms) == UNION {{m.n} \X (0..m.args) : m \in ms}
Fits(k) == Cardinality(WordsIn(waiting)) + 1 + k <= Capacity

Accept(k) ==
  /\ offered < MaxMessages /\ Fits(k)
  /\ offered' = offered + 1
  /\ waiting' = waiting \union {Message(offered + 1, k)}
  /\ UNCHANGED <<batch, handed>>

Lose(k) ==
  /\ offered < MaxMessages /\ ~Fits(k)
  /\ offered' = offered + 1
  /\ UNCHANGED <<waiting, batch, handed>>

(* m and whatever is older are taken.                                      *)
Take(m) ==
  /\ batch = {}
  /\ batch' = {x \in waiting : x.n <= m.n}
  /\ waiting' = {x \in waiting : x.n > m.n}
  /\ UNCHANGED <<offered, handed>>

Oldest(m) == \A x \in batch : m.n <= x.n
HandOver(m) ==
  /\ Oldest(m)
  /\ handed' = Append(handed, m)
  /\ batch' = batch \ {m}
  /\ UNCHANGED <<offered, waiting>>

QInit == offered = 0 /\ waiting = {} /\ batch = {} /\ handed = <<>>

TakeSome == \E m \in waiting : Take(m)
HandOverOne == \E m \in batch : HandOver(m)

QNext ==
  \/ \E k \in ArgCounts : Accept(k) \/ Lose(k)
  \/ TakeSome
  \/ HandOverOne

QSafe == QInit /\ [][QNext]_qvars
QSpec == QSafe /\ WF_qvars(TakeSome) /\ WF_qvars(HandOverOne)
===============================================================================
