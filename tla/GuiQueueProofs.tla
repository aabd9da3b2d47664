---------------------------- MODULE GuiQueueProofs ----------------------------
(* Proofs about the redraw queue, for all widgets, sizes and histories: the *)
(* queue points to nobody who is gone, with one exception, nothing is drawn *)
(* from it behind a ping, no change is forgotten, and what the GUI has not  *)
(* read of the redraws is bounded.                                          *)
EXTENDS GuiQueue, SequenceTheorems, FiniteSetTheorems, TLAPS

(* Everyone is on the queue once, as sys_queuegui makes sure: that is why   *)
(* sys_unqueuegui may stop after the first entry it finds.                  *)
OnceEach(q) == \A i, j \in DOMAIN q : q[i] = q[j] => i = j
QueueInv == OnceEach(queue) /\ QueuedAreAlive

(* At most one ping is on its way, there or back, and Pd waits for it.      *)
IsPing(i) == stream[i].kind = "ping"
FlowInv ==
  /\ pc = "flush" => ~waiting
  /\ answers \in {0, 1}
  /\ answers = 1 => waiting /\ \A i \in DOMAIN stream : ~IsPing(i)
  /\ \A i \in DOMAIN stream : IsPing(i) => waiting
  /\ \A i, j \in DOMAIN stream : IsPing(i) /\ IsPing(j) => i = j
  /\ UpdatesWait

(* What a stream s leaves of c in the end, if p is shown before it.         *)
Picks(s, i, c, v) ==
  /\ c \in DOMAIN s[i].vals /\ s[i].vals[c] = v
  /\ \A j \in DOMAIN s : j > i => c \notin DOMAIN s[j].vals
Ends(s, p, c, v) ==
  IF \E i \in DOMAIN s : c \in DOMAIN s[i].vals
  THEN \E i \in DOMAIN s : Picks(s, i, c, v)
  ELSE p[c] = v

(* Whatever of a window has been drawn is shown in the end, or queued.      *)
IsDrawn(c) == mapped \/ (pc = "map" /\ c \notin todraw)
ShowInv ==
  /\ mapped => havegui
  /\ pc = "map" => havegui /\ ~mapped
  /\ pc # "map" => todraw = {}
  /\ todraw \subseteq alive
  /\ \A c \in alive : IsDrawn(c) =>
       Ends(stream, shown, c, val[c]) \/ c \in ToSet(queue)

(* What is not read yet is never more than was sent since the last ping.    *)
BytesInv ==
  /\ IsFiniteSet(UnreadBytes)
  /\ ~waiting => Unread <= since
  /\ UnreadIsBounded

IInv == TypeOK /\ QueueInv /\ FlowInv /\ ShowInv /\ BytesInv

-------------------------------------------------------------------------------
(* What is left of a queue without one of its entries.                      *)
LEMMA RemoveAtFacts ==
  ASSUME NEW S, NEW q \in Seq(S), NEW p \in 1..Len(q)
  PROVE  /\ RemoveAt(q, p) \in Seq(S)
         /\ Len(RemoveAt(q, p)) = Len(q) - 1
         /\ \A j \in 1..(Len(q) - 1) :
              RemoveAt(q, p)[j] = IF j < p THEN q[j] ELSE q[j + 1]
<1>1. Len(q) \in Nat /\ \A j \in 1..Len(q) : q[j] \in S
  BY ElementOfSeq, LenProperties
<1> DEFINE a == SubSeq(q, 1, p - 1)
           b == SubSeq(q, p + 1, Len(q))
<1>2. a \in Seq(S) /\ Len(a) = p - 1 /\ \A j \in 1..(p - 1) : a[j] = q[j]
  BY <1>1, SubSeqProperties
<1>3. b \in Seq(S) /\ Len(b) = Len(q) - p /\ \A j \in 1..(Len(q) - p) : b[j] = q[p + j]
  BY <1>1, SubSeqProperties
<1>4. RemoveAt(q, p) = a \o b
  BY DEF RemoveAt
<1> HIDE DEF a, b
<1>5. /\ a \o b \in Seq(S) /\ Len(a \o b) = Len(a) + Len(b)
      /\ \A j \in 1..(Len(a) + Len(b)) :
           (a \o b)[j] = IF j <= Len(a) THEN a[j] ELSE b[j - Len(a)]
  BY <1>2, <1>3, ConcatProperties
<1>6. ASSUME NEW j \in 1..(Len(q) - 1)
      PROVE  (a \o b)[j] = IF j < p THEN q[j] ELSE q[j + 1]
  <2>1. CASE j < p
    BY <1>1, <1>2, <1>3, <1>5, <2>1
  <2>2. CASE ~(j < p)
    <3>1. j - (p - 1) \in 1..(Len(q) - p) /\ p + (j - (p - 1)) = j + 1
      BY <1>1, <2>2
    <3>2. (a \o b)[j] = b[j - (p - 1)]
      BY <1>1, <1>2, <1>3, <1>5, <2>2
    <3> QED BY <1>3, <2>2, <3>1, <3>2
  <2> QED BY <2>1, <2>2
<1> QED BY <1>1, <1>2, <1>3, <1>4, <1>5, <1>6

(* sys_unqueuegui: nobody new, nobody twice, and c is not there any more.   *)
LEMMA UnqueuedFacts ==
  ASSUME NEW q \in Seq(Widgets), OnceEach(q), NEW c
  PROVE  LET r == Unqueued(q, c)
         IN /\ r \in Seq(Widgets) /\ OnceEach(r)
            /\ \A i \in DOMAIN r : r[i] # c /\ \E j \in DOMAIN q : q[j] = r[i]
<1>0. Len(q) \in Nat /\ DOMAIN q = 1..Len(q)
  BY LenProperties
<1>1. CASE c \notin ToSet(q)
  BY <1>1 DEF Unqueued, ToSet
<1>2. CASE c \in ToSet(q)
  <2> DEFINE p == Place(q, c)
             r == RemoveAt(q, p)
             from(i) == IF i < p THEN i ELSE i + 1
  <2>1. p \in 1..Len(q) /\ q[p] = c
    <3>1. \E i \in DOMAIN q : q[i] = c
      BY <1>2 DEF ToSet
    <3>2. p \in DOMAIN q /\ q[p] = c
      BY <3>1, Zenon DEF Place
    <3> HIDE DEF p
    <3> QED BY <1>0, <3>2, Zenon
  <2> HIDE DEF p
  <2>2. /\ r \in Seq(Widgets) /\ DOMAIN r = 1..(Len(q) - 1)
        /\ \A i \in 1..(Len(q) - 1) : r[i] = q[from(i)]
    <3>1. /\ r \in Seq(Widgets) /\ Len(r) = Len(q) - 1
          /\ \A i \in 1..(Len(q) - 1) : r[i] = IF i < p THEN q[i] ELSE q[i + 1]
      BY <2>1, RemoveAtFacts
    <3> HIDE DEF r
    <3> QED BY <3>1, LenProperties
  <2>3. \A i \in 1..(Len(q) - 1) : from(i) \in DOMAIN q /\ from(i) # p
    BY <1>0, <2>1
  <2>4. \A i, j \in 1..(Len(q) - 1) : from(i) = from(j) => i = j
    BY <1>0, <2>1
  <2> HIDE DEF r, from
  <2>5. \A i \in DOMAIN r : r[i] # c /\ \E j \in DOMAIN q : q[j] = r[i]
    BY <1>0, <2>1, <2>2, <2>3 DEF OnceEach
  <2>6. OnceEach(r)
    BY <2>2, <2>3, <2>4 DEF OnceEach
  <2>7. r = Unqueued(q, c)
    BY <1>2 DEF Unqueued, r, p
  <2> QED BY <2>2, <2>5, <2>6, <2>7
<1> QED BY <1>1, <1>2

(* sys_queuegui: c joins at the end, unless it is there.                    *)
LEMMA QueuedFacts ==
  ASSUME NEW q \in Seq(Widgets), OnceEach(q), NEW c \in Widgets
  PROVE  LET r == Queued(q, c)
         IN /\ r \in Seq(Widgets) /\ OnceEach(r)
            /\ \A i \in DOMAIN r : r[i] = c \/ \E j \in DOMAIN q : q[j] = r[i]
<1>0. Len(q) \in Nat /\ DOMAIN q = 1..Len(q)
  BY LenProperties
<1>1. CASE c \in ToSet(q)
  BY <1>1 DEF Queued
<1>2. CASE c \notin ToSet(q)
  <2> DEFINE r == Append(q, c)
  <2>1. /\ r \in Seq(Widgets) /\ DOMAIN r = 1..(Len(q) + 1) /\ r[Len(q) + 1] = c
        /\ \A i \in 1..Len(q) : r[i] = q[i]
    BY AppendProperties, LenProperties
  <2>2. \A i \in DOMAIN q : q[i] # c
    BY <1>2 DEF ToSet
  <2> HIDE DEF r
  <2>3. OnceEach(r)
    BY <1>0, <2>1, <2>2 DEF OnceEach
  <2>4. \A i \in DOMAIN r : r[i] = c \/ \E j \in DOMAIN q : q[j] = r[i]
    BY <1>0, <2>1
  <2>5. r = Queued(q, c)
    BY <1>2 DEF Queued, r
  <2> QED BY <2>1, <2>3, <2>4, <2>5
<1> QED BY <1>1, <1>2

(* The rest of a queue.                                                     *)
LEMMA TailFacts ==
  ASSUME NEW S, NEW q \in Seq(S), q # <<>>
  PROVE  /\ Head(q) \in S /\ Head(q) = q[1]
         /\ Tail(q) \in Seq(S) /\ DOMAIN Tail(q) = 1..(Len(q) - 1)
         /\ Len(q) \in Nat \ {0} /\ DOMAIN q = 1..Len(q)
         /\ \A i \in 1..(Len(q) - 1) : Tail(q)[i] = q[i + 1]
BY HeadTailProperties, LenProperties, EmptySeq

-------------------------------------------------------------------------------
(* What is sent is a message.                                               *)
LEMMA IsMessage ==
  ASSUME val \in [Widgets -> Values], NEW S \in SUBSET Widgets,
         NEW k \in {"direct", "update", "ping"}
  PROVE  Message(k, S) \in Messages /\ Message(k, S).kind = k
<1> DEFINE f == [c \in S |-> val[c]]
           F == UNION {[T -> Values] : T \in SUBSET Widgets}
<1>1. f \in [S -> Values]
  OBVIOUS
<1>2. f \in F
  BY <1>1
<1>3. /\ Message(k, S) = [kind |-> k, vals |-> f]
      /\ Messages = [kind : {"direct", "update", "ping"}, vals : F]
  BY DEF Message, Messages
<1> HIDE DEF f, F
<1> QED BY <1>2, <1>3

(* ... of the values of those it draws.                                      *)
LEMMA MessageIs ==
  ASSUME val \in [Widgets -> Values], NEW S \in SUBSET Widgets,
         NEW k \in {"direct", "update", "ping"}
  PROVE  /\ Message(k, S) \in Messages /\ DOMAIN Message(k, S).vals = S
         /\ \A c \in S : Message(k, S).vals[c] = val[c]
<1>1. Message(k, S).vals = [c \in S |-> val[c]]
  BY DEF Message
<1> QED BY <1>1, IsMessage

(* Flushing moves the border between what is sent and what is not.          *)
LEMMA Regrouped ==
  ASSUME NEW S, NEW s \in Seq(S), NEW x \in Seq(S), NEW y \in Seq(S)
  PROVE  s \o x \in Seq(S) /\ (s \o x) \o y = s \o (x \o y)
<1>1. s \o x \in Seq(S)
  BY ConcatProperties
<1>2. (s \o x) \o y = s \o (x \o y)
  BY ConcatAssociative, SMTT(20)
<1> QED BY <1>1, <1>2, Zenon

LEMMA SplitAt ==
  ASSUME NEW S, NEW b \in Seq(S), NEW k \in 0..Len(b)
  PROVE  /\ SubSeq(b, 1, k) \in Seq(S) /\ SubSeq(b, k + 1, Len(b)) \in Seq(S)
         /\ SubSeq(b, 1, k) \o SubSeq(b, k + 1, Len(b)) = b
<1>1. Len(b) \in Nat /\ \A i \in 1..Len(b) : b[i] \in S
  BY ElementOfSeq, LenProperties
<1>2. SubSeq(b, 1, k) \in Seq(S) /\ SubSeq(b, k + 1, Len(b)) \in Seq(S)
  BY <1>1, SubSeqProperties
<1>3. 1 \in 1..Len(b) + 1 /\ k \in 1 - 1..Len(b) /\ Len(b) \in k..Len(b)
  BY <1>1
<1>4. SubSeq(b, 1, k) \o SubSeq(b, k + 1, Len(b)) = SubSeq(b, 1, Len(b))
  BY <1>3, ConcatAdjacentSubSeq
<1> QED BY <1>2, <1>4, SubSeqFull

(* The items of the stream, when something is sent ...                      *)
LEMMA StreamIs ==
  ASSUME NEW S, NEW s \in Seq(S), NEW b \in Seq(S)
  PROVE  /\ Len(s) \in Nat /\ Len(b) \in Nat
         /\ DOMAIN (s \o b) = 1..(Len(s) + Len(b))
         /\ \A i \in 1..(Len(s) + Len(b)) :
              (s \o b)[i] = IF i <= Len(s) THEN s[i] ELSE b[i - Len(s)]
<1>1. s \o b \in Seq(S) /\ Len(s \o b) = Len(s) + Len(b)
  BY ConcatProperties
<1> QED BY <1>1, ConcatProperties, LenProperties

LEMMA StreamGrows ==
  ASSUME NEW S, NEW s \in Seq(S), NEW b \in Seq(S), NEW m \in S
  PROVE  LET n == Len(s) + Len(b)
             old == s \o b
             new == s \o Append(b, m)
         IN /\ n \in Nat /\ DOMAIN old = 1..n /\ DOMAIN new = 1..(n + 1)
            /\ new[n + 1] = m /\ \A i \in 1..n : new[i] = old[i]
<1> DEFINE b1 == Append(b, m)
<1>1. /\ b1 \in Seq(S) /\ Len(b1) = Len(b) + 1 /\ b1[Len(b) + 1] = m
      /\ \A i \in 1..Len(b) : b1[i] = b[i]
  BY AppendProperties
<1> HIDE DEF b1
<1> DEFINE old == s \o b
           new == s \o b1
<1>2. /\ Len(s) \in Nat /\ Len(b) \in Nat /\ DOMAIN old = 1..(Len(s) + Len(b))
      /\ \A i \in 1..(Len(s) + Len(b)) :
           old[i] = IF i <= Len(s) THEN s[i] ELSE b[i - Len(s)]
  BY StreamIs
<1>3. /\ DOMAIN new = 1..(Len(s) + Len(b1))
      /\ \A i \in 1..(Len(s) + Len(b1)) :
           new[i] = IF i <= Len(s) THEN s[i] ELSE b1[i - Len(s)]
  BY <1>1, StreamIs
<1> HIDE DEF old, new
<1>4. \A i \in 1..(Len(s) + Len(b)) : new[i] = old[i]
  <2> SUFFICES ASSUME NEW i \in 1..(Len(s) + Len(b)) PROVE new[i] = old[i]
    OBVIOUS
  <2>1. i \in 1..(Len(s) + Len(b1))
    BY <1>1, <1>2
  <2>2. CASE i <= Len(s)
    BY <1>2, <1>3, <2>1, <2>2
  <2>3. CASE ~(i <= Len(s))
    <3>1. i - Len(s) \in 1..Len(b)
      BY <1>2, <2>3
    <3> QED BY <1>1, <1>2, <1>3, <2>1, <2>3, <3>1
  <2> QED BY <2>2, <2>3
<1>5. DOMAIN new = 1..(Len(s) + Len(b) + 1) /\ new[Len(s) + Len(b) + 1] = m
  <2>1. Len(s) + Len(b) + 1 - Len(s) = Len(b) + 1 /\ ~(Len(s) + Len(b) + 1 <= Len(s))
        /\ Len(s) + Len(b1) = Len(s) + Len(b) + 1
        /\ Len(s) + Len(b) + 1 \in 1..(Len(s) + Len(b1))
    BY <1>1, <1>2
  <2> QED BY <1>1, <1>3, <2>1
<1> QED BY <1>2, <1>4, <1>5 DEF old, new, b1

(* ... and when the GUI reads.                                              *)
LEMMA StreamShrinks ==
  ASSUME NEW S, NEW s \in Seq(S), NEW b \in Seq(S), s # <<>>
  PROVE  LET n == Len(s) + Len(b)
             old == s \o b
             new == Tail(s) \o b
         IN /\ n \in Nat \ {0} /\ DOMAIN old = 1..n /\ DOMAIN new = 1..(n - 1)
            /\ Tail(s) \in Seq(S) /\ Head(s) \in S
            /\ old[1] = Head(s) /\ \A i \in 1..(n - 1) : new[i] = old[i + 1]
<1> DEFINE t == Tail(s)
<1>1. /\ Head(s) \in S /\ Head(s) = s[1] /\ t \in Seq(S)
      /\ Len(s) \in Nat \ {0} /\ Len(t) = Len(s) - 1
      /\ \A i \in 1..(Len(s) - 1) : t[i] = s[i + 1]
  BY TailFacts, HeadTailProperties, LenProperties
<1> HIDE DEF t
<1> DEFINE old == s \o b
           new == t \o b
<1>2. /\ Len(b) \in Nat /\ DOMAIN old = 1..(Len(s) + Len(b))
      /\ \A i \in 1..(Len(s) + Len(b)) :
           old[i] = IF i <= Len(s) THEN s[i] ELSE b[i - Len(s)]
  BY StreamIs
<1>3. /\ DOMAIN new = 1..(Len(t) + Len(b))
      /\ \A i \in 1..(Len(t) + Len(b)) :
           new[i] = IF i <= Len(t) THEN t[i] ELSE b[i - Len(t)]
  BY <1>1, StreamIs
<1> HIDE DEF old, new
<1>4. \A i \in 1..(Len(s) + Len(b) - 1) : new[i] = old[i + 1]
  <2> SUFFICES ASSUME NEW i \in 1..(Len(s) + Len(b) - 1) PROVE new[i] = old[i + 1]
    OBVIOUS
  <2>1. i \in 1..(Len(t) + Len(b)) /\ i + 1 \in 1..(Len(s) + Len(b))
    BY <1>1, <1>2
  <2>2. CASE i <= Len(t)
    <3>1. i + 1 <= Len(s) /\ i \in 1..(Len(s) - 1)
      BY <1>1, <2>2
    <3> QED BY <1>1, <1>2, <1>3, <2>1, <2>2, <3>1
  <2>3. CASE ~(i <= Len(t))
    <3>1. ~(i + 1 <= Len(s)) /\ i + 1 - Len(s) = i - Len(t)
      BY <1>1, <1>2, <2>3
    <3>2. new[i] = b[i - Len(t)]
      BY <1>3, <2>1, <2>3
    <3>3. old[i + 1] = b[i + 1 - Len(s)]
      BY <1>2, <2>1, <3>1
    <3> QED BY <3>1, <3>2, <3>3, Zenon
  <2> QED BY <2>2, <2>3
<1>5. old[1] = Head(s)
  BY <1>1, <1>2
<1> QED BY <1>1, <1>2, <1>3, <1>4, <1>5 DEF old, new, t

-------------------------------------------------------------------------------
(* Types.                                                                   *)
LEMMA SizesAreNat == \A c \in Widgets : DrawSize[c] \in Nat \ {0}
BY GuiAssumption

LEMMA InitType == Init => TypeOK
<1> SUFFICES ASSUME Init PROVE TypeOK
  OBVIOUS
<1> HIDE DEF Messages
<1>1. <<>> \in Seq(Widgets) /\ <<>> \in Seq(Messages)
  BY EmptySeq
<1> QED BY <1>1 DEF Init, TypeOK, Values, NotDrawn

(* What sys_vgui leaves behind.                                             *)
LEMMA SendsTypes ==
  ASSUME TypeOK, NEW S \in SUBSET Widgets, NEW n \in Nat, Sends(S, n)
  PROVE  buf' \in Seq(Messages) /\ since' \in Nat
<1>1. Message("direct", S) \in Messages
  BY IsMessage DEF TypeOK
<1> DEFINE m == Message("direct", S)
           M == Messages
<1>2. /\ buf \in Seq(M) /\ since \in Nat /\ m \in M
      /\ buf' = IF havegui THEN Append(buf, m) ELSE buf
      /\ since' = IF havegui THEN since + n ELSE since
  BY <1>1 DEF TypeOK, Sends
<1> HIDE DEF m, M
<1>3. buf' \in Seq(M) /\ since' \in Nat
  BY <1>2, AppendProperties
<1> QED BY <1>3 DEF M

LEMMA FlushTypes ==
  ASSUME TypeOK, Flushes(buf)
  PROVE  sock' \in Seq(Messages) /\ buf' \in Seq(Messages) /\ stream' = stream
<1> DEFINE M == Messages
<1>0. sock \in Seq(M) /\ buf \in Seq(M)
  BY DEF TypeOK
<1> HIDE DEF M
<1>1. PICK k \in 0..Len(buf) : /\ sock' = sock \o SubSeq(buf, 1, k)
                               /\ buf' = SubSeq(buf, k + 1, Len(buf))
  <2>1. Len(buf) \in Nat
    BY <1>0, LenProperties
  <2>2. PICK k \in (IF buf = <<>> THEN {0} ELSE 1..Len(buf)) :
             /\ sock' = sock \o SubSeq(buf, 1, k)
             /\ buf' = SubSeq(buf, k + 1, Len(buf))
    BY DEF Flushes
  <2>3. k \in 0..Len(buf)
    BY <2>1, <2>2
  <2> QED BY <2>2, <2>3
<1> DEFINE x == SubSeq(buf, 1, k)
           y == SubSeq(buf, k + 1, Len(buf))
<1>2. x \in Seq(M) /\ y \in Seq(M) /\ x \o y = buf
  <2>1. ASSUME NEW b \in Seq(M), NEW j \in 0..Len(b)
        PROVE  /\ SubSeq(b, 1, j) \in Seq(M) /\ SubSeq(b, j + 1, Len(b)) \in Seq(M)
               /\ SubSeq(b, 1, j) \o SubSeq(b, j + 1, Len(b)) = b
    BY SplitAt
  <2> QED BY <1>0, <2>1, Zenon
<1> HIDE DEF x, y
<1>3. sock \o x \in Seq(M) /\ (sock \o x) \o y = sock \o (x \o y)
  <2>1. ASSUME NEW s \in Seq(M), NEW u \in Seq(M), NEW v \in Seq(M)
        PROVE  s \o u \in Seq(M) /\ (s \o u) \o v = s \o (u \o v)
    BY Regrouped
  <2>2. sock \in Seq(M) /\ x \in Seq(M) /\ y \in Seq(M)
    BY <1>0, <1>2
  <2> HIDE DEF M
  <2> QED BY <2>1, <2>2, SMTT(20)
<1>4. sock' = sock \o x /\ buf' = y
  BY <1>1 DEF x, y
<1> QED BY <1>2, <1>3, <1>4 DEF M, stream

LEMMA TypeStep == TypeOK /\ QueueInv /\ [Next]_vars => TypeOK'
<1> SUFFICES ASSUME TypeOK, QueueInv, [Next]_vars PROVE TypeOK'
  OBVIOUS
<1> USE DEF poll, link, patch
<1> HIDE DEF Messages
<1>a. Sizes \subseteq Nat /\ \A c \in Widgets : DrawSize[c] \in Nat
  BY GuiAssumption, SizesAreNat
<1>b. queue \in Seq(Widgets) /\ OnceEach(queue) /\ todraw \subseteq Widgets
      /\ alive \subseteq Widgets /\ {} \in SUBSET Widgets
  BY DEF TypeOK, QueueInv
<1>1. ASSUME NEW c \in Widgets, Changes(c) PROVE TypeOK'
  <2>1. queue' \in Seq(Widgets)
    BY <1>b, <1>1, QueuedFacts DEF Changes
  <2> QED BY <1>1, <2>1 DEF Changes, Happens, TypeOK, Values
<1>2. ASSUME NEW c \in Widgets, Creates(c) PROVE TypeOK'
  <2>1. buf' \in Seq(Messages) /\ since' \in Nat
    <3>1. CASE mapped
      BY <1>a, <1>2, <3>1, SendsTypes DEF Creates
    <3>2. CASE ~mapped
      BY <1>2, <3>2 DEF Creates, TypeOK
    <3> QED BY <3>1, <3>2
  <2> QED BY <1>2, <2>1 DEF Creates, Happens, TypeOK
<1>3. ASSUME NEW n \in Sizes, Prints(n) PROVE TypeOK'
  <2>1. buf' \in Seq(Messages) /\ since' \in Nat
    BY <1>a, <1>b, <1>3, SendsTypes DEF Prints
  <2> QED BY <1>3, <2>1 DEF Prints, Happens, TypeOK
<1>4. ASSUME NEW n \in Sizes, Pretends(n) PROVE TypeOK'
  BY <1>a, <1>4 DEF Pretends, Happens, TypeOK
<1>5. ASSUME NEW n \in Sizes, Hides(n) PROVE TypeOK'
  <2>1. buf' \in Seq(Messages) /\ since' \in Nat
    BY <1>a, <1>b, <1>5, SendsTypes DEF Hides
  <2>2. mapped' \in BOOLEAN
    BY <1>5, Zenon DEF Hides
  <2>3. /\ events' = events + 1
        /\ UNCHANGED <<queue, waiting, pc, todraw, stop, havegui, alive, val, left,
                       sock, answers, shown>>
    BY <1>5 DEF Hides, Happens
  <2> QED BY <2>1, <2>2, <2>3 DEF TypeOK
<1>6. ASSUME NEW n \in Sizes, StopGui(n) PROVE TypeOK'
  <2>1. buf' \in Seq(Messages) /\ since' \in Nat /\ sock' \in Seq(Messages)
    BY <1>a, <1>b, <1>6, SendsTypes, EmptySeq DEF StopGui
  <2>2. mapped' \in BOOLEAN /\ havegui' \in BOOLEAN
    BY <1>6, Zenon DEF StopGui
  <2>3. /\ events' = events + 1 /\ answers' = 0
        /\ UNCHANGED <<queue, waiting, pc, todraw, stop, alive, val, left, shown>>
    BY <1>6 DEF StopGui, Happens
  <2> QED BY <2>1, <2>2, <2>3 DEF TypeOK
<1>7. ASSUME NEW c \in Widgets, NEW n \in Sizes, Deletes(c, n) PROVE TypeOK'
  <2>1. buf' \in Seq(Messages) /\ since' \in Nat
    <3>1. CASE mapped
      BY <1>a, <1>b, <1>7, <3>1, SendsTypes DEF Deletes
    <3>2. CASE ~mapped
      BY <1>7, <3>2 DEF Deletes, TypeOK
    <3> QED BY <3>1, <3>2
  <2>2. queue' \in Seq(Widgets)
    BY <1>b, <1>7, UnqueuedFacts DEF Deletes
  <2> QED BY <1>7, <2>1, <2>2 DEF Deletes, Happens, TypeOK, Values
<1>8. ASSUME Shows PROVE TypeOK'
  BY <1>8 DEF Shows, Happens, TypeOK
<1>9. ASSUME StartGui PROVE TypeOK'
  <2>1. buf' \in Seq(Messages)
    BY <1>9, EmptySeq DEF StartGui
  <2> QED BY <1>9, <2>1 DEF StartGui, Happens, TypeOK
<1>10. ASSUME Polls PROVE TypeOK'
  <2>1. sock' \in Seq(Messages) /\ buf' \in Seq(Messages)
    BY <1>10, FlushTypes DEF Polls
  <2>2. UpdateSlice \in Nat
    BY GuiAssumption
  <2>3. pc' \in {"idle", "flush"} /\ stop' \in Nat
    BY <1>10, <2>2 DEF Polls, TypeOK, StopAt, Never
  <2> QED BY <1>10, <2>1, <2>3 DEF Polls, TypeOK
<1>11. ASSUME DrawsNext PROVE TypeOK'
  <2> DEFINE c == CHOOSE c \in todraw : TRUE
  <2>1. c \in todraw /\ {c} \in SUBSET Widgets /\ DrawSize[c] \in Nat
    BY <1>a, <1>b, <1>11 DEF DrawsNext
  <2>2. /\ todraw' = todraw \ {c} /\ Sends({c}, DrawSize[c])
        /\ queue' = IF c \in Scalars THEN Unqueued(queue, c) ELSE queue
    BY <1>11 DEF DrawsNext
  <2> HIDE DEF c
  <2>3. buf' \in Seq(Messages) /\ since' \in Nat
    BY <2>1, <2>2, SendsTypes
  <2>4. queue' \in Seq(Widgets)
    BY <1>b, <2>2, UnqueuedFacts
  <2> QED BY <1>11, <2>2, <2>3, <2>4 DEF DrawsNext, TypeOK
<1>12. ASSUME HasDrawn PROVE TypeOK'
  BY <1>12 DEF HasDrawn, TypeOK
<1>13. ASSUME Pings PROVE TypeOK'
  <2>1. Ping \in Messages
    BY <1>b, IsMessage DEF TypeOK, Ping
  <2>2. buf' \in Seq(Messages)
    BY <1>13, <2>1, AppendProperties DEF Pings, TypeOK
  <2> QED BY <1>13, <2>2 DEF Pings, TypeOK, SinceAfterPing
<1>14. ASSUME Serves PROVE TypeOK'
  <2>1. Head(queue) \in Widgets /\ queue' \in Seq(Widgets)
    BY <1>b, <1>14, TailFacts DEF Serves
  <2>2. Message("update", {Head(queue)}) \in Messages
    BY <2>1, IsMessage DEF TypeOK
  <2>3. buf' \in Seq(Messages) /\ since' \in Nat
    <3>1. CASE mapped
      <4>1. buf' = Append(buf, Message("update", {Head(queue)}))
            /\ since' = since + DrawSize[Head(queue)]
        BY <1>14, <3>1 DEF Serves
      <4> QED BY <1>a, <2>1, <2>2, <4>1, AppendProperties DEF TypeOK
    <3>2. CASE ~mapped
      BY <1>14, <3>2 DEF Serves, TypeOK
    <3> QED BY <3>1, <3>2
  <2>4. pc' \in {"crashed", "send", "flush"}
    BY <1>14 DEF Serves
  <2> QED BY <1>14, <2>1, <2>3, <2>4 DEF Serves, TypeOK
<1>15. ASSUME HasServed PROVE TypeOK'
  BY <1>15 DEF HasServed, TypeOK
<1>16. ASSUME SendsIt PROVE TypeOK'
  <2>1. sock' \in Seq(Messages) /\ buf' \in Seq(Messages)
    BY <1>16, FlushTypes DEF SendsIt
  <2> QED BY <1>16, <2>1 DEF SendsIt, TypeOK
<1>17. ASSUME PingArrives PROVE TypeOK'
  <2>1. waiting' \in BOOLEAN
    BY <1>17, Zenon DEF PingArrives
  <2>2. /\ answers' \in Nat
        /\ UNCHANGED <<queue, since, pc, todraw, stop, buf, havegui, mapped, alive, val,
                       left, sock, shown, events>>
    BY <1>17 DEF PingArrives, TypeOK
  <2> QED BY <2>1, <2>2 DEF TypeOK
<1>18. ASSUME GuiReads PROVE TypeOK'
  <2>1. Head(sock) \in Messages /\ sock' \in Seq(Messages)
    <3>1. sock \in Seq(Messages) /\ sock # <<>> /\ sock' = Tail(sock)
      BY <1>18 DEF GuiReads, TypeOK
    <3> QED BY <3>1, TailFacts
  <2>2. PICK S \in SUBSET Widgets : Head(sock).vals \in [S -> Values]
    BY <2>1 DEF Messages
  <2>3. shown' \in [Widgets -> Values \cup {NotDrawn}]
    BY <1>18, <2>2 DEF GuiReads, Shown, TypeOK
  <2> QED BY <1>18, <2>1, <2>3 DEF GuiReads, TypeOK
<1>19. CASE UNCHANGED vars
  BY <1>19 DEF vars, TypeOK
<1> QED
  <2>1. CASE Event
    BY <2>1, <1>1, <1>2, <1>3, <1>4, <1>5, <1>6, <1>7, <1>8, <1>9 DEF Event
  <2>2. CASE Inside
    BY <2>2, <1>11, <1>12, <1>13, <1>14, <1>15, <1>16 DEF Inside
  <2> QED BY <2>1, <2>2, <1>10, <1>17, <1>18, <1>19 DEF Next

-------------------------------------------------------------------------------
(* Who is on the queue.                                                     *)
LEMMA QueueStep == TypeOK /\ QueueInv /\ [Next]_vars => QueueInv'
<1> SUFFICES ASSUME TypeOK, QueueInv, [Next]_vars PROVE QueueInv'
  OBVIOUS
<1> USE DEF poll, link, patch
<1>a. queue \in Seq(Widgets) /\ OnceEach(queue) /\ todraw \subseteq Widgets
  BY DEF TypeOK, QueueInv
<1>b. /\ \A i \in DOMAIN queue : queue[i] \in alive \cup left
      /\ pc = "crashed" => left # {}
  BY DEF QueueInv, QueuedAreAlive
<1> DEFINE NoCrash == pc' = "crashed" => pc = "crashed" /\ left' = left
<1>c. ASSUME UNCHANGED queue, alive \cup left \subseteq alive' \cup left', NoCrash
      PROVE  QueueInv'
  <2>1. OnceEach(queue')
    BY <1>a, <1>c
  <2>2. QueuedAreAlive'
    BY <1>b, <1>c DEF QueuedAreAlive
  <2> QED BY <2>1, <2>2 DEF QueueInv
<1>d. ASSUME NoCrash, OnceEach(queue'),
             \A i \in DOMAIN queue' : queue'[i] \in alive' \cup left'
      PROVE  QueueInv'
  BY <1>b, <1>d DEF QueueInv, QueuedAreAlive
<1>1. ASSUME NEW c \in Widgets, Changes(c) PROVE QueueInv'
  <2>1. /\ c \in alive /\ alive' = alive /\ left' = left /\ pc = "idle" /\ pc' = pc
        /\ queue' = (IF MayAsk(c) THEN Queued(queue, c) ELSE queue)
    BY <1>1 DEF Changes, Happens
  <2>2. CASE ~MayAsk(c)
    BY <1>c, <2>1, <2>2
  <2>3. CASE MayAsk(c)
    <3>1. /\ OnceEach(queue')
          /\ \A i \in DOMAIN queue' :
               queue'[i] = c \/ \E j \in DOMAIN queue : queue[j] = queue'[i]
      BY <1>a, <2>1, <2>3, QueuedFacts
    <3>2. \A i \in DOMAIN queue' : queue'[i] \in alive' \cup left'
      BY <1>b, <2>1, <3>1
    <3> QED BY <1>d, <2>1, <3>1, <3>2
  <2> QED BY <2>2, <2>3
<1>2. ASSUME NEW c \in Widgets, NEW n \in Sizes, Deletes(c, n) PROVE QueueInv'
  <2>1. /\ alive' = alive \ {c} /\ pc = "idle" /\ pc' = pc
        /\ queue' = (IF TakesItself(c) THEN Unqueued(queue, c) ELSE queue)
        /\ left' = IF TakesItself(c) THEN left ELSE left \cup ({c} \cap ToSet(queue))
    BY <1>2 DEF Deletes, Happens
  <2>2. CASE ~TakesItself(c)
    <3>1. \A i \in DOMAIN queue : queue[i] \in ToSet(queue)
      BY DEF ToSet
    <3>2. \A i \in DOMAIN queue' : queue'[i] \in alive' \cup left'
      BY <1>b, <2>1, <2>2, <3>1
    <3> QED BY <1>a, <1>d, <2>1, <2>2, <3>2
  <2>3. CASE TakesItself(c)
    <3>1. /\ OnceEach(queue')
          /\ \A i \in DOMAIN queue' :
               queue'[i] # c /\ \E j \in DOMAIN queue : queue[j] = queue'[i]
      BY <1>a, <2>1, <2>3, UnqueuedFacts
    <3>2. \A i \in DOMAIN queue' : queue'[i] \in alive' \cup left'
      BY <1>b, <2>1, <2>3, <3>1
    <3> QED BY <1>d, <2>1, <3>1, <3>2
  <2> QED BY <2>2, <2>3
<1>3. ASSUME DrawsNext PROVE QueueInv'
  <2> DEFINE c == CHOOSE c \in todraw : TRUE
  <2>1. /\ alive' = alive /\ left' = left /\ pc' = pc
        /\ queue' = (IF c \in Scalars THEN Unqueued(queue, c) ELSE queue)
    BY <1>3 DEF DrawsNext
  <2> HIDE DEF c
  <2>2. CASE c \notin Scalars
    BY <1>c, <2>1, <2>2
  <2>3. CASE c \in Scalars
    <3>1. /\ OnceEach(queue')
          /\ \A i \in DOMAIN queue' :
               queue'[i] # c /\ \E j \in DOMAIN queue : queue[j] = queue'[i]
      BY <1>a, <2>1, <2>3, UnqueuedFacts
    <3>2. \A i \in DOMAIN queue' : queue'[i] \in alive' \cup left'
      BY <1>b, <2>1, <3>1
    <3> QED BY <1>d, <2>1, <3>1, <3>2
  <2> QED BY <2>2, <2>3
<1>4. ASSUME Serves PROVE QueueInv'
  <2>1. queue # <<>> /\ queue' = Tail(queue) /\ alive' = alive /\ left' = left
    BY <1>4 DEF Serves
  <2>2. /\ Len(queue) \in Nat \ {0} /\ DOMAIN queue = 1..Len(queue)
        /\ DOMAIN queue' = 1..(Len(queue) - 1)
        /\ \A i \in 1..(Len(queue) - 1) : queue'[i] = queue[i + 1]
    BY <1>a, <2>1, TailFacts
  <2>3. \A i \in 1..(Len(queue) - 1) : i + 1 \in 1..Len(queue)
    BY <2>2
  <2>4. OnceEach(queue')
    <3> SUFFICES ASSUME NEW i \in 1..(Len(queue) - 1), NEW j \in 1..(Len(queue) - 1),
                        queue'[i] = queue'[j]
                 PROVE  i = j
      BY <2>2 DEF OnceEach
    <3>1. queue[i + 1] = queue[j + 1]
      BY <2>2
    <3>2. i + 1 = j + 1
      BY <1>a, <2>2, <2>3, <3>1 DEF OnceEach
    <3> QED BY <2>2, <3>2
  <2>5. \A i \in DOMAIN queue' : queue'[i] \in alive' \cup left'
    BY <1>b, <2>1, <2>2, <2>3
  <2>6. pc' = "crashed" => left' # {}
    <3>1. Head(queue) = queue[1] /\ queue[1] \in alive \cup left
      BY <1>a, <1>b, <2>1, <2>2
    <3>2. pc' = "crashed" => Head(queue) \notin alive
      BY <1>4 DEF Serves
    <3> QED BY <2>1, <3>1, <3>2
  <2> QED BY <2>4, <2>5, <2>6 DEF QueueInv, QueuedAreAlive
<1>5. ASSUME NEW c \in Widgets, Creates(c) PROVE QueueInv'
  BY <1>c, <1>5 DEF Creates, Happens
<1>6. ASSUME NEW n \in Sizes, Prints(n) \/ Pretends(n) \/ Hides(n) \/ StopGui(n)
      PROVE  QueueInv'
  BY <1>c, <1>6 DEF Prints, Pretends, Hides, StopGui, Happens
<1>7. ASSUME Shows \/ StartGui \/ Polls \/ HasDrawn \/ Pings PROVE QueueInv'
  BY <1>c, <1>7 DEF Shows, StartGui, Polls, HasDrawn, Pings, Happens
<1>8. ASSUME HasServed \/ SendsIt \/ PingArrives \/ GuiReads \/ UNCHANGED vars
      PROVE  QueueInv'
  BY <1>c, <1>8 DEF HasServed, SendsIt, PingArrives, GuiReads, vars
<1> QED
  <2>1. CASE Event
    BY <2>1, <1>1, <1>2, <1>5, <1>6, <1>7 DEF Event
  <2>2. CASE Inside
    BY <2>2, <1>3, <1>4, <1>7, <1>8 DEF Inside
  <2> QED BY <2>1, <2>2, <1>7, <1>8 DEF Next

-------------------------------------------------------------------------------
(* The bytes of a stream.                                                   *)

Extends(s, t, n) ==
  /\ n \in Nat /\ DOMAIN s = 1..n /\ DOMAIN t = 1..(n + 1)
  /\ \A i \in 1..n : t[i] = s[i]
Forgets(s, t, n, m, d) ==
  /\ n \in Nat /\ m \in Nat /\ d \in Nat /\ DOMAIN s = 1..n /\ DOMAIN t = 1..m
  /\ \A i \in 1..m : Bytes(t[i]) = 0 \/ (i + d \in 1..n /\ t[i] = s[i + d])
BytesOf(s) == UNION {{i} \X (1..Bytes(s[i])) : i \in DOMAIN s}
NoMoreBytes(s, t) ==
  IsFiniteSet(BytesOf(s)) =>
    IsFiniteSet(BytesOf(t)) /\ Cardinality(BytesOf(t)) <= Cardinality(BytesOf(s))

LEMMA FewerBytes ==
  ASSUME NEW s, NEW t, NEW n, NEW m, NEW d, Forgets(s, t, n, m, d)
  PROVE  NoMoreBytes(s, t)
<1> SUFFICES ASSUME IsFiniteSet(BytesOf(s))
             PROVE  /\ IsFiniteSet(BytesOf(t))
                    /\ Cardinality(BytesOf(t)) <= Cardinality(BytesOf(s))
  BY DEF NoMoreBytes
<1> DEFINE S == BytesOf(s)
           T == BytesOf(t)
           f == [x \in T |-> <<x[1] + d, x[2]>>]
<1>1. /\ n \in Nat /\ m \in Nat /\ d \in Nat /\ DOMAIN s = 1..n /\ DOMAIN t = 1..m
      /\ \A i \in 1..m : Bytes(t[i]) = 0 \/ (i + d \in 1..n /\ t[i] = s[i + d])
  BY DEF Forgets
<1>2. ASSUME NEW x \in T
      PROVE  x = <<x[1], x[2]>> /\ x[1] \in 1..m /\ <<x[1] + d, x[2]>> \in S
  <2>1. PICK i \in 1..m : x \in {i} \X (1..Bytes(t[i]))
    BY <1>1 DEF BytesOf
  <2>2. x = <<i, x[2]>> /\ x[1] = i /\ x[2] \in 1..Bytes(t[i])
    BY <2>1
  <2>3. i + d \in 1..n /\ t[i] = s[i + d]
    <3>1. Bytes(t[i]) # 0
      BY <2>2
    <3> QED BY <1>1, <3>1
  <2>4. <<i + d, x[2]>> \in {i + d} \X (1..Bytes(s[i + d]))
    BY <2>2, <2>3
  <2> QED BY <1>1, <2>2, <2>3, <2>4 DEF BytesOf
<1> HIDE DEF S, T
<1>3. f \in [T -> S]
  BY <1>2
<1>4. ASSUME NEW x \in T, NEW y \in T, f[x] = f[y] PROVE x = y
  <2>1. <<x[1] + d, x[2]>> = <<y[1] + d, y[2]>>
    BY <1>4
  <2>2. x[1] + d = y[1] + d /\ x[2] = y[2]
    BY <2>1
  <2>3. x[1] = y[1]
    <3> DEFINE a == x[1]
               b == y[1]
    <3>1. a \in 1..m /\ b \in 1..m
      BY <1>2
    <3>2. a + d = b + d
      BY <2>2
    <3> HIDE DEF a, b
    <3>3. a = b
      BY <1>1, <3>1, <3>2
    <3> QED BY <3>3 DEF a, b
  <2> QED BY <1>2, <2>2, <2>3
<1>5. f \in Injection(T, S)
  BY <1>3, <1>4 DEF Injection, IsInjective
<1> HIDE DEF f
<1>6. IsFiniteSet(S)
  BY DEF S
<1>7. IsFiniteSet(T) /\ Cardinality(T) <= Cardinality(S)
  BY <1>5, <1>6, FS_Injection
<1> QED BY <1>7 DEF S, T

LEMMA SameBytes == \A s : NoMoreBytes(s, s)
<1> SUFFICES ASSUME NEW s, IsFiniteSet(BytesOf(s))
             PROVE  Cardinality(BytesOf(s)) <= Cardinality(BytesOf(s))
  BY DEF NoMoreBytes
<1>1. Cardinality(BytesOf(s)) \in Nat
  BY FS_CardinalityType
<1> QED BY <1>1

LEMMA MoreBytes ==
  ASSUME NEW s, NEW t, NEW n, NEW k \in Nat, Extends(s, t, n),
         Bytes(t[n + 1]) = k, IsFiniteSet(BytesOf(s))
  PROVE  /\ IsFiniteSet(BytesOf(t))
         /\ Cardinality(BytesOf(t)) <= Cardinality(BytesOf(s)) + k
<1> DEFINE S == BytesOf(s)
           N == {n + 1} \X (1..k)
<1>1. /\ n \in Nat /\ DOMAIN s = 1..n /\ DOMAIN t = 1..(n + 1)
      /\ \A i \in 1..n : t[i] = s[i]
  BY DEF Extends
<1>2. BytesOf(t) = S \cup N
  <2>1. ASSUME NEW x \in BytesOf(t) PROVE x \in S \cup N
    <3>1. PICK i \in 1..(n + 1) : x \in {i} \X (1..Bytes(t[i]))
      BY <1>1 DEF BytesOf
    <3>2. CASE i = n + 1
      BY <3>1, <3>2
    <3>3. CASE i # n + 1
      <4>1. i \in 1..n
        BY <1>1, <3>3
      <4>2. x \in {i} \X (1..Bytes(s[i]))
        BY <1>1, <3>1, <4>1
      <4> QED BY <1>1, <4>1, <4>2 DEF BytesOf
    <3> QED BY <3>2, <3>3
  <2>2. ASSUME NEW x \in S PROVE x \in BytesOf(t)
    <3>1. PICK i \in 1..n : x \in {i} \X (1..Bytes(s[i]))
      BY <1>1 DEF BytesOf
    <3>2. i \in 1..(n + 1) /\ x \in {i} \X (1..Bytes(t[i]))
      BY <1>1, <3>1
    <3> QED BY <1>1, <3>2 DEF BytesOf
  <2>3. ASSUME NEW x \in N PROVE x \in BytesOf(t)
    <3>1. n + 1 \in 1..(n + 1) /\ x \in {n + 1} \X (1..Bytes(t[n + 1]))
      BY <1>1
    <3> QED BY <1>1, <3>1 DEF BytesOf
  <2> HIDE DEF S, N
  <2> QED BY <2>1, <2>2, <2>3
<1>3. IsFiniteSet(N) /\ Cardinality(N) = k
  <2>1. IsFiniteSet(1..k) /\ Cardinality(1..k) = k
    BY FS_Interval
  <2> DEFINE A == {n + 1}
             B == 1..k
  <2>2. IsFiniteSet(A) /\ Cardinality(A) = 1
    BY FS_Singleton
  <2> HIDE DEF A, B
  <2>3. IsFiniteSet(B) /\ Cardinality(B) = k
    BY <2>1 DEF B
  <2>4. IsFiniteSet(A \X B) /\ Cardinality(A \X B) = Cardinality(A) * Cardinality(B)
    BY <2>2, <2>3, FS_Product
  <2>5. Cardinality(A \X B) = 1 * k
    BY <2>2, <2>3, <2>4, Zenon
  <2>6. 1 * k = k
    OBVIOUS
  <2> QED BY <2>4, <2>5, <2>6 DEF A, B
<1> HIDE DEF S, N
<1>4. IsFiniteSet(S)
  BY DEF S
<1>5. /\ IsFiniteSet(S \cup N)
      /\ Cardinality(S \cup N) = Cardinality(S) + Cardinality(N) - Cardinality(S \cap N)
  BY <1>3, <1>4, FS_Union
<1>6. Cardinality(S) \in Nat /\ Cardinality(S \cap N) \in Nat
  BY <1>4, FS_Intersection, FS_CardinalityType
<1>7. Cardinality(S \cup N) <= Cardinality(S) + k
  BY <1>3, <1>5, <1>6
<1> QED BY <1>2, <1>5, <1>7 DEF S

LEMMA NothingUnread ==
  ASSUME \A i \in DOMAIN stream : stream[i].kind # "update"
  PROVE  IsFiniteSet(UnreadBytes) /\ Unread = 0
<1>1. \A i \in DOMAIN stream : 1..Bytes(stream[i]) = {}
  BY DEF Bytes
<1>2. UnreadBytes = {}
  BY <1>1 DEF UnreadBytes
<1> QED BY <1>2, FS_EmptySet DEF Unread

-------------------------------------------------------------------------------
(* The flow control.  It is kept by whatever sends nothing but messages of  *)
(* its own, forgets the beginning of the stream, and lets Pd wait on.       *)
LEMMA FlowKept ==
  ASSUME FlowInv, waiting' = waiting, pc' = "flush" => pc = "flush" \/ ~waiting,
         answers' \in {answers, 0},
         NEW n \in Nat, NEW m \in Nat, NEW d \in Nat,
         DOMAIN stream = 1..n, DOMAIN stream' = 1..m,
         \A i \in 1..m : \/ stream'[i].kind = "direct"
                         \/ i + d \in 1..n /\ stream'[i] = stream[i + d]
  PROVE  FlowInv' /\ NoMoreBytes(stream, stream')
<1> DEFINE old(i) == stream[i].kind
           new(i) == stream'[i].kind
<1>1. \A i \in 1..m : new(i) = "direct" \/ (i + d \in 1..n /\ new(i) = old(i + d))
  OBVIOUS
<1>2. /\ pc = "flush" => ~waiting
      /\ answers \in {0, 1}
      /\ answers = 1 => waiting /\ \A i \in 1..n : old(i) # "ping"
      /\ \A i \in 1..n : old(i) = "ping" => waiting
      /\ \A i, j \in 1..n : old(i) = "ping" /\ old(j) = "ping" => i = j
      /\ \A i, j \in 1..n : old(i) = "ping" /\ i < j => old(j) # "update"
      /\ answers > 0 => \A i \in 1..n : old(i) # "update"
  BY DEF FlowInv, IsPing, UpdatesWait
<1> HIDE DEF old, new
<1>3. \A i \in 1..m : new(i) = "ping" \/ new(i) = "update" =>
                        i + d \in 1..n /\ old(i + d) = new(i)
  BY <1>1
<1>4. /\ pc' = "flush" => ~waiting'
      /\ answers' \in {0, 1}
      /\ answers' = 1 => answers = 1
      /\ answers' > 0 => answers > 0
  BY <1>2
<1>5. /\ answers' = 1 => waiting' /\ \A i \in 1..m : new(i) # "ping"
      /\ \A i \in 1..m : new(i) = "ping" => waiting'
  BY <1>2, <1>3, <1>4
<1>6. \A i, j \in 1..m : new(i) = "ping" /\ new(j) = "ping" => i = j
  <2> SUFFICES ASSUME NEW i \in 1..m, NEW j \in 1..m, new(i) = "ping", new(j) = "ping"
               PROVE  i = j
    OBVIOUS
  <2>1. i + d = j + d
    BY <1>2, <1>3
  <2> QED BY <2>1
<1>7. \A i, j \in 1..m : new(i) = "ping" /\ i < j => new(j) # "update"
  <2> SUFFICES ASSUME NEW i \in 1..m, NEW j \in 1..m,
                      new(i) = "ping", new(j) = "update", i < j
               PROVE  FALSE
    OBVIOUS
  <2>1. i + d < j + d
    OBVIOUS
  <2> QED BY <1>2, <1>3, <2>1
<1>8. answers' > 0 => \A i \in 1..m : new(i) # "update"
  BY <1>2, <1>3, <1>4
<1>9. \A i \in 1..m : IsPing(i)' <=> new(i) = "ping"
  BY DEF IsPing, new
<1>10. FlowInv'
  BY <1>4, <1>5, <1>6, <1>7, <1>8, <1>9 DEF FlowInv, UpdatesWait, new
<1>11. Forgets(stream, stream', n, m, d)
  <2>1. \A i \in 1..m : \/ Bytes(stream'[i]) = 0
                        \/ i + d \in 1..n /\ stream'[i] = stream[i + d]
    BY DEF Bytes
  <2> QED BY <2>1 DEF Forgets
<1> QED BY <1>10, <1>11, FewerBytes

(* Something sent by the way changes nothing.                               *)
LEMMA DirectKept ==
  ASSUME TypeOK, FlowInv, NEW S \in SUBSET Widgets, NEW k, Sends(S, k),
         waiting' = waiting, pc' = "flush" => pc = "flush",
         answers' = answers, sock' = sock
  PROVE  FlowInv' /\ NoMoreBytes(stream, stream')
<1> DEFINE m == Message("direct", S)
           n == Len(sock) + Len(buf)
<1>1. m \in Messages /\ m.kind = "direct"
  BY IsMessage DEF TypeOK
<1> DEFINE M == Messages
<1>2. sock \in Seq(M) /\ buf \in Seq(M) /\ m \in M
  BY <1>1 DEF TypeOK
<1>3. buf' = IF havegui THEN Append(buf, m) ELSE buf
  BY DEF Sends
<1> HIDE DEF m, M
<1>4. /\ n \in Nat /\ DOMAIN (sock \o buf) = 1..n
      /\ DOMAIN (sock \o Append(buf, m)) = 1..(n + 1)
      /\ (sock \o Append(buf, m))[n + 1] = m
      /\ \A i \in 1..n : (sock \o Append(buf, m))[i] = (sock \o buf)[i]
  BY <1>2, StreamGrows
<1> HIDE DEF n
<1>5. CASE havegui
  <2>1. stream = sock \o buf /\ stream' = sock \o Append(buf, m)
    BY <1>3, <1>5 DEF stream
  <2>2. \A i \in 1..(n + 1) : i = n + 1 \/ i \in 1..n
    BY <1>4
  <2>3. \A i \in 1..(n + 1) : \/ stream'[i].kind = "direct"
                              \/ i + 0 \in 1..n /\ stream'[i] = stream[i + 0]
    BY <1>1, <1>4, <2>1, <2>2
  <2>4. n + 1 \in Nat /\ DOMAIN stream = 1..n /\ DOMAIN stream' = 1..(n + 1)
    BY <1>4, <2>1
  <2> HIDE DEF FlowInv
  <2> QED BY <1>4, <2>3, <2>4, FlowKept
<1>6. CASE ~havegui
  <2>1. stream' = stream /\ DOMAIN stream = 1..n
    BY <1>3, <1>4, <1>6 DEF stream
  <2>2. \A i \in 1..n : \/ stream'[i].kind = "direct"
                        \/ i + 0 \in 1..n /\ stream'[i] = stream[i + 0]
    BY <1>4, <2>1
  <2> QED BY ZenonT(30), <1>4, <2>1, <2>2, FlowKept
<1> QED BY <1>5, <1>6

LEMMA UnchangedKept ==
  ASSUME TypeOK, FlowInv, stream' = stream,
         waiting' = waiting, pc' = "flush" => pc = "flush" \/ ~waiting, answers' = answers
  PROVE  FlowInv' /\ NoMoreBytes(stream, stream')
<1> DEFINE M == Messages
           n == Len(sock) + Len(buf)
<1>1. sock \in Seq(M) /\ buf \in Seq(M)
  BY DEF TypeOK
<1> HIDE DEF M
<1>2. n \in Nat /\ DOMAIN stream = 1..n
  BY <1>1, StreamIs DEF stream
<1> HIDE DEF n
<1>3. \A i \in 1..n : \/ stream'[i].kind = "direct"
                      \/ i + 0 \in 1..n /\ stream'[i] = stream[i + 0]
  BY <1>2
<1> QED BY <1>2, <1>3, FlowKept

(* Pd asks the GUI: nothing else is on its way, since it is not waiting.    *)
LEMMA PingsKeep ==
  TypeOK /\ FlowInv /\ Pings => FlowInv' /\ NoMoreBytes(stream, stream')
<1> SUFFICES ASSUME TypeOK, FlowInv, Pings
             PROVE  FlowInv' /\ NoMoreBytes(stream, stream')
  OBVIOUS
<1> DEFINE M == Messages
           n == Len(sock) + Len(buf)
<1>1. Ping \in M /\ Ping.kind = "ping" /\ sock \in Seq(M) /\ buf \in Seq(M)
  BY IsMessage DEF TypeOK, Ping
<1> HIDE DEF M
<1>2. /\ n \in Nat /\ DOMAIN (sock \o buf) = 1..n
      /\ DOMAIN (sock \o Append(buf, Ping)) = 1..(n + 1)
      /\ (sock \o Append(buf, Ping))[n + 1] = Ping
      /\ \A i \in 1..n : (sock \o Append(buf, Ping))[i] = (sock \o buf)[i]
  BY <1>1, StreamGrows
<1>3. stream = sock \o buf /\ stream' = sock \o Append(buf, Ping)
  BY DEF Pings, link, stream
<1> HIDE DEF n
<1>4. /\ n \in Nat /\ DOMAIN stream = 1..n /\ DOMAIN stream' = 1..(n + 1)
      /\ stream'[n + 1].kind = "ping" /\ \A i \in 1..n : stream'[i] = stream[i]
  BY <1>1, <1>2, <1>3
<1>5. waiting' /\ pc' = "idle" /\ answers' = answers
  BY DEF Pings, link
<1>6. answers = 0 /\ \A i \in 1..n : stream[i].kind # "ping"
  <2>1. ~waiting
    BY DEF Pings, FlowInv
  <2> QED BY <1>4, <2>1 DEF FlowInv, IsPing
<1>7. \A i \in 1..(n + 1) : stream'[i].kind = "ping" => i = n + 1
  <2>1. \A i \in 1..(n + 1) : i = n + 1 \/ i \in 1..n
    BY <1>4
  <2> QED BY <1>4, <1>6, <2>1
<1>8. \A i \in DOMAIN stream' : IsPing(i)' => i = n + 1
  BY <1>4, <1>7 DEF IsPing
<1>9. UpdatesWait'
  <2>1. \A i, j \in 1..(n + 1) : stream'[i].kind = "ping" /\ i < j => FALSE
    BY <1>4, <1>7
  <2>2. ~(answers' > 0)
    BY <1>5, <1>6
  <2> QED BY <1>4, <2>1, <2>2 DEF UpdatesWait
<1>10. FlowInv'
  BY <1>5, <1>6, <1>8, <1>9 DEF FlowInv
<1>11. Forgets(stream, stream', n, n + 1, 0)
  <2>1. \A i \in 1..(n + 1) : i = n + 1 \/ (i + 0 \in 1..n /\ i + 0 = i)
    BY <1>4
  <2>2. Bytes(stream'[n + 1]) = 0
    BY <1>4 DEF Bytes
  <2> QED BY <1>4, <2>1, <2>2 DEF Forgets
<1> QED BY <1>10, <1>11, FewerBytes

(* Drawing from the queue: no ping is on its way, for the same reason.      *)
LEMMA ServesKeep == TypeOK /\ FlowInv /\ Serves => FlowInv'
<1> SUFFICES ASSUME TypeOK, FlowInv, Serves PROVE FlowInv'
  OBVIOUS
<1>1. ~waiting /\ waiting' = waiting /\ answers' = answers /\ sock' = sock /\ pc = "flush"
  BY DEF Serves, FlowInv, link
<1>2. CASE ~mapped
  BY <1>1, <1>2, UnchangedKept DEF Serves, stream
<1>3. CASE mapped
  <2> DEFINE M == Messages
             m == Message("update", {Head(queue)})
             n == Len(sock) + Len(buf)
  <2>1. m \in M /\ m.kind = "update" /\ sock \in Seq(M) /\ buf \in Seq(M)
    <3>1. queue \in Seq(Widgets) /\ queue # <<>>
      BY DEF TypeOK, Serves
    <3>2. {Head(queue)} \in SUBSET Widgets
      BY <3>1, TailFacts
    <3> QED BY <3>2, IsMessage DEF TypeOK
  <2>2. buf' = Append(buf, m)
    BY <1>3 DEF Serves
  <2> HIDE DEF M, m
  <2>3. /\ n \in Nat /\ DOMAIN (sock \o buf) = 1..n
        /\ DOMAIN (sock \o Append(buf, m)) = 1..(n + 1)
        /\ (sock \o Append(buf, m))[n + 1] = m
        /\ \A i \in 1..n : (sock \o Append(buf, m))[i] = (sock \o buf)[i]
    BY <2>1, StreamGrows
  <2>4. stream = sock \o buf /\ stream' = sock \o Append(buf, m)
    BY <1>1, <2>2 DEF stream
  <2> HIDE DEF n
  <2>5. /\ n \in Nat /\ DOMAIN stream = 1..n /\ DOMAIN stream' = 1..(n + 1)
        /\ stream'[n + 1].kind = "update" /\ \A i \in 1..n : stream'[i] = stream[i]
    BY <2>1, <2>3, <2>4
  <2>6. answers = 0 /\ \A i \in 1..n : stream[i].kind # "ping"
    BY <1>1, <2>5 DEF FlowInv, IsPing
  <2>7. \A i \in 1..(n + 1) : stream'[i].kind # "ping"
    <3>1. \A i \in 1..(n + 1) : i = n + 1 \/ i \in 1..n
      BY <2>5
    <3> QED BY <2>5, <2>6, <3>1
  <2>8. \A i \in DOMAIN stream' : ~IsPing(i)'
    BY <2>5, <2>7 DEF IsPing
  <2>9. UpdatesWait'
    <3>1. ~(answers' > 0)
      BY <1>1, <2>6
    <3> QED BY <2>5, <2>7, <3>1 DEF UpdatesWait
  <2> QED BY <1>1, <2>6, <2>8, <2>9 DEF FlowInv
<1> QED BY <1>2, <1>3

(* The GUI reads: a ping, and then its answer is on the way, behind which   *)
(* nothing is drawn; or anything else.                                      *)
LEMMA ReadsKeep ==
  TypeOK /\ FlowInv /\ GuiReads => FlowInv' /\ NoMoreBytes(stream, stream')
<1> SUFFICES ASSUME TypeOK, FlowInv, GuiReads
             PROVE  FlowInv' /\ NoMoreBytes(stream, stream')
  OBVIOUS
<1> DEFINE M == Messages
           n == Len(sock) + Len(buf)
<1>1. sock \in Seq(M) /\ buf \in Seq(M) /\ sock # <<>>
  BY DEF TypeOK, GuiReads
<1> HIDE DEF M
<1>2. /\ n \in Nat \ {0} /\ DOMAIN (sock \o buf) = 1..n
      /\ DOMAIN (Tail(sock) \o buf) = 1..(n - 1)
      /\ (sock \o buf)[1] = Head(sock)
      /\ \A i \in 1..(n - 1) : (Tail(sock) \o buf)[i] = (sock \o buf)[i + 1]
  BY <1>1, StreamShrinks
<1>3. stream = sock \o buf /\ stream' = Tail(sock) \o buf
  BY DEF GuiReads, stream
<1> HIDE DEF n
<1>4. /\ n \in Nat \ {0} /\ DOMAIN stream = 1..n /\ DOMAIN stream' = 1..(n - 1)
      /\ stream[1] = Head(sock) /\ \A i \in 1..(n - 1) : stream'[i] = stream[i + 1]
  BY <1>2, <1>3
<1>5. waiting' = waiting /\ pc' = pc
  BY DEF GuiReads, poll
<1>6. CASE Head(sock).kind # "ping"
  <2>1. answers' = answers
    BY <1>6 DEF GuiReads
  <2>2. \A i \in 1..(n - 1) : \/ stream'[i].kind = "direct"
                              \/ i + 1 \in 1..n /\ stream'[i] = stream[i + 1]
    BY <1>4
  <2>3. n \in Nat /\ n - 1 \in Nat /\ 1 \in Nat
    BY <1>4
  <2> QED BY <1>4, <1>5, <2>1, <2>2, <2>3, FlowKept
<1>7. CASE Head(sock).kind = "ping"
  <2>1. 1 \in 1..n /\ IsPing(1)
    BY <1>4, <1>7 DEF IsPing
  <2>2. waiting /\ answers = 0 /\ answers' = 1
    BY <1>4, <1>7, <2>1 DEF FlowInv, GuiReads
  <2>3. \A i \in 1..(n - 1) : i + 1 \in 1..n /\ i + 1 # 1 /\ 1 < i + 1
    BY <1>4
  <2>4. \A i \in 1..(n - 1) : stream'[i].kind # "ping"
    BY <1>4, <2>1, <2>3 DEF FlowInv, IsPing
  <2>5. \A i \in 1..(n - 1) : stream'[i].kind # "update"
    <3>1. \A j \in 1..n : 1 < j => stream[j].kind # "update"
      BY <1>4, <2>1 DEF FlowInv, UpdatesWait, IsPing
    <3> QED BY <1>4, <2>3, <3>1
  <2>6. \A i \in DOMAIN stream' : ~IsPing(i)'
    BY <1>4, <2>4 DEF IsPing
  <2>7. UpdatesWait'
    BY <1>4, <2>4, <2>5 DEF UpdatesWait
  <2>8. waiting' /\ (pc' = "flush" => ~waiting')
    BY <1>5, <2>2 DEF FlowInv
  <2>9. FlowInv'
    BY <2>2, <2>6, <2>7, <2>8 DEF FlowInv
  <2>10. Forgets(stream, stream', n, n - 1, 1)
    BY <1>4, <2>3 DEF Forgets
  <2> QED BY <2>9, <2>10, FewerBytes
<1> QED BY <1>6, <1>7

(* libpd_stop_gui forgets what the GUI has not read, and any answer; what   *)
(* is in the buffer stays.                                                  *)
LEMMA StopKeeps ==
  ASSUME TypeOK, FlowInv, NEW k, StopGui(k)
  PROVE  FlowInv' /\ NoMoreBytes(stream, stream')
<1> DEFINE m == Message("direct", {})
           b == Append(buf, m)
           n == Len(sock) + Len(buf)
<1>1. m \in Messages /\ m.kind = "direct"
  BY IsMessage DEF TypeOK
<1> DEFINE M == Messages
<1>2. sock \in Seq(M) /\ buf \in Seq(M) /\ m \in M
  BY <1>1 DEF TypeOK
<1>3. sock' = <<>> /\ answers' = 0 /\ waiting' = waiting /\ pc' = pc
      /\ buf' = b
  BY DEF StopGui, Sends, poll
<1> HIDE DEF m, M
<1>4. /\ Len(sock) \in Nat /\ Len(buf) \in Nat /\ DOMAIN (sock \o buf) = 1..n
      /\ \A i \in 1..n :
           (sock \o buf)[i] = IF i <= Len(sock) THEN sock[i] ELSE buf[i - Len(sock)]
  BY <1>2, StreamIs
<1>5. /\ b \in Seq(M) /\ Len(b) = Len(buf) + 1 /\ b[Len(buf) + 1] = m
      /\ \A i \in 1..Len(buf) : b[i] = buf[i]
  BY <1>2, AppendProperties
<1> HIDE DEF b
<1>6. stream = sock \o buf /\ stream' = b
  <2>1. <<>> \o b = b
    BY <1>5, ConcatEmptySeq
  <2> QED BY <1>3, <2>1 DEF stream
<1>7. \A i \in 1..(Len(buf) + 1) : \/ stream'[i].kind = "direct"
                                   \/ i + Len(sock) \in 1..n /\ stream'[i] = stream[i + Len(sock)]
  <2> SUFFICES ASSUME NEW i \in 1..(Len(buf) + 1), i # Len(buf) + 1
               PROVE  i + Len(sock) \in 1..n /\ stream'[i] = stream[i + Len(sock)]
    BY <1>1, <1>5, <1>6
  <2>1. /\ i \in 1..Len(buf) /\ i + Len(sock) \in 1..n
        /\ ~(i + Len(sock) <= Len(sock)) /\ i + Len(sock) - Len(sock) = i
    BY <1>4
  <2>2. (sock \o buf)[i + Len(sock)] = buf[i]
    BY <1>4, <2>1
  <2>3. b[i] = buf[i]
    BY <1>5, <2>1
  <2> QED BY <1>6, <2>1, <2>2, <2>3, Zenon
<1>8. n \in Nat /\ Len(buf) + 1 \in Nat /\ Len(sock) \in Nat
  BY <1>4
<1>9. DOMAIN stream = 1..n
  BY <1>4, <1>6
<1>10. DOMAIN stream' = 1..(Len(buf) + 1)
  <2>1. DOMAIN b = 1..Len(b)
    BY <1>5, LenProperties, ZenonT(20)
  <2> QED BY <1>5, <1>6, <2>1, Zenon
<1> HIDE DEF n
<1> QED BY <1>3, <1>7, <1>8, <1>9, <1>10, FlowKept

(* libpd_start_gui starts with an empty buffer.                             *)
LEMMA StartKeeps ==
  TypeOK /\ FlowInv /\ StartGui => FlowInv' /\ NoMoreBytes(stream, stream')
<1> SUFFICES ASSUME TypeOK, FlowInv, StartGui
             PROVE  FlowInv' /\ NoMoreBytes(stream, stream')
  OBVIOUS
<1> DEFINE M == Messages
           n == Len(sock) + Len(buf)
<1>1. sock \in Seq(M) /\ buf \in Seq(M)
  BY DEF TypeOK
<1> HIDE DEF M
<1>2. /\ Len(sock) \in Nat /\ Len(buf) \in Nat /\ DOMAIN (sock \o buf) = 1..n
      /\ DOMAIN sock = 1..Len(sock)
      /\ \A i \in 1..n :
           (sock \o buf)[i] = IF i <= Len(sock) THEN sock[i] ELSE buf[i - Len(sock)]
  BY <1>1, StreamIs, LenProperties
<1>3. waiting' = waiting /\ pc' = pc /\ answers' = answers /\ stream = sock \o buf
  BY DEF StartGui, poll, stream
<1>4. stream' = sock
  <2>1. sock \o <<>> = sock
    BY <1>1, ConcatEmptySeq
  <2> QED BY <2>1 DEF StartGui, stream
<1>5. \A i \in 1..Len(sock) : \/ stream'[i].kind = "direct"
                              \/ i + 0 \in 1..n /\ stream'[i] = stream[i + 0]
  <2>1. \A i \in 1..Len(sock) : i + 0 = i /\ i \in 1..n /\ i <= Len(sock)
    BY <1>2
  <2> QED BY <1>2, <1>3, <1>4, <2>1
<1>6. n \in Nat /\ 0 \in Nat
  BY <1>2
<1> HIDE DEF n
<1> QED BY <1>2, <1>3, <1>4, <1>5, <1>6, FlowKept

(* The answer arrives: it was the only one, and there is no ping behind it. *)
LEMMA ArrivesKeeps ==
  TypeOK /\ FlowInv /\ PingArrives => FlowInv' /\ NoMoreBytes(stream, stream')
<1> SUFFICES ASSUME TypeOK, FlowInv, PingArrives
             PROVE  FlowInv' /\ NoMoreBytes(stream, stream')
  OBVIOUS
<1>1. stream' = stream /\ pc' # "flush"
  BY DEF PingArrives, poll, stream
<1>2. answers = 1 /\ answers' = 0
  BY DEF PingArrives, FlowInv
<1>3. \A i \in DOMAIN stream : stream[i].kind # "ping"
  BY <1>2 DEF FlowInv, IsPing
<1>4. \A i \in DOMAIN stream' : ~IsPing(i)'
  BY <1>1, <1>3 DEF IsPing
<1>5. UpdatesWait'
  BY <1>1, <1>2, <1>3 DEF UpdatesWait
<1>6. NoMoreBytes(stream, stream')
  BY <1>1, SameBytes, Zenon
<1> QED BY <1>1, <1>2, <1>4, <1>5, <1>6 DEF FlowInv

LEMMA FlowStep ==
  TypeOK /\ FlowInv /\ [Next]_vars =>
    FlowInv' /\ (Serves \/ NoMoreBytes(stream, stream'))
<1> SUFFICES ASSUME TypeOK, FlowInv, [Next]_vars
             PROVE  FlowInv' /\ (Serves \/ NoMoreBytes(stream, stream'))
  OBVIOUS
<1> USE DEF poll, link, patch
<1> DEFINE Kept == FlowInv' /\ NoMoreBytes(stream, stream')
<1>a. {} \in SUBSET Widgets /\ todraw \subseteq Widgets
  BY DEF TypeOK
<1>1. ASSUME NEW c \in Widgets, Changes(c) PROVE Kept
  BY <1>1, UnchangedKept DEF Changes, stream
<1>2. ASSUME NEW c \in Widgets, Creates(c) PROVE Kept
  <2>1. CASE mapped
    BY <1>2, <2>1, DirectKept DEF Creates
  <2>2. CASE ~mapped
    BY <1>2, <2>2, UnchangedKept DEF Creates, stream
  <2> QED BY <2>1, <2>2
<1>3. ASSUME NEW n \in Sizes, Prints(n) PROVE Kept
  BY <1>a, <1>3, DirectKept DEF Prints
<1>4. ASSUME NEW n \in Sizes, Pretends(n) PROVE Kept
  BY <1>4, UnchangedKept DEF Pretends, stream
<1>5. ASSUME NEW n \in Sizes, Hides(n) PROVE Kept
  BY <1>a, <1>5, DirectKept DEF Hides
<1>6. ASSUME NEW c \in Widgets, NEW n \in Sizes, Deletes(c, n) PROVE Kept
  <2>1. CASE mapped
    BY <1>a, <1>6, <2>1, DirectKept DEF Deletes
  <2>2. CASE ~mapped
    BY <1>6, <2>2, UnchangedKept DEF Deletes, stream
  <2> QED BY <2>1, <2>2
<1>7. ASSUME Shows PROVE Kept
  BY <1>7, UnchangedKept DEF Shows, stream
<1>8. ASSUME Polls PROVE Kept
  <2>1. stream' = stream
    BY <1>8, FlushTypes DEF Polls
  <2>2. waiting' = waiting /\ answers' = answers /\ (pc' = "flush" => ~waiting)
    BY <1>8 DEF Polls, MayServe
  <2> QED BY <2>1, <2>2, UnchangedKept
<1>9. ASSUME DrawsNext PROVE Kept
  <2> DEFINE c == CHOOSE c \in todraw : TRUE
  <2>1. /\ {c} \in SUBSET Widgets /\ Sends({c}, DrawSize[c])
        /\ waiting' = waiting /\ answers' = answers /\ sock' = sock /\ pc' = pc
    BY <1>a, <1>9 DEF DrawsNext
  <2> HIDE DEF c
  <2> QED BY <2>1, DirectKept
<1>10. ASSUME SendsIt PROVE Kept
  <2>1. stream' = stream
    BY <1>10, FlushTypes DEF SendsIt
  <2> QED BY <1>10, <2>1, UnchangedKept DEF SendsIt
<1>11. ASSUME HasDrawn \/ HasServed \/ UNCHANGED vars PROVE Kept
  BY <1>11, UnchangedKept DEF HasDrawn, HasServed, vars, stream
<1> QED
  <2>1. CASE Event
    BY <2>1, <1>1, <1>2, <1>3, <1>4, <1>5, <1>6, <1>7, StopKeeps, StartKeeps DEF Event
  <2>2. CASE Inside
    BY <2>2, <1>9, <1>10, <1>11, PingsKeep, ServesKeep DEF Inside
  <2> QED BY <2>1, <2>2, <1>8, <1>11, ArrivesKeeps, ReadsKeep DEF Next

(* Only what is drawn from the queue is counted, and only while Pd waits for *)
(* no answer.                                                               *)
LEMMA CountedStep ==
  ASSUME TypeOK, FlowInv, [Next]_vars, ~waiting'
  PROVE  (~waiting /\ since <= since') \/ PingArrives
<1> USE DEF poll, link, patch
<1>0. /\ since \in Nat /\ \A n \in Sizes : n \in Nat
      /\ \A c \in Widgets : DrawSize[c] \in Nat
      /\ todraw \subseteq Widgets /\ queue \in Seq(Widgets)
  BY GuiAssumption, SizesAreNat DEF TypeOK
<1>a. ASSUME NEW S, NEW n \in Nat, Sends(S, n) PROVE since <= since'
  BY <1>0, <1>a DEF Sends
<1>1. ASSUME NEW c \in Widgets, Changes(c) \/ Creates(c)
      PROVE  ~waiting /\ since <= since'
  BY <1>0, <1>1, <1>a DEF Changes, Creates
<1>2. ASSUME NEW n \in Sizes, Prints(n) \/ Pretends(n) \/ Hides(n) \/ StopGui(n)
      PROVE  ~waiting /\ since <= since'
  BY <1>0, <1>2, <1>a DEF Prints, Pretends, Hides, StopGui
<1>3. ASSUME NEW c \in Widgets, NEW n \in Sizes, Deletes(c, n)
      PROVE  ~waiting /\ since <= since'
  BY <1>0, <1>3, <1>a DEF Deletes
<1>4. ASSUME Shows \/ StartGui \/ Polls \/ HasDrawn \/ HasServed \/ SendsIt \/ GuiReads
             \/ UNCHANGED vars
      PROVE  ~waiting /\ since <= since'
  BY <1>0, <1>4 DEF Shows, StartGui, Polls, HasDrawn, HasServed, SendsIt, GuiReads, vars
<1>5. ASSUME DrawsNext PROVE ~waiting /\ since <= since'
  <2> DEFINE c == CHOOSE c \in todraw : TRUE
  <2>1. c \in Widgets /\ Sends({c}, DrawSize[c]) /\ waiting' = waiting
    BY <1>0, <1>5 DEF DrawsNext
  <2> HIDE DEF c
  <2> QED BY <1>0, <1>a, <2>1
<1>6. ASSUME Serves PROVE ~waiting /\ since <= since'
  <2>1. Head(queue) \in Widgets
    BY <1>0, <1>6, TailFacts DEF Serves
  <2> QED BY <1>0, <1>6, <2>1 DEF Serves
<1>7. ~Pings
  BY DEF Pings
<1> QED
  <2>1. CASE Event
    BY <2>1, <1>1, <1>2, <1>3, <1>4 DEF Event
  <2>2. CASE Inside
    BY <2>2, <1>4, <1>5, <1>6, <1>7 DEF Inside
  <2> QED BY <2>1, <2>2, <1>4 DEF Next

LEMMA BytesStep ==
  TypeOK /\ QueueInv /\ FlowInv /\ BytesInv /\ [Next]_vars => BytesInv'
<1> SUFFICES ASSUME TypeOK, QueueInv, FlowInv, BytesInv, [Next]_vars
             PROVE  BytesInv'
  OBVIOUS
<1> DEFINE S == BytesOf(stream)
           T == BytesOf(stream')
<1>0. /\ UnreadBytes = S /\ UnreadBytes' = T
      /\ Unread = Cardinality(S) /\ Unread' = Cardinality(T)
  BY DEF UnreadBytes, Unread, BytesOf
<1> HIDE DEF S, T
<1>1. /\ IsFiniteSet(S) /\ Cardinality(S) \in Nat /\ since \in Nat /\ since' \in Nat
      /\ BytesPerPing \in Nat \ {0} /\ \A c \in Widgets : DrawSize[c] \in Nat \ {0}
      /\ ~waiting => Cardinality(S) <= since
      /\ Cardinality(S) = 0
           \/ \E c \in Widgets : Cardinality(S) < BytesPerPing + DrawSize[c]
  BY <1>0, FS_CardinalityType, GuiAssumption, SizesAreNat, TypeStep
     DEF BytesInv, UnreadIsBounded, TypeOK
<1> SUFFICES /\ IsFiniteSet(T) /\ (~waiting' => Cardinality(T) <= since')
             /\ Cardinality(T) = 0
                  \/ \E c \in Widgets : Cardinality(T) < BytesPerPing + DrawSize[c]
  BY <1>0 DEF BytesInv, UnreadIsBounded
<1>2. CASE NoMoreBytes(stream, stream')
  <2>1. IsFiniteSet(T) /\ Cardinality(T) <= Cardinality(S)
    BY <1>1, <1>2 DEF NoMoreBytes, S, T
  <2>2. Cardinality(T) \in Nat
    BY <2>1, FS_CardinalityType
  <2>3. ~waiting' => Cardinality(T) <= since'
    <3> HAVE ~waiting'
    <3>1. CASE ~waiting /\ since <= since'
      BY <1>1, <2>1, <2>2, <3>1
    <3>2. CASE PingArrives
      <4>1. answers > 0 /\ since' = since
        BY <3>2 DEF PingArrives
      <4>2. \A i \in DOMAIN stream : stream[i].kind # "update"
        BY <4>1 DEF FlowInv, UpdatesWait
      <4>3. Cardinality(S) = 0
        BY <1>0, <4>2, NothingUnread
      <4> QED BY <1>1, <2>1, <2>2, <4>1, <4>3
    <3> QED BY <3>1, <3>2, CountedStep
  <2>4. Cardinality(T) = 0
          \/ \E c \in Widgets : Cardinality(T) < BytesPerPing + DrawSize[c]
    <3>1. CASE Cardinality(S) = 0
      BY <2>1, <2>2, <3>1
    <3>2. ASSUME NEW c \in Widgets, Cardinality(S) < BytesPerPing + DrawSize[c]
          PROVE  Cardinality(T) < BytesPerPing + DrawSize[c]
      BY <1>1, <2>1, <2>2, <3>2
    <3> QED BY <1>1, <3>1, <3>2
  <2> QED BY <2>1, <2>3, <2>4
<1>3. CASE Serves
  <2> DEFINE h == Head(queue)
             m == Message("update", {h})
  <2>1. /\ pc = "flush" /\ queue # <<>> /\ since < BytesPerPing
        /\ sock' = sock /\ waiting' = waiting
        /\ IF mapped THEN buf' = Append(buf, m) /\ since' = since + DrawSize[h]
                     ELSE buf' = buf /\ since' = since
    BY <1>3 DEF Serves, link
  <2>2. ~waiting /\ h \in Widgets
    <3>1. queue \in Seq(Widgets)
      BY DEF TypeOK
    <3> QED BY <2>1, <3>1, TailFacts DEF FlowInv
  <2> HIDE DEF h
  <2>3. CASE ~mapped
    BY <1>1, <1>2, <2>1, <2>3, SameBytes DEF stream
  <2>4. CASE mapped
    <3> DEFINE k == DrawSize[h]
    <3>0. k \in Nat \ {0}
      BY <1>1, <2>2
    <3>1. m \in Messages /\ Bytes(m) = k
      <4>1. m \in Messages /\ m.kind = "update" /\ DOMAIN m.vals = {h}
        BY <2>2, MessageIs, IsMessage DEF TypeOK
      <4>2. (CHOOSE c \in {h} : TRUE) = h
        OBVIOUS
      <4> QED BY <4>1, <4>2 DEF Bytes
    <3> DEFINE M == Messages
               n == Len(sock) + Len(buf)
    <3>2. sock \in Seq(M) /\ buf \in Seq(M) /\ m \in M
      BY <3>1 DEF TypeOK
    <3> HIDE DEF M, m, k
    <3>3. /\ n \in Nat /\ DOMAIN (sock \o buf) = 1..n
          /\ DOMAIN (sock \o Append(buf, m)) = 1..(n + 1)
          /\ (sock \o Append(buf, m))[n + 1] = m
          /\ \A i \in 1..n : (sock \o Append(buf, m))[i] = (sock \o buf)[i]
      BY <3>2, StreamGrows
    <3> HIDE DEF n
    <3>4. stream = sock \o buf /\ stream' = sock \o Append(buf, m)
      BY <2>1, <2>4 DEF stream
    <3>5. Extends(stream, stream', n) /\ Bytes(stream'[n + 1]) = k
      BY <3>1, <3>3, <3>4 DEF Extends
    <3>6. IsFiniteSet(T) /\ Cardinality(T) <= Cardinality(S) + k
      BY <1>1, <3>0, <3>5, MoreBytes DEF S, T
    <3>7. Cardinality(T) \in Nat
      BY <3>6, FS_CardinalityType
    <3>8. Cardinality(S) <= since /\ since < BytesPerPing /\ since' = since + k
      BY <1>1, <2>1, <2>2, <2>4 DEF k
    <3>9. Cardinality(T) <= since' /\ Cardinality(T) < BytesPerPing + k
      BY <1>1, <3>0, <3>6, <3>7, <3>8
    <3> QED BY <2>2, <3>6, <3>9 DEF k
  <2> QED BY <2>3, <2>4
<1> QED BY <1>2, <1>3, FlowStep

-------------------------------------------------------------------------------
(* What is shown in the end, of a stream s and of what is shown before it.  *)

Beheads(s, t, n) ==
  /\ n \in Nat \ {0} /\ DOMAIN s = 1..n /\ DOMAIN t = 1..(n - 1)
  /\ \A i \in 1..(n - 1) : t[i] = s[i + 1]

LEMMA EndsIs == \A c, v : WillShow(c, v) <=> Ends(stream, shown, c, v)
BY Zenon DEF WillShow, Draws, Ends, Picks

(* The last thing that is sent is shown, or what was to be shown before.    *)
LEMMA EndsWith ==
  ASSUME NEW s, NEW t, NEW p, NEW n, NEW c, NEW v, Extends(s, t, n),
         c \in DOMAIN t[n + 1].vals, t[n + 1].vals[c] = v
  PROVE  Ends(t, p, c, v)
<1>1. n + 1 \in DOMAIN t /\ \A j \in DOMAIN t : ~(j > n + 1)
  BY DEF Extends
<1> QED BY <1>1 DEF Ends, Picks

LEMMA EndsBefore ==
  ASSUME NEW s, NEW t, NEW p, NEW n, NEW c, NEW v, Extends(s, t, n),
         c \notin DOMAIN t[n + 1].vals, Ends(s, p, c, v)
  PROVE  Ends(t, p, c, v)
<1>1. n \in Nat /\ \A j \in DOMAIN t : j = n + 1 \/ (j \in DOMAIN s /\ t[j] = s[j])
  BY DEF Extends
<1>2. \A j \in DOMAIN s : j \in DOMAIN t /\ t[j] = s[j] /\ j # n + 1
  BY DEF Extends
<1>3. CASE \E i \in DOMAIN s : c \in DOMAIN s[i].vals
  <2>1. PICK i \in DOMAIN s : Picks(s, i, c, v)
    BY <1>3 DEF Ends
  <2>2. Picks(t, i, c, v)
    BY <1>1, <1>2, <2>1 DEF Picks
  <2>3. i \in DOMAIN t /\ c \in DOMAIN t[i].vals
    BY <1>2, <2>1 DEF Picks
  <2> QED BY <2>2, <2>3 DEF Ends
<1>4. CASE ~ \E i \in DOMAIN s : c \in DOMAIN s[i].vals
  <2>1. ~ \E i \in DOMAIN t : c \in DOMAIN t[i].vals
    BY <1>1, <1>4
  <2>2. p[c] = v
    BY <1>4 DEF Ends
  <2> QED BY <2>1, <2>2 DEF Ends
<1> QED BY <1>3, <1>4

(* Reading changes nothing of it.                                           *)
LEMMA EndsRead ==
  ASSUME NEW s, NEW t, NEW p, NEW q, NEW n, NEW c, NEW v, Beheads(s, t, n),
         Ends(s, p, c, v),
         q[c] = IF c \in DOMAIN s[1].vals THEN s[1].vals[c] ELSE p[c]
  PROVE  Ends(t, q, c, v)
<1>1. /\ n \in Nat \ {0} /\ DOMAIN s = 1..n /\ DOMAIN t = 1..(n - 1)
      /\ \A i \in 1..(n - 1) : t[i] = s[i + 1]
  BY DEF Beheads
<1>2. CASE \E i \in DOMAIN t : c \in DOMAIN t[i].vals
  <2>1. PICK k \in DOMAIN t : c \in DOMAIN t[k].vals
    BY <1>2
  <2>2. k + 1 \in DOMAIN s /\ c \in DOMAIN s[k + 1].vals
    BY <1>1, <2>1
  <2>3. PICK i \in DOMAIN s : Picks(s, i, c, v)
    BY <2>2 DEF Ends
  <2>4. i # 1
    BY <1>1, <2>1, <2>2, <2>3 DEF Picks
  <2>5. i - 1 \in DOMAIN t /\ t[i - 1] = s[i]
    <3>1. i - 1 \in 1..(n - 1) /\ (i - 1) + 1 = i
      BY <1>1, <2>3, <2>4
    <3> QED BY <1>1, <3>1
  <2>6. \A j \in DOMAIN t : j > i - 1 => c \notin DOMAIN t[j].vals
    <3> SUFFICES ASSUME NEW j \in 1..(n - 1), j > i - 1
                 PROVE  c \notin DOMAIN s[j + 1].vals
      BY <1>1
    <3>1. j + 1 \in DOMAIN s /\ j + 1 > i
      BY <1>1, <2>3
    <3> QED BY <2>3, <3>1 DEF Picks
  <2>7. Picks(t, i - 1, c, v)
    BY <2>3, <2>5, <2>6 DEF Picks
  <2> QED BY <1>2, <2>5, <2>7 DEF Ends
<1>3. CASE ~ \E i \in DOMAIN t : c \in DOMAIN t[i].vals
  <2>1. \A i \in DOMAIN s : c \in DOMAIN s[i].vals => i = 1
    <3> SUFFICES ASSUME NEW i \in 1..n, c \in DOMAIN s[i].vals, i # 1
                 PROVE  FALSE
      BY <1>1
    <3>1. i - 1 \in 1..(n - 1) /\ (i - 1) + 1 = i
      BY <1>1
    <3>2. t[i - 1] = s[i]
      BY <1>1, <3>1
    <3> QED BY <1>1, <1>3, <3>1, <3>2
  <2>2. q[c] = v
    <3>1. CASE c \in DOMAIN s[1].vals
      <4>1. 1 \in DOMAIN s
        BY <1>1
      <4>2. PICK i \in DOMAIN s : Picks(s, i, c, v)
        BY <3>1, <4>1 DEF Ends
      <4>3. i = 1
        BY <2>1, <4>2 DEF Picks
      <4> QED BY <3>1, <4>2, <4>3 DEF Picks
    <3>2. CASE c \notin DOMAIN s[1].vals
      <4>1. ~ \E i \in DOMAIN s : c \in DOMAIN s[i].vals
        BY <2>1, <3>2
      <4> QED BY <3>2, <4>1 DEF Ends
    <3> QED BY <3>1, <3>2
  <2> QED BY <1>3, <2>2 DEF Ends
<1> QED BY <1>2, <1>3

(* Something is sent that shows the values of S.                            *)
LEMMA SentShows ==
  ASSUME TypeOK, NEW S \in SUBSET Widgets, NEW k \in {"direct", "update", "ping"},
         sock' = sock, buf' = Append(buf, Message(k, S)), shown' = shown,
         NEW c, NEW v, c \in S => v = val[c],
         c \in S \/ Ends(stream, shown, c, v)
  PROVE  Ends(stream', shown', c, v)
<1> DEFINE m == Message(k, S)
           M == Messages
           n == Len(sock) + Len(buf)
<1>1. m \in M /\ DOMAIN m.vals = S /\ \A d \in S : m.vals[d] = val[d]
  BY MessageIs DEF TypeOK
<1>2. sock \in Seq(M) /\ buf \in Seq(M) /\ buf' = Append(buf, m)
  BY DEF TypeOK
<1> HIDE DEF m, M
<1>3. /\ n \in Nat /\ DOMAIN (sock \o buf) = 1..n
      /\ DOMAIN (sock \o Append(buf, m)) = 1..(n + 1)
      /\ (sock \o Append(buf, m))[n + 1] = m
      /\ \A i \in 1..n : (sock \o Append(buf, m))[i] = (sock \o buf)[i]
  BY <1>1, <1>2, StreamGrows
<1> HIDE DEF n
<1>4. stream = sock \o buf /\ stream' = sock \o Append(buf, m)
  BY <1>2 DEF stream
<1>5. Extends(stream, stream', n) /\ stream'[n + 1] = m
  BY <1>3, <1>4 DEF Extends
<1>6. CASE c \in S
  BY <1>1, <1>5, <1>6, EndsWith
<1>7. CASE c \notin S
  BY <1>1, <1>5, <1>7, EndsBefore
<1> QED BY <1>6, <1>7

LEMMA ReadShows ==
  ASSUME TypeOK, GuiReads, NEW c \in Widgets, NEW v, Ends(stream, shown, c, v)
  PROVE  Ends(stream', shown', c, v)
<1> DEFINE M == Messages
           n == Len(sock) + Len(buf)
<1>1. sock \in Seq(M) /\ buf \in Seq(M) /\ sock # <<>>
  BY DEF TypeOK, GuiReads
<1> HIDE DEF M
<1>2. /\ n \in Nat \ {0} /\ DOMAIN (sock \o buf) = 1..n
      /\ DOMAIN (Tail(sock) \o buf) = 1..(n - 1)
      /\ (sock \o buf)[1] = Head(sock)
      /\ \A i \in 1..(n - 1) : (Tail(sock) \o buf)[i] = (sock \o buf)[i + 1]
  BY <1>1, StreamShrinks
<1> HIDE DEF n
<1>3. stream = sock \o buf /\ stream' = Tail(sock) \o buf
  BY DEF GuiReads, stream
<1>4. Beheads(stream, stream', n) /\ stream[1] = Head(sock)
  BY <1>2, <1>3 DEF Beheads
<1>5. shown'[c] = IF c \in DOMAIN stream[1].vals THEN stream[1].vals[c] ELSE shown[c]
  BY <1>4 DEF GuiReads, Shown
<1> QED BY <1>4, <1>5, EndsRead

(* Who else stays on the queue.                                             *)
LEMMA QueuedStay ==
  ASSUME NEW q \in Seq(Widgets), NEW c \in Widgets
  PROVE  ToSet(Queued(q, c)) = ToSet(q) \cup {c}
<1>1. CASE c \in ToSet(q)
  BY <1>1 DEF Queued
<1>2. CASE c \notin ToSet(q)
  <2>1. /\ Len(q) \in Nat /\ DOMAIN q = 1..Len(q)
        /\ DOMAIN Append(q, c) = 1..(Len(q) + 1) /\ Append(q, c)[Len(q) + 1] = c
        /\ \A i \in 1..Len(q) : Append(q, c)[i] = q[i]
    BY AppendProperties, LenProperties
  <2>2. \A i \in 1..(Len(q) + 1) : i = Len(q) + 1 \/ i \in 1..Len(q)
    BY <2>1
  <2>3. Len(q) + 1 \in 1..(Len(q) + 1) /\ \A i \in 1..Len(q) : i \in 1..(Len(q) + 1)
    BY <2>1
  <2>4. ToSet(Append(q, c)) = ToSet(q) \cup {c}
    BY <2>1, <2>2, <2>3 DEF ToSet
  <2> QED BY <1>2, <2>4 DEF Queued
<1> QED BY <1>1, <1>2

LEMMA UnqueuedStay ==
  ASSUME NEW q \in Seq(Widgets), NEW c, NEW d, d # c, d \in ToSet(q)
  PROVE  d \in ToSet(Unqueued(q, c))
<1>0. Len(q) \in Nat /\ DOMAIN q = 1..Len(q)
  BY LenProperties
<1>1. CASE c \notin ToSet(q)
  BY <1>1 DEF Unqueued
<1>2. CASE c \in ToSet(q)
  <2> DEFINE p == Place(q, c)
             r == RemoveAt(q, p)
  <2>1. p \in 1..Len(q) /\ q[p] = c
    <3>1. \E i \in DOMAIN q : q[i] = c
      BY <1>2 DEF ToSet
    <3>2. p \in DOMAIN q /\ q[p] = c
      BY <3>1, Zenon DEF Place
    <3> HIDE DEF p
    <3> QED BY <1>0, <3>2, Zenon
  <2>2. r = Unqueued(q, c)
    BY <1>2 DEF Unqueued
  <2> HIDE DEF p
  <2>3. /\ r \in Seq(Widgets) /\ Len(r) = Len(q) - 1
        /\ \A i \in 1..(Len(q) - 1) : r[i] = IF i < p THEN q[i] ELSE q[i + 1]
    BY <2>1, RemoveAtFacts
  <2> HIDE DEF r
  <2>4. DOMAIN r = 1..(Len(q) - 1)
    BY <2>3, LenProperties
  <2>5. PICK j \in 1..Len(q) : q[j] = d
    BY <1>0 DEF ToSet
  <2>6. CASE j < p
    <3>1. j \in 1..(Len(q) - 1)
      BY <1>0, <2>1, <2>6
    <3>2. r[j] = d
      BY <2>3, <2>5, <2>6, <3>1
    <3> QED BY <2>2, <2>4, <3>1, <3>2 DEF ToSet
  <2>7. CASE p < j
    <3>1. j - 1 \in 1..(Len(q) - 1) /\ ~(j - 1 < p) /\ (j - 1) + 1 = j
      BY <1>0, <2>1, <2>7
    <3>2. r[j - 1] = q[(j - 1) + 1]
      BY <2>3, <3>1
    <3> QED BY <2>2, <2>4, <2>5, <3>1, <3>2 DEF ToSet
  <2> QED BY <1>0, <2>1, <2>5, <2>6, <2>7
<1> QED BY <1>1, <1>2

LEMMA TailStay ==
  ASSUME NEW q \in Seq(Widgets), q # <<>>, NEW d, d # Head(q), d \in ToSet(q)
  PROVE  d \in ToSet(Tail(q))
<1>1. /\ Head(q) = q[1] /\ DOMAIN Tail(q) = 1..(Len(q) - 1)
      /\ Len(q) \in Nat \ {0} /\ DOMAIN q = 1..Len(q)
      /\ \A i \in 1..(Len(q) - 1) : Tail(q)[i] = q[i + 1]
  BY TailFacts
<1>2. PICK j \in 1..Len(q) : q[j] = d
  BY <1>1 DEF ToSet
<1>3. j - 1 \in 1..(Len(q) - 1) /\ (j - 1) + 1 = j
  BY <1>1, <1>2
<1>4. Tail(q)[j - 1] = d
  BY <1>1, <1>2, <1>3
<1> QED BY <1>1, <1>3, <1>4 DEF ToSet

LEMMA ShowStep == TypeOK /\ QueueInv /\ ShowInv /\ [Next]_vars => ShowInv'
<1> SUFFICES ASSUME TypeOK, QueueInv, ShowInv, [Next]_vars PROVE ShowInv'
  OBVIOUS
<1> USE DEF poll, link, patch
<1>a. /\ mapped => havegui
      /\ pc = "map" => havegui /\ ~mapped
      /\ pc # "map" => todraw = {}
      /\ todraw \subseteq alive /\ alive \subseteq Widgets
      /\ queue \in Seq(Widgets) /\ {} \in SUBSET Widgets
      /\ val \in [Widgets -> Values]
  BY DEF ShowInv, TypeOK
<1>b. \A c \in alive : IsDrawn(c) =>
        Ends(stream, shown, c, val[c]) \/ c \in ToSet(queue)
  BY DEF ShowInv
<1>c. ASSUME NEW S \in SUBSET Widgets, NEW k, NEW c, NEW v, Sends(S, k),
             havegui, sock' = sock, shown' = shown,
             c \in S => v = val[c], c \in S \/ Ends(stream, shown, c, v)
      PROVE  Ends(stream', shown', c, v)
  <2>1. buf' = Append(buf, Message("direct", S))
    BY <1>c DEF Sends
  <2> QED BY <1>c, <2>1, SentShows
<1>1. ASSUME NEW c \in Widgets, Changes(c) PROVE ShowInv'
  <2>1. /\ pc = "idle" /\ pc' = "idle" /\ mapped' = mapped /\ havegui' = havegui
        /\ todraw' = todraw /\ alive' = alive /\ stream' = stream /\ shown' = shown
        /\ queue' = (IF MayAsk(c) THEN Queued(queue, c) ELSE queue)
        /\ val' = [val EXCEPT ![c] = 1 - @]
    BY <1>1 DEF Changes, Happens, stream
  <2>2. ASSUME NEW d \in alive, mapped
        PROVE  \/ Ends(stream', shown', d, val'[d])
               \/ d \in ToSet(queue')
    <3>1. queue' = Queued(queue, c)
      BY <2>1, <2>2 DEF MayAsk
    <3>2. ToSet(queue') = ToSet(queue) \cup {c}
      BY <1>a, <3>1, QueuedStay
    <3>3. d # c => val'[d] = val[d]
      BY <1>a, <2>1
    <3>4. d # c => Ends(stream, shown, d, val[d]) \/ d \in ToSet(queue)
      BY <1>b, <2>2 DEF IsDrawn
    <3> QED BY <2>1, <3>2, <3>3, <3>4
  <2> QED BY <1>a, <2>1, <2>2 DEF ShowInv, IsDrawn
<1>2. ASSUME NEW c \in Widgets, Creates(c) PROVE ShowInv'
  <2>1. /\ pc = "idle" /\ pc' = "idle" /\ mapped' = mapped /\ havegui' = havegui
        /\ todraw' = todraw /\ alive' = alive \cup {c} /\ shown' = shown
        /\ queue' = queue /\ val' = val /\ sock' = sock
        /\ mapped => Sends({c}, DrawSize[c])
    BY <1>2 DEF Creates, Happens
  <2>2. ASSUME NEW d \in alive', mapped
        PROVE  \/ Ends(stream', shown', d, val'[d])
               \/ d \in ToSet(queue')
    <3>1. {c} \in SUBSET Widgets /\ Sends({c}, DrawSize[c]) /\ havegui
      BY <1>a, <2>1, <2>2
    <3>2. CASE d = c
      <4>1. Ends(stream', shown', d, val[d])
        BY <1>c, <2>1, <3>1, <3>2
      <4> QED BY <2>1, <4>1
    <3>3. CASE d # c
      <4>1. Ends(stream, shown, d, val[d]) \/ d \in ToSet(queue)
        BY <1>b, <2>1, <2>2, <3>3 DEF IsDrawn
      <4>2. CASE Ends(stream, shown, d, val[d])
        <5>1. Ends(stream', shown', d, val[d])
          BY <1>c, <2>1, <3>1, <3>3, <4>2
        <5> QED BY <2>1, <5>1
      <4>3. CASE d \in ToSet(queue)
        BY <2>1, <4>3
      <4> QED BY <4>1, <4>2, <4>3
    <3> QED BY <3>2, <3>3
  <2> QED BY <1>a, <2>1, <2>2 DEF ShowInv, IsDrawn
<1>3. ASSUME NEW n \in Sizes, Prints(n) PROVE ShowInv'
  <2>1. /\ pc = "idle" /\ pc' = "idle" /\ mapped' = mapped /\ havegui' = havegui
        /\ todraw' = todraw /\ alive' = alive /\ shown' = shown
        /\ queue' = queue /\ val' = val /\ sock' = sock /\ Sends({}, n)
    BY <1>3 DEF Prints, Happens
  <2>2. ASSUME NEW d \in alive, mapped, Ends(stream, shown, d, val[d])
        PROVE  Ends(stream', shown', d, val[d])
    BY <1>a, <1>c, <2>1, <2>2
  <2> QED BY <1>a, <1>b, <2>1, <2>2 DEF ShowInv, IsDrawn
<1>4. ASSUME NEW c \in Widgets, NEW n \in Sizes, Deletes(c, n) PROVE ShowInv'
  <2>1. /\ pc = "idle" /\ pc' = "idle" /\ mapped' = mapped /\ havegui' = havegui
        /\ todraw' = todraw /\ alive' = alive \ {c} /\ shown' = shown
        /\ queue' = (IF TakesItself(c) THEN Unqueued(queue, c) ELSE queue)
        /\ val' = [val EXCEPT ![c] = 0] /\ sock' = sock
        /\ mapped => Sends({}, n)
    BY <1>4 DEF Deletes, Happens
  <2>2. ASSUME NEW d \in alive, d # c, mapped
        PROVE  \/ Ends(stream', shown', d, val'[d])
               \/ d \in ToSet(queue')
    <3>1. val'[d] = val[d] /\ havegui /\ Sends({}, n)
      BY <1>a, <2>1, <2>2
    <3>2. Ends(stream, shown, d, val[d]) \/ d \in ToSet(queue)
      BY <1>b, <2>2 DEF IsDrawn
    <3>3. CASE Ends(stream, shown, d, val[d])
      <4>1. Ends(stream', shown', d, val[d])
        BY <1>a, <1>c, <2>1, <3>1, <3>3
      <4> QED BY <3>1, <4>1
    <3>4. CASE d \in ToSet(queue)
      BY <1>a, <2>1, <2>2, <3>4, UnqueuedStay
    <3> QED BY <3>2, <3>3, <3>4
  <2> QED BY <1>a, <2>1, <2>2 DEF ShowInv, IsDrawn
<1>5. ASSUME DrawsNext PROVE ShowInv'
  <2> DEFINE c == CHOOSE c \in todraw : TRUE
  <2>1. /\ pc = "map" /\ pc' = "map" /\ mapped' = mapped /\ havegui' = havegui
        /\ todraw' = todraw \ {c} /\ alive' = alive /\ shown' = shown
        /\ queue' = (IF c \in Scalars THEN Unqueued(queue, c) ELSE queue)
        /\ val' = val /\ sock' = sock /\ Sends({c}, DrawSize[c]) /\ c \in todraw
    BY <1>5 DEF DrawsNext
  <2> HIDE DEF c
  <2>2. ASSUME NEW d \in alive, d \notin todraw'
        PROVE  \/ Ends(stream', shown', d, val'[d])
               \/ d \in ToSet(queue')
    <3>1. {c} \in SUBSET Widgets /\ havegui
      BY <1>a, <2>1
    <3>2. CASE d = c
      <4>1. Ends(stream', shown', d, val[d])
        BY <1>c, <2>1, <3>1, <3>2
      <4> QED BY <2>1, <4>1
    <3>3. CASE d # c
      <4>1. Ends(stream, shown, d, val[d]) \/ d \in ToSet(queue)
        BY <1>b, <2>1, <2>2, <3>3 DEF IsDrawn
      <4>2. CASE Ends(stream, shown, d, val[d])
        <5>1. Ends(stream', shown', d, val[d])
          BY <1>c, <2>1, <3>1, <3>3, <4>2
        <5> QED BY <2>1, <5>1
      <4>3. CASE d \in ToSet(queue)
        BY <1>a, <2>1, <3>3, <4>3, UnqueuedStay
      <4> QED BY <4>1, <4>2, <4>3
    <3> QED BY <3>2, <3>3
  <2> QED BY <1>a, <2>1, <2>2 DEF ShowInv, IsDrawn
<1>6. ASSUME Pings PROVE ShowInv'
  <2>1. /\ pc = "flush" /\ pc' = "idle" /\ mapped' = mapped /\ havegui' = havegui
        /\ todraw' = todraw /\ alive' = alive /\ shown' = shown
        /\ queue' = queue /\ val' = val /\ sock' = sock
        /\ buf' = Append(buf, Message("ping", {}))
    BY <1>6 DEF Pings, Ping
  <2>2. ASSUME NEW d \in alive, Ends(stream, shown, d, val[d])
        PROVE  Ends(stream', shown', d, val[d])
    BY <1>a, <2>1, <2>2, SentShows
  <2> QED BY <1>a, <1>b, <2>1, <2>2 DEF ShowInv, IsDrawn
<1>7. ASSUME Serves PROVE ShowInv'
  <2> DEFINE h == Head(queue)
  <2>1. /\ pc = "flush" /\ pc' # "map" /\ mapped' = mapped /\ havegui' = havegui
        /\ todraw' = todraw /\ alive' = alive /\ shown' = shown
        /\ queue # <<>> /\ queue' = Tail(queue) /\ val' = val /\ sock' = sock
        /\ mapped => buf' = Append(buf, Message("update", {h}))
    BY <1>7 DEF Serves
  <2>2. {h} \in SUBSET Widgets
    BY <1>a, <2>1, TailFacts
  <2> HIDE DEF h
  <2>3. ASSUME NEW d \in alive, mapped
        PROVE  \/ Ends(stream', shown', d, val'[d])
               \/ d \in ToSet(queue')
    <3>1. CASE d = h
      <4>1. Ends(stream', shown', d, val[d])
        BY <2>1, <2>2, <2>3, <3>1, SentShows
      <4> QED BY <2>1, <4>1
    <3>2. CASE d # h
      <4>1. Ends(stream, shown, d, val[d]) \/ d \in ToSet(queue)
        BY <1>b, <2>3 DEF IsDrawn
      <4>2. CASE Ends(stream, shown, d, val[d])
        <5>1. Ends(stream', shown', d, val[d])
          BY <2>1, <2>2, <2>3, <3>2, <4>2, SentShows
        <5> QED BY <2>1, <5>1
      <4>3. CASE d \in ToSet(queue)
        BY <1>a, <2>1, <3>2, <4>3, TailStay DEF h
      <4> QED BY <4>1, <4>2, <4>3
    <3> QED BY <3>1, <3>2
  <2> QED BY <1>a, <2>1, <2>3 DEF ShowInv, IsDrawn
<1>8. ASSUME GuiReads PROVE ShowInv'
  <2>1. /\ pc' = pc /\ mapped' = mapped /\ havegui' = havegui
        /\ todraw' = todraw /\ alive' = alive /\ queue' = queue /\ val' = val
    BY <1>8 DEF GuiReads
  <2>2. ASSUME NEW d \in alive, Ends(stream, shown, d, val[d])
        PROVE  Ends(stream', shown', d, val[d])
    BY <1>a, <1>8, <2>2, ReadShows
  <2> QED BY <1>a, <1>b, <2>1, <2>2 DEF ShowInv, IsDrawn
<1>9. ASSUME stream' = stream, shown' = shown, queue' = queue, val' = val,
             mapped' = mapped, havegui' = havegui, alive' = alive, todraw' = todraw,
             pc' = "map" <=> pc = "map"
      PROVE  ShowInv'
  BY <1>a, <1>b, <1>9 DEF ShowInv, IsDrawn
<1>10. ASSUME NEW n \in Sizes, Pretends(n) PROVE ShowInv'
  BY <1>9, <1>10 DEF Pretends, stream
<1>11. ASSUME NEW n \in Sizes, Hides(n) \/ StopGui(n) PROVE ShowInv'
  BY <1>a, <1>11 DEF Hides, StopGui, Happens, ShowInv, IsDrawn
<1>12. ASSUME Shows PROVE ShowInv'
  BY <1>a, <1>12 DEF Shows, Happens, ShowInv, IsDrawn
<1>13. ASSUME StartGui PROVE ShowInv'
  BY <1>a, <1>13 DEF StartGui, Happens, ShowInv, IsDrawn
<1>14. ASSUME Polls \/ SendsIt PROVE ShowInv'
  <2>1. stream' = stream
    BY <1>14, FlushTypes DEF Polls, SendsIt
  <2> QED BY <1>9, <1>14, <2>1 DEF Polls, SendsIt
<1>15. ASSUME HasDrawn PROVE ShowInv'
  BY <1>a, <1>b, <1>15 DEF HasDrawn, ShowInv, IsDrawn, stream
<1>16. ASSUME HasServed \/ PingArrives \/ UNCHANGED vars PROVE ShowInv'
  BY <1>9, <1>16 DEF HasServed, PingArrives, vars, stream
<1> QED
  <2>1. CASE Event
    BY <2>1, <1>1, <1>2, <1>3, <1>4, <1>10, <1>11, <1>12, <1>13 DEF Event
  <2>2. CASE Inside
    BY <2>2, <1>5, <1>6, <1>7, <1>14, <1>15, <1>16 DEF Inside
  <2> QED BY <2>1, <2>2, <1>8, <1>14, <1>16 DEF Next

-------------------------------------------------------------------------------
LEMMA InitInv == Init => IInv
<1> SUFFICES ASSUME Init PROVE IInv
  OBVIOUS
<1>1. DOMAIN queue = {}
  <2>1. Len(<<>>) = 0 /\ <<>> \in Seq(Widgets)
    BY EmptySeq
  <2>2. DOMAIN <<>> = 1..0
    BY <2>1, LenProperties
  <2> QED BY <2>2 DEF Init
<1>2. DOMAIN stream = {}
  <2>1. <<>> \in Seq(Widgets) /\ Len(<<>>) = 0
    BY EmptySeq
  <2>2. DOMAIN (<<>> \o <<>>) = 1..0
    BY <2>1, StreamIs
  <2> QED BY <2>2 DEF Init, stream
<1>3. QueueInv
  BY <1>1 DEF QueueInv, OnceEach, QueuedAreAlive, Init
<1>4. FlowInv
  BY <1>2 DEF Init, FlowInv, UpdatesWait
<1>5. ShowInv
  BY DEF Init, ShowInv, IsDrawn
<1>6. BytesInv
  <2>1. IsFiniteSet(UnreadBytes) /\ Unread = 0
    BY <1>2, NothingUnread
  <2> QED BY <2>1 DEF BytesInv, UnreadIsBounded, Init
<1> QED BY <1>3, <1>4, <1>5, <1>6, InitType DEF IInv

(* The inductive invariant holds of every behaviour.                        *)
THEOREM Invariance == Spec => []IInv
<1>1. IInv /\ [Next]_vars => IInv'
  BY TypeStep, QueueStep, FlowStep, ShowStep, BytesStep DEF IInv
<1> QED BY InitInv, <1>1, PTL DEF Spec

(* Every variable keeps its type.                                           *)
THEOREM TypeCorrect == Spec => []TypeOK
<1>1. IInv => TypeOK
  BY DEF IInv
<1> QED BY <1>1, Invariance, PTL

(* sys_unqueuegui leaves no pointer to a deleted widget behind, over any    *)
(* history, but for number boxes and the like that were on the queue when   *)
(* they were deleted in a hidden window: sys_flushqueue calls nobody else   *)
(* who is gone.                                                             *)
THEOREM NobodyGoneIsQueued == Spec => []QueuedAreAlive
<1>1. IInv => QueuedAreAlive
  BY DEF IInv, QueueInv
<1> QED BY <1>1, Invariance, PTL

(* Nothing is drawn from the queue behind a ping before it is answered, even *)
(* over stops and starts of the GUI (sys_flushqueue, glob_ping).            *)
THEOREM UpdatesStayBehind == Spec => []UpdatesWait
<1>1. IInv => UpdatesWait
  BY DEF IInv, FlowInv
<1> QED BY <1>1, Invariance, PTL

(* Nobody's last change is forgotten: in a window that is up, each widget   *)
(* is shown with its value once the GUI has read what was sent, or is on    *)
(* the queue, over any changes, deletions, shows, stops and starts.         *)
THEOREM NoChangeIsForgotten == Spec => []ShownOrQueued
<1>1. IInv => ShownOrQueued
  <2> SUFFICES ASSUME IInv, mapped, NEW c \in alive
               PROVE  WillShow(c, val[c]) \/ c \in ToSet(queue)
    BY DEF ShownOrQueued
  <2>1. Ends(stream, shown, c, val[c]) \/ c \in ToSet(queue)
    BY DEF IInv, ShowInv, IsDrawn
  <2> QED BY <2>1, EndsIs
<1> QED BY <1>1, Invariance, PTL

(* However slow the GUI reads, and whatever else it is sent, what is drawn  *)
(* from the queue before it has read what was drawn stays below             *)
(* GUI_BYTESPERPING and the size of one widget.                             *)
THEOREM RedrawsAreBounded == Spec => []UnreadIsBounded
<1>1. IInv => UnreadIsBounded
  BY DEF IInv, BytesInv
<1> QED BY <1>1, Invariance, PTL
===============================================================================
