----------------------------- MODULE SchedProofs ------------------------------
(* Proofs about the scheduler, for every set of clocks, tick length, unit  *)
(* and sequence of calls: the list of set clocks stays the ordered list of *)
(* exactly the set clocks, logical time never goes back, it stays on the   *)
(* grid of DSP ticks unless a tick is cut short, and clocks ring in order. *)
EXTENDS Sched, MainLoop, WellFoundedInduction, SequenceTheorems, TLAPS

(* A list with no repetition, and one ordered by the times f.              *)
Distinct(s) == \A i, j \in DOMAIN s : s[i] = s[j] => i = j
SortedBy(s, f) == \A i, j \in DOMAIN s : i < j => f[s[i]] <= f[s[j]]
Occurs(c, s) == \E i \in DOMAIN s : s[i] = c

(* Within a tick, logical time has not passed the time it will end at.     *)
NextAhead == phase \in {"tick", "callback", "gui"} => systime <= next

(* Where on the grid each phase of an uncut history is.                    *)
GridInv ==
  ~cut =>
    /\ phase = "idle" => systime = ticks * Tick
    /\ phase \in {"tick", "callback", "gui"} => next = ticks * Tick + Tick
    /\ phase = "dsp" => systime = ticks * Tick + Tick

-------------------------------------------------------------------------------
(* Every set of naturals that is not empty has a least element.            *)
LEMMA Least == ASSUME NEW T \in SUBSET Nat, T # {}
               PROVE \E m \in T : \A k \in T : m <= k
<1> DEFINE R == {p \in Nat \X Nat : p[1] < p[2]}
<1>1. IsWellFoundedOn(R, Nat)
  BY NatLessThanWellFounded DEF OpToRel
<1>2. \E m \in T : \A k \in T : ~(<<k, m>> \in R)
  <2> HIDE DEF R
  <2> QED BY <1>1, WFMin
<1>3. ASSUME NEW m \in T, NEW k \in T, <<k, m>> \notin R
      PROVE  m <= k
  <2>1. ~(k < m)
    BY <1>3
  <2> QED BY <2>1
<1> HIDE DEF R
<1> QED BY <1>2, <1>3

(* What RemoveAt returns, element by element.                              *)
LEMMA RemoveAtFacts ==
  ASSUME NEW S, NEW s \in Seq(S), NEW i \in 1..Len(s)
  PROVE  /\ RemoveAt(s, i) \in Seq(S)
         /\ Len(RemoveAt(s, i)) = Len(s) - 1
         /\ \A j \in 1..(Len(s) - 1) :
              RemoveAt(s, i)[j] = IF j < i THEN s[j] ELSE s[j + 1]
<1>0. Len(s) \in Nat
  BY LenProperties
<1>1. \A j \in 1..Len(s) : s[j] \in S
  BY ElementOfSeq
<1> DEFINE a == SubSeq(s, 1, i - 1)
           b == SubSeq(s, i + 1, Len(s))
<1>2. a \in Seq(S) /\ Len(a) = i - 1 /\ \A j \in 1..(i - 1) : a[j] = s[j]
  <2>1. \A j \in 1..(i - 1) : s[j] \in S  BY <1>1
  <2> QED BY <2>1, SubSeqProperties
<1>3. b \in Seq(S) /\ Len(b) = Len(s) - i /\ \A j \in 1..(Len(s) - i) : b[j] = s[i + j]
  <2>1. \A j \in (i + 1)..Len(s) : s[j] \in S  BY <1>1
  <2> QED BY <2>1, SubSeqProperties
<1>4. RemoveAt(s, i) = a \o b
  BY DEF RemoveAt
<1> HIDE DEF a, b
<1>5. /\ a \o b \in Seq(S) /\ Len(a \o b) = Len(s) - 1
      /\ \A j \in 1..(Len(s) - 1) :
           (a \o b)[j] = IF j <= i - 1 THEN a[j] ELSE b[j - (i - 1)]
  <2>1. /\ a \o b \in Seq(S) /\ Len(a \o b) = Len(a) + Len(b)
        /\ \A j \in 1..(Len(a) + Len(b)) :
             (a \o b)[j] = IF j <= Len(a) THEN a[j] ELSE b[j - Len(a)]
    BY <1>2, <1>3, ConcatProperties
  <2> QED BY <1>0, <1>2, <1>3, <2>1
<1>6. ASSUME NEW j \in 1..(Len(s) - 1)
      PROVE (a \o b)[j] = IF j < i THEN s[j] ELSE s[j + 1]
  <2>1. CASE j < i  BY <1>2, <1>5, <2>1
  <2>2. CASE ~(j < i)
    <3>1. j - (i - 1) \in 1..(Len(s) - i) /\ i + (j - (i - 1)) = j + 1
      BY <2>2
    <3> QED BY <1>3, <1>5, <2>2, <3>1
  <2> QED BY <2>1, <2>2
<1> QED BY <1>4, <1>5, <1>6

(* What InsertAt returns, element by element.                              *)
LEMMA InsertAtFacts ==
  ASSUME NEW S, NEW s \in Seq(S), NEW i \in 1..(Len(s) + 1), NEW e \in S
  PROVE  /\ InsertAt(s, i, e) \in Seq(S)
         /\ Len(InsertAt(s, i, e)) = Len(s) + 1
         /\ \A j \in 1..(Len(s) + 1) :
              InsertAt(s, i, e)[j] =
                IF j < i THEN s[j] ELSE IF j = i THEN e ELSE s[j - 1]
<1>0. Len(s) \in Nat
  BY LenProperties
<1>1. \A j \in 1..Len(s) : s[j] \in S
  BY ElementOfSeq
<1> DEFINE a == SubSeq(s, 1, i - 1)
           b == SubSeq(s, i, Len(s))
<1>2. a \in Seq(S) /\ Len(a) = i - 1 /\ \A j \in 1..(i - 1) : a[j] = s[j]
  <2>1. \A j \in 1..(i - 1) : s[j] \in S  BY <1>1
  <2> QED BY <2>1, SubSeqProperties
<1>3. /\ b \in Seq(S) /\ Len(b) = Len(s) - i + 1
      /\ \A j \in 1..(Len(s) - i + 1) : b[j] = s[i + j - 1]
  <2>1. \A j \in i..Len(s) : s[j] \in S  BY <1>1
  <2> QED BY <2>1, SubSeqProperties
<1>4. InsertAt(s, i, e) = a \o <<e>> \o b
  BY DEF InsertAt
<1> HIDE DEF a, b
<1>5. <<e>> \in Seq(S) /\ Len(<<e>>) = 1 /\ <<e>>[1] = e
  OBVIOUS
<1>6. /\ a \o <<e>> \in Seq(S) /\ Len(a \o <<e>>) = i
      /\ \A j \in 1..i : (a \o <<e>>)[j] = IF j <= i - 1 THEN a[j] ELSE <<e>>[j - (i - 1)]
  BY <1>2, <1>5, ConcatProperties
<1>7. \A j \in 1..i : (a \o <<e>>)[j] = IF j < i THEN s[j] ELSE e
  <2> TAKE j \in 1..i
  <2>1. CASE j < i  BY <1>2, <1>6, <2>1
  <2>2. CASE j = i  BY <1>5, <1>6, <2>2
  <2>3. j < i \/ j = i  BY <1>0
  <2> QED BY <2>1, <2>2, <2>3, Zenon
<1> DEFINE c == a \o <<e>>
<1>8. c \in Seq(S) /\ Len(c) = i
  BY <1>6
<1>9. \A j \in 1..i : c[j] = IF j < i THEN s[j] ELSE e
  BY <1>7
<1> HIDE DEF c
<1>10. /\ c \o b \in Seq(S) /\ Len(c \o b) = Len(s) + 1
      /\ \A j \in 1..(Len(s) + 1) :
           (c \o b)[j] = IF j <= i THEN c[j] ELSE b[j - i]
  BY <1>3, <1>8, ConcatProperties
<1>11. ASSUME NEW j \in 1..(Len(s) + 1)
      PROVE (c \o b)[j] = IF j < i THEN s[j] ELSE IF j = i THEN e ELSE s[j - 1]
  <2>1. CASE j <= i  BY <1>9, <1>10, <2>1
  <2>2. CASE ~(j <= i)
    <3>1. j - i \in 1..(Len(s) - i + 1) /\ i + (j - i) - 1 = j - 1
      BY <1>0, <2>2
    <3>2. (c \o b)[j] = b[j - i]
      BY <1>10, <2>2
    <3>3. b[j - i] = s[j - 1]
      BY <1>3, <3>1
    <3>4. ~(j < i) /\ j # i
      BY <1>0, <2>2
    <3> QED BY <3>2, <3>3, <3>4, Zenon
  <2> QED BY <2>1, <2>2
<1>12. InsertAt(s, i, e) = c \o b
  BY <1>4 DEF c
<1> QED BY <1>10, <1>11, <1>12
-------------------------------------------------------------------------------
(* The list without one clock: the same order, everyone else's place kept. *)
LEMMA ListWithoutFacts ==
  ASSUME TypeOK, ListedOnce, InOrder, NEW c \in Clocks
  PROVE  LET s == ListWithout(c)
         IN /\ s \in Seq(Clocks)
            /\ Distinct(s)
            /\ SortedBy(s, settime)
            /\ \A d \in Clocks : Occurs(d, s) <=> IsSet(d) /\ d # c
<1>1. CASE ~IsSet(c)
  BY <1>1 DEF ListWithout, TypeOK, ListedOnce, InOrder, Distinct, SortedBy,
              Occurs, IsSet
<1>2. CASE IsSet(c)
  <2> DEFINE p == PlaceOf(c)
             s == RemoveAt(setlist, p)
  <2>1. setlist \in Seq(Clocks) /\ Len(setlist) \in Nat
         /\ DOMAIN setlist = 1..Len(setlist)
    BY LenProperties DEF TypeOK
  <2>2. p \in 1..Len(setlist) /\ setlist[p] = c
    <3>1. \E i \in DOMAIN setlist : setlist[i] = c
      BY <1>2 DEF ListedOnce
    <3>2. p \in DOMAIN setlist /\ setlist[p] = c
      BY <3>1, ZenonT(30) DEF PlaceOf
    <3> HIDE DEF p
    <3> QED BY <2>1, <3>2, Zenon
  <2> HIDE DEF p
  <2>3. /\ s \in Seq(Clocks) /\ Len(s) = Len(setlist) - 1
        /\ \A j \in 1..(Len(setlist) - 1) :
             s[j] = IF j < p THEN setlist[j] ELSE setlist[j + 1]
    BY <2>1, <2>2, RemoveAtFacts
  <2> HIDE DEF s
  <2>4. DOMAIN s = 1..(Len(setlist) - 1)
    BY <2>3, LenProperties
  <2> DEFINE back(j) == IF j < p THEN j ELSE j + 1
  <2>5. \A j \in DOMAIN s : /\ back(j) \in DOMAIN setlist /\ back(j) # p
                            /\ s[j] = setlist[back(j)]
    BY <2>1, <2>2, <2>3, <2>4
  <2>6. Distinct(s)
    <3> SUFFICES ASSUME NEW i \in DOMAIN s, NEW j \in DOMAIN s, s[i] = s[j]
                 PROVE  i = j
      BY DEF Distinct
    <3>1. back(i) = back(j)
      BY <2>5 DEF ListedOnce
    <3> QED BY <3>1, <2>1, <2>2, <2>4
  <2>7. SortedBy(s, settime)
    <3> SUFFICES ASSUME NEW i \in DOMAIN s, NEW j \in DOMAIN s, i < j
                 PROVE  settime[s[i]] <= settime[s[j]]
      BY DEF SortedBy
    <3>1. back(i) < back(j)
      BY <2>1, <2>2, <2>4
    <3>2. /\ back(i) \in DOMAIN setlist /\ back(j) \in DOMAIN setlist
          /\ s[i] = setlist[back(i)] /\ s[j] = setlist[back(j)]
      BY <2>5
    <3> HIDE DEF back
    <3> QED BY <3>1, <3>2 DEF InOrder
  <2>8. ASSUME NEW d \in Clocks
        PROVE  Occurs(d, s) <=> IsSet(d) /\ d # c
    <3>1. ASSUME Occurs(d, s) PROVE IsSet(d) /\ d # c
      <4>1. PICK j \in DOMAIN s : s[j] = d
        BY <3>1 DEF Occurs
      <4>2. back(j) \in DOMAIN setlist /\ back(j) # p /\ setlist[back(j)] = d
        BY <2>5, <4>1
      <4> HIDE DEF back
      <4> QED BY <2>1, <2>2, <4>2 DEF ListedOnce
    <3>2. ASSUME IsSet(d), d # c PROVE Occurs(d, s)
      <4>1. PICK k \in DOMAIN setlist : setlist[k] = d
        BY <3>2 DEF ListedOnce
      <4>2. k # p
        BY <2>2, <3>2, <4>1
      <4>3. CASE k < p
        <5>1. k \in DOMAIN s /\ s[k] = d
          BY <2>1, <2>2, <2>3, <2>4, <4>1, <4>3
        <5> QED BY <5>1 DEF Occurs
      <4>4. CASE p < k
        <5>1. k - 1 \in DOMAIN s /\ s[k - 1] = d
          BY <2>1, <2>2, <2>3, <2>4, <4>1, <4>4
        <5> QED BY <5>1 DEF Occurs
      <4> QED BY <2>1, <2>2, <4>2, <4>3, <4>4
    <3> QED BY <3>1, <3>2
  <2>9. ListWithout(c) = s
    BY <1>2 DEF ListWithout, s, p
  <2> QED BY <2>3, <2>6, <2>7, <2>8, <2>9
<1> QED BY <1>1, <1>2

(* There is a first place whose clock is due later than t.                 *)
LEMMA PlaceExists ==
  ASSUME NEW s \in Seq(Clocks), NEW t
  PROVE  LET p == PlaceFor(s, t)
         IN /\ p \in 1..(Len(s) + 1)
            /\ EndsOrLater(s, t, p)
            /\ \A j \in 1..(p - 1) : ~EndsOrLater(s, t, j)
<1> DEFINE T == {i \in 1..(Len(s) + 1) : EndsOrLater(s, t, i)}
<1>1. Len(s) \in Nat
  BY LenProperties
<1>2. T \in SUBSET Nat /\ Len(s) + 1 \in T
  BY <1>1 DEF EndsOrLater
<1>3. PICK m \in T : \A k \in T : m <= k
  <2> HIDE DEF T
  <2> QED BY <1>2, Least
<1>4. \A j \in 1..(m - 1) : ~EndsOrLater(s, t, j)
  BY <1>1, <1>3
<1> QED BY <1>3, <1>4 DEF PlaceFor

(* A clock is put in at a place of the list: what is before it, what is    *)
(* there, and what is behind it.                                           *)
LEMMA ClockPutIn ==
  ASSUME NEW s \in Seq(Clocks), NEW c \in Clocks, NEW p \in 1..(Len(s) + 1)
  PROVE  /\ InsertAt(s, p, c) \in Seq(Clocks)
         /\ Len(InsertAt(s, p, c)) = Len(s) + 1
         /\ \A j \in 1..(p - 1) : InsertAt(s, p, c)[j] = s[j]
         /\ InsertAt(s, p, c)[p] = c
         /\ \A j \in (p + 1)..(Len(s) + 1) : InsertAt(s, p, c)[j] = s[j - 1]
<1> DEFINE r == InsertAt(s, p, c)
<1>1. /\ r \in Seq(Clocks) /\ Len(r) = Len(s) + 1
      /\ \A j \in 1..(Len(s) + 1) :
           r[j] = IF j < p THEN s[j] ELSE IF j = p THEN c ELSE s[j - 1]
  BY InsertAtFacts
<1>2. Len(s) \in Nat
  BY LenProperties
<1> HIDE DEF r
<1>3. /\ \A j \in 1..(p - 1) : r[j] = s[j]
      /\ r[p] = c
      /\ \A j \in (p + 1)..(Len(s) + 1) : r[j] = s[j - 1]
  BY <1>1, <1>2
<1> QED BY <1>1, <1>3 DEF r

(* Inserting at that place keeps the list ordered and adds one clock.      *)
LEMMA InsertFacts ==
  ASSUME NEW s \in Seq(Clocks), NEW c \in Clocks, NEW t \in Nat,
         settime \in [Clocks -> Nat \cup {Unset}],
         Distinct(s), SortedBy(s, settime), ~Occurs(c, s)
  PROVE  LET r == InsertAt(s, PlaceFor(s, t), c)
         IN /\ r \in Seq(Clocks)
            /\ Distinct(r)
            /\ SortedBy(r, [settime EXCEPT ![c] = t])
            /\ \A d \in Clocks : Occurs(d, r) <=> Occurs(d, s) \/ d = c
<1> DEFINE p == PlaceFor(s, t)
           r == InsertAt(s, p, c)
<1>1. Len(s) \in Nat /\ DOMAIN s = 1..Len(s) /\ \A j \in DOMAIN s : s[j] \in Clocks
  BY LenProperties, ElementOfSeq
<1>2. /\ p \in 1..(Len(s) + 1)
      /\ p = Len(s) + 1 \/ settime[s[p]] > t
      /\ \A j \in 1..(p - 1) : j \in DOMAIN s /\ ~(settime[s[j]] > t)
  BY <1>1, PlaceExists DEF EndsOrLater
<1> HIDE DEF p
<1>3. /\ r \in Seq(Clocks) /\ Len(r) = Len(s) + 1
      /\ \A j \in 1..(Len(s) + 1) :
           r[j] = IF j < p THEN s[j] ELSE IF j = p THEN c ELSE s[j - 1]
  <2>1. p \in 1..(Len(s) + 1)
    BY <1>2
  <2>2. r \in Seq(Clocks)
    BY <2>1, ClockPutIn, Zenon
  <2>3. Len(r) = Len(s) + 1
    BY <2>1, ClockPutIn, Zenon
  <2>4. \A j \in 1..(p - 1) : r[j] = s[j]
    BY <2>1, ClockPutIn, ZenonT(90)
  <2>6. r[p] = c
    BY <2>1, ClockPutIn, ZenonT(90)
  <2>7. \A j \in (p + 1)..(Len(s) + 1) : r[j] = s[j - 1]
    BY <2>1, ClockPutIn, ZenonT(90)
  <2> HIDE DEF r
  <2>5. ASSUME NEW j \in 1..(Len(s) + 1)
        PROVE  r[j] = IF j < p THEN s[j] ELSE IF j = p THEN c ELSE s[j - 1]
    BY <1>1, <2>1, <2>4, <2>6, <2>7
  <2> QED BY <2>2, <2>3, <2>5, Zenon
<1> HIDE DEF r
<1> DEFINE f == [settime EXCEPT ![c] = t]
           back(j) == IF j < p THEN j ELSE j - 1
<1>4. DOMAIN r = 1..(Len(s) + 1)
  BY <1>3, LenProperties
<1>5. r[p] = c
  BY <1>2, <1>3
<1>6. \A j \in DOMAIN r :
        j # p => /\ back(j) \in DOMAIN s /\ r[j] = s[back(j)]
                 /\ s[back(j)] \in Clocks /\ s[back(j)] # c
  BY <1>1, <1>2, <1>3, <1>4 DEF Occurs
<1>7. Distinct(r)
  <2> SUFFICES ASSUME NEW i \in DOMAIN r, NEW j \in DOMAIN r, r[i] = r[j]
               PROVE  i = j
    BY DEF Distinct
  <2>1. i = p <=> j = p
    BY <1>5, <1>6
  <2>2. CASE i # p /\ j # p
    <3>1. back(i) = back(j)
      <4> HIDE DEF back
      <4> QED BY <1>6, <2>2 DEF Distinct
    <3> QED BY <1>1, <1>2, <1>4, <2>2, <3>1
  <2> QED BY <2>1, <2>2
<1>8. \A j \in DOMAIN s : f[s[j]] = settime[s[j]]
  BY <1>1 DEF Occurs
<1>9. f[c] = t
  OBVIOUS
<1>10. SortedBy(r, f)
  <2> SUFFICES ASSUME NEW i \in DOMAIN r, NEW j \in DOMAIN r, i < j
               PROVE  f[r[i]] <= f[r[j]]
    BY DEF SortedBy
  <2>1. CASE i # p /\ j # p
    <3>1. back(i) < back(j)
      BY <1>1, <1>2, <1>4, <2>1
    <3>2. /\ f[r[i]] = settime[s[back(i)]] /\ f[r[j]] = settime[s[back(j)]]
          /\ back(i) \in DOMAIN s /\ back(j) \in DOMAIN s
      <4> HIDE DEF back, f
      <4> QED BY <1>6, <1>8, <2>1
    <3> HIDE DEF back, f
    <3> QED BY <3>1, <3>2 DEF SortedBy
  <2>2. CASE j = p
    <3>1. /\ i \in 1..(p - 1) /\ i \in DOMAIN s /\ r[i] = s[i]
          /\ settime[s[i]] \in Int
      BY <1>1, <1>2, <1>3, <1>4, <2>2 DEF Unset
    <3>2. f[r[i]] = settime[s[i]]
      <4> HIDE DEF f
      <4> QED BY <1>8, <3>1
    <3>3. settime[s[i]] <= t
      BY <1>2, <3>1
    <3> HIDE DEF f
    <3> QED BY <1>5, <1>9, <2>2, <3>2, <3>3
  <2>3. CASE i = p
    <3>1. /\ p # Len(s) + 1 /\ p \in DOMAIN s /\ j - 1 \in DOMAIN s
          /\ p <= j - 1 /\ r[j] = s[j - 1]
      BY <1>1, <1>2, <1>3, <1>4, <2>3
    <3>2. settime[s[p]] > t /\ settime[s[p]] \in Int /\ settime[s[j - 1]] \in Int
      BY <1>1, <1>2, <3>1 DEF Unset
    <3>3. settime[s[p]] <= settime[s[j - 1]]
      BY <3>1, <3>2, <1>1 DEF SortedBy
    <3>4. f[r[j]] = settime[s[j - 1]]
      <4> HIDE DEF f
      <4> QED BY <1>8, <3>1
    <3>5. f[r[i]] = t
      <4> HIDE DEF f
      <4> QED BY <1>5, <1>9, <2>3
    <3> HIDE DEF f
    <3> QED BY <3>2, <3>3, <3>4, <3>5
  <2> QED BY <2>1, <2>2, <2>3
<1>11. ASSUME NEW d \in Clocks
       PROVE  Occurs(d, r) <=> Occurs(d, s) \/ d = c
  <2>1. ASSUME Occurs(d, r) PROVE Occurs(d, s) \/ d = c
    <3>1. PICK j \in DOMAIN r : r[j] = d
      BY <2>1 DEF Occurs
    <3> HIDE DEF back
    <3> QED BY <1>5, <1>6, <3>1 DEF Occurs
  <2>2. ASSUME Occurs(d, s) PROVE Occurs(d, r)
    <3>1. PICK k \in DOMAIN s : s[k] = d
      BY <2>2 DEF Occurs
    <3>2. CASE k < p
      <4>1. k \in DOMAIN r /\ r[k] = d
        BY <1>1, <1>3, <1>4, <3>1, <3>2
      <4> QED BY <4>1 DEF Occurs
    <3>3. CASE ~(k < p)
      <4>1. k + 1 \in DOMAIN r /\ r[k + 1] = d
        BY <1>1, <1>2, <1>3, <1>4, <3>1, <3>3
      <4> QED BY <4>1 DEF Occurs
    <3> QED BY <3>2, <3>3
  <2>3. ASSUME d = c PROVE Occurs(d, r)
    BY <1>2, <1>4, <1>5, <2>3 DEF Occurs
  <2> QED BY <2>1, <2>2, <2>3
<1> HIDE DEF f
<1>12. r \in Seq(Clocks)
  BY <1>3
<1> QED BY <1>7, <1>10, <1>11, <1>12 DEF r, p, f
-------------------------------------------------------------------------------
(* The part of the invariant about the list, put together: a state whose   *)
(* list is distinct, sorted, complete and not overdue satisfies it.        *)
ListOK ==
  /\ setlist \in Seq(Clocks)
  /\ settime \in [Clocks -> Nat \cup {Unset}]
  /\ Distinct(setlist)
  /\ SortedBy(setlist, settime)
  /\ \A d \in Clocks : IsSet(d) <=> Occurs(d, setlist)
  /\ \A d \in Clocks : IsSet(d) => d \in live /\ systime <= settime[d]

LEMMA ListOKIs ==
  ASSUME live \subseteq Clocks
  PROVE  ListOK <=> /\ setlist \in Seq(Clocks)
                    /\ settime \in [Clocks -> Nat \cup {Unset}]
                    /\ ListedOnce
                    /\ InOrder
<1>1. ASSUME setlist \in Seq(Clocks)
      PROVE  \A i \in DOMAIN setlist : setlist[i] \in Clocks
  BY <1>1, ElementOfSeq, LenProperties
<1> QED
  BY <1>1 DEF ListOK, ListedOnce, InOrder, Distinct, SortedBy, Occurs, IsSet

(* clock_unset, with what its callers do to the rest.                      *)
LEMMA RemoveKeepsList ==
  ASSUME TypeOK, ListOK, NEW c \in Clocks, Remove1(c),
         \A d \in Clocks : d \in live /\ d # c => d \in live',
         \A d \in Clocks : IsSet(d) /\ d # c => systime' <= settime[d]
  PROVE  ListOK'
<1> DEFINE s == ListWithout(c)
<1>1. ListedOnce /\ InOrder
  BY ListOKIs DEF TypeOK
<1>2. /\ s \in Seq(Clocks) /\ Distinct(s) /\ SortedBy(s, settime)
      /\ \A d \in Clocks : Occurs(d, s) <=> IsSet(d) /\ d # c
  BY <1>1, ListWithoutFacts
<1> HIDE DEF s
<1>3. setlist' = s /\ settime' = [settime EXCEPT ![c] = Unset]
  BY DEF Remove1, s
<1>4. settime' \in [Clocks -> Nat \cup {Unset}]
  BY <1>3 DEF ListOK
<1>5. \A d \in Clocks : /\ IsSet(d)' <=> IsSet(d) /\ d # c
                        /\ d # c => settime'[d] = settime[d]
  BY <1>3, <1>4 DEF ListOK, IsSet, Unset
<1>6. \A i \in DOMAIN s : s[i] \in Clocks /\ s[i] # c
  <2>1. \A i \in DOMAIN s : s[i] \in Clocks
    BY <1>2, ElementOfSeq, LenProperties
  <2> QED BY <1>2, <2>1 DEF Occurs
<1>7. SortedBy(s, settime')
  BY <1>2, <1>5, <1>6 DEF SortedBy
<1> QED BY <1>2, <1>3, <1>4, <1>5, <1>7 DEF ListOK

(* clock_set, in any of its callers.                                       *)
LEMMA SetKeepsList ==
  ASSUME TypeOK, ListOK, NEW c \in live, NEW t \in Int, SetTo(c, t),
         live' = live, systime' = systime
  PROVE  ListOK'
<1> DEFINE s == ListWithout(c)
           u == NotPast(t)
           r == InsertAt(s, PlaceFor(s, u), c)
           f == [settime EXCEPT ![c] = u]
<1>1. ListedOnce /\ InOrder /\ c \in Clocks
  BY ListOKIs DEF TypeOK
<1>2. /\ s \in Seq(Clocks) /\ Distinct(s) /\ SortedBy(s, settime)
      /\ \A d \in Clocks : Occurs(d, s) <=> IsSet(d) /\ d # c
  BY <1>1, ListWithoutFacts
<1>3. u \in Nat /\ systime <= u
  BY DEF NotPast, TypeOK
<1>4. settime \in [Clocks -> Nat \cup {Unset}]
  BY DEF ListOK
<1> HIDE DEF s, u
<1>5. /\ r \in Seq(Clocks) /\ Distinct(r) /\ SortedBy(r, f)
      /\ \A d \in Clocks : Occurs(d, r) <=> Occurs(d, s) \/ d = c
  BY <1>1, <1>2, <1>3, <1>4, InsertFacts
<1>6. setlist' = r /\ settime' = f
  BY DEF SetTo, s, u
<1>7. /\ f \in [Clocks -> Nat \cup {Unset}] /\ f[c] = u
      /\ \A d \in Clocks : d # c => f[d] = settime[d]
  BY <1>1, <1>3, <1>4
<1> HIDE DEF r, f
<1>8. \A d \in Clocks : IsSet(d)' <=> IsSet(d) \/ d = c
  BY <1>3, <1>6, <1>7 DEF IsSet
<1>9. \A d \in Clocks : IsSet(d)' <=> Occurs(d, setlist')
  BY <1>2, <1>5, <1>6, <1>8
<1>10. \A d \in Clocks : IsSet(d)' => d \in live' /\ systime' <= settime'[d]
  BY <1>3, <1>6, <1>7, <1>8 DEF ListOK
<1> QED BY <1>5, <1>6, <1>7, <1>9, <1>10 DEF ListOK
-------------------------------------------------------------------------------
(* Units are never 0 and always have a length.                             *)
LEMMA UnitLengthPositive ==
  ASSUME NEW u \in Int \ {0}
  PROVE  UnitLength(u) \in Nat \ {0}
BY SchedAssumption DEF UnitLength

LEMMA NewUnitNotZero ==
  ASSUME NEW timeunit \in Int, NEW samps \in BOOLEAN
  PROVE  NewUnit(timeunit, samps) \in Int \ {0}
<1> DEFINE positive == IF timeunit <= 0 THEN 1 ELSE timeunit
<1>1. positive \in Nat \ {0}
  OBVIOUS
<1> HIDE DEF positive
<1>2. -positive \in Int \ {0} /\ positive * UnitsPerMsec \in Int \ {0}
  BY <1>1, SchedAssumption
<1> QED BY <1>2 DEF NewUnit, positive

LEMMA InUnitIsInt ==
  ASSUME NEW left \in Int, NEW old \in Int \ {0}, NEW new \in Int \ {0}
  PROVE  InUnit(left, old, new) \in Int
<1>1. UnitLength(old) \in Nat \ {0} /\ UnitLength(new) \in Nat \ {0}
  BY UnitLengthPositive
<1>2. left * UnitLength(new) \in Int
  BY <1>1
<1> QED BY <1>1, <1>2 DEF InUnit

(* The inductive invariant.  ListOK is what makes clock_set and clock_unset*)
(* keep the list; NextAhead makes the end of a tick monotone; GridInv      *)
(* carries OnTheGrid through the phases of a tick.                         *)
IInv == TypeOK /\ ListOK /\ NextAhead /\ GridInv

LEMMA InitIInv == Init => IInv
<1> SUFFICES ASSUME Init PROVE IInv
  OBVIOUS
<1>1. TypeOK
  <2>1. setlist \in Seq(Clocks)
    BY EmptySeq DEF Init
  <2>2. unit \in [Clocks -> Int \ {0}] /\ countdown \in 0..PollEvery
    BY SchedAssumption DEF Init
  <2> QED BY <2>1, <2>2 DEF Init, TypeOK, ClientPhases
<1>2. ListOK
  BY DEF Init, ListOK, Distinct, SortedBy, Occurs, IsSet, Unset
<1>3. NextAhead /\ GridInv
  BY SchedAssumption DEF Init, NextAhead, GridInv
<1> QED BY <1>1, <1>2, <1>3 DEF IInv

(* Client steps leave the tick alone, so they only have to keep the types  *)
(* of the clocks and the list.                                             *)
LEMMA ClientKeeps ==
  ASSUME IInv, Client, ListOK', live' \subseteq Clocks,
         unit' \in [Clocks -> Int \ {0}], reopen' \in BOOLEAN
  PROVE  IInv'
<1>1. TypeOK'
  BY DEF IInv, TypeOK, Client, tickVars, ListOK
<1>2. NextAhead' /\ GridInv'
  BY DEF IInv, Client, tickVars, NextAhead, GridInv
<1> QED BY <1>1, <1>2 DEF IInv

LEMMA ListOKUnchanged ==
  ASSUME ListOK, UNCHANGED <<settime, setlist>>, systime' = systime,
         live \subseteq live'
  PROVE  ListOK'
BY DEF ListOK, Distinct, SortedBy, Occurs, IsSet

LEMMA ClientStepKeeps == IInv /\ ClientStep => IInv'
<1> SUFFICES ASSUME IInv, ClientStep PROVE IInv'
  OBVIOUS
<1>0. TypeOK /\ ListOK /\ live \subseteq Clocks /\ unit \in [Clocks -> Int \ {0}]
      /\ reopen \in BOOLEAN /\ systime \in Nat
      /\ settime \in [Clocks -> Nat \cup {Unset}]
  BY DEF IInv, TypeOK
<1>1. ASSUME NEW c \in Clocks, ClockNew(c) PROVE IInv'
  <2>1. settime[c] = Unset /\ UNCHANGED settime
    <3>1. ~IsSet(c)
      BY <1>0, <1>1 DEF ListOK, ClockNew
    <3> QED BY <1>0, <1>1, <3>1 DEF ClockNew, IsSet, Unset
  <2>2. ListOK'
    BY <1>0, <1>1, <2>1, ListOKUnchanged DEF ClockNew, Client, tickVars
  <2>3. unit' \in [Clocks -> Int \ {0}] /\ live' \subseteq Clocks
    BY <1>0, <1>1, SchedAssumption DEF ClockNew
  <2> QED BY <1>0, <1>1, <2>2, <2>3, ClientKeeps DEF ClockNew
<1>2. ASSUME NEW c \in Clocks, ClockFree(c) PROVE IInv'
  <2>1. ListOK'
    BY <1>0, <1>2, RemoveKeepsList DEF ClockFree, Client, tickVars, ListOK
  <2> QED BY <1>0, <1>2, <2>1, ClientKeeps DEF ClockFree
<1>3. ASSUME NEW c \in Clocks, ClockUnset(c) PROVE IInv'
  <2>1. ListOK'
    BY <1>0, <1>3, RemoveKeepsList DEF ClockUnset, Client, tickVars, ListOK
  <2> QED BY <1>0, <1>3, <2>1, ClientKeeps DEF ClockUnset
<1>4. ASSUME NEW c \in Clocks, NEW t \in Times, ClockSet(c, t) PROVE IInv'
  <2>1. ListOK'
    BY <1>0, <1>4, SetKeepsList, SchedAssumption DEF ClockSet, Client, tickVars
  <2> QED BY <1>0, <1>4, <2>1, ClientKeeps DEF ClockSet
<1>5. ASSUME NEW c \in Clocks, NEW d \in Delays, ClockDelay(c, d) PROVE IInv'
  <2> DEFINE n == UnitLength(unit[c])
             t == systime + d * n
  <2>1. n \in Nat /\ d \in Nat
    BY <1>0, UnitLengthPositive, SchedAssumption
  <2>2. t \in Int
    <3> HIDE DEF n
    <3> QED BY <1>0, <2>1
  <2>3. ListOK'
    <3>1. c \in live /\ SetTo(c, t) /\ live' = live /\ systime' = systime
      BY <1>5 DEF ClockDelay, Client, tickVars
    <3> HIDE DEF t
    <3> QED BY <1>0, <2>2, <3>1, SetKeepsList
  <2> QED BY <1>0, <1>5, <2>3, ClientKeeps DEF ClockDelay
<1>6. ASSUME NEW c \in Clocks, NEW u \in TimeUnits, NEW b \in SampFlags,
             ClockSetUnit(c, u, b)
      PROVE  IInv'
  <2> DEFINE new == NewUnit(u, b)
             t == systime + InUnit(TimeLeft(c), unit[c], new)
  <2>1. new \in Int \ {0}
    BY NewUnitNotZero, SchedAssumption
  <2>2. /\ Client /\ c \in live /\ unit' = [unit EXCEPT ![c] = new]
        /\ live' = live /\ reopen' = reopen /\ systime' = systime
        /\ SetTo(c, t) \/ UNCHANGED <<settime, setlist>>
    BY <1>6 DEF ClockSetUnit, Client, tickVars
  <2>3. t \in Int
    <3> HIDE DEF new
    <3>1. TimeLeft(c) \in Int /\ unit[c] \in Int \ {0}
      BY <1>0 DEF TimeLeft, Unset
    <3> QED BY <1>0, <2>1, <3>1, InUnitIsInt
  <2> HIDE DEF new, t
  <2>4. ListOK'
    BY <1>0, <2>2, <2>3, SetKeepsList, ListOKUnchanged
  <2>5. unit' \in [Clocks -> Int \ {0}]
    BY <1>0, <2>1, <2>2
  <2> QED BY <1>0, <2>2, <2>4, <2>5, ClientKeeps
<1>7. CASE AskReopen
  <2>1. ListOK'
    BY <1>0, <1>7, ListOKUnchanged DEF AskReopen, Client, tickVars, clockVars
  <2> QED BY <1>0, <1>7, <2>1, ClientKeeps DEF AskReopen, clockVars
<1>8. CASE Exit
  <2>1. ListOK'
    BY <1>0, <1>8, ListOKUnchanged DEF Exit, clockVars
  <2>2. TypeOK'
    BY <1>0, <1>8 DEF Exit, clockVars, TypeOK
  <2>3. NextAhead' /\ GridInv'
    BY <1>8 DEF Exit, NextAhead, GridInv
  <2> QED BY <2>1, <2>2, <2>3 DEF IInv
<1> QED BY <1>1, <1>2, <1>3, <1>4, <1>5, <1>6, <1>7, <1>8 DEF ClientStep

(* The clock at the head is due first, so nobody else is due before it.    *)
LEMMA HeadIsFirst ==
  ASSUME TypeOK, ListOK, setlist # <<>>
  PROVE  LET h == Head(setlist)
         IN /\ h \in Clocks /\ IsSet(h) /\ settime[h] \in Nat
            /\ systime <= settime[h]
            /\ \A d \in Clocks : IsSet(d) => settime[h] <= settime[d]
<1> DEFINE h == setlist[1]
<1>1. Head(setlist) = h /\ 1 \in DOMAIN setlist /\ h \in Clocks
  BY LenProperties, ElementOfSeq DEF TypeOK
<1>2. DOMAIN setlist = 1..Len(setlist) /\ Len(setlist) \in Nat
  BY LenProperties DEF TypeOK
<1>3. IsSet(h)
  BY <1>1 DEF ListOK, Occurs
<1>4. settime[h] \in Nat /\ systime <= settime[h]
  BY <1>1, <1>3 DEF ListOK, IsSet, Unset
<1>5. ASSUME NEW d \in Clocks, IsSet(d) PROVE settime[h] <= settime[d]
  <2>1. PICK k \in DOMAIN setlist : setlist[k] = d
    BY <1>5 DEF ListOK, Occurs
  <2>2. k = 1 \/ 1 < k
    BY <1>2
  <2>3. CASE k = 1
    BY <1>4, <2>1, <2>3
  <2>4. CASE 1 < k
    BY <1>1, <2>1, <2>4 DEF ListOK, SortedBy
  <2> QED BY <2>2, <2>3, <2>4
<1> HIDE DEF h
<1> QED BY <1>1, <1>3, <1>4, <1>5

LEMMA TickKeeps == IInv /\ (TickStarts \/ TickStep \/ Restart) => IInv'
<1> SUFFICES ASSUME IInv, TickStarts \/ TickStep \/ Restart PROVE IInv'
  OBVIOUS
<1>0. TypeOK /\ ListOK /\ systime \in Nat /\ next \in Nat /\ ticks \in Nat
      /\ Tick \in Nat \ {0} /\ ticks * Tick \in Nat
      /\ (ticks + 1) * Tick = ticks * Tick + Tick
  BY SchedAssumption DEF IInv, TypeOK
<1>1. CASE TickStarts
  <2>1. ListOK'
    BY <1>0, <1>1, ListOKUnchanged DEF TickStarts, clockVars
  <2>2. TypeOK'
    BY <1>0, <1>1, SchedAssumption DEF TickStarts, clockVars, TypeOK, NextTime
  <2>3. NextAhead' /\ GridInv'
    BY <1>0, <1>1 DEF IInv, TickStarts, NextAhead, GridInv, NextTime
  <2> QED BY <2>1, <2>2, <2>3 DEF IInv
<1>2. CASE TimeoutRings
  <2> DEFINE h == Head(setlist)
  <2>1. /\ h \in Clocks /\ settime[h] \in Nat /\ systime <= settime[h]
        /\ \A d \in Clocks : IsSet(d) => settime[h] <= settime[d]
    BY <1>0, <1>2, HeadIsFirst DEF TimeoutRings, SomeDue
  <2>2. /\ Remove1(h) /\ systime' = settime[h] /\ settime[h] < next
        /\ live' = live
    BY <1>2 DEF TimeoutRings, SomeDue
  <2> HIDE DEF h
  <2>3. ListOK'
    BY <1>0, <2>1, <2>2, RemoveKeepsList
  <2>4. TypeOK'
    BY <1>0, <1>2, <2>1, <2>2, <2>3 DEF TimeoutRings, TypeOK, ClientPhases, ListOK
  <2>5. NextAhead' /\ GridInv'
    BY <1>0, <1>2, <2>1, <2>2 DEF IInv, TimeoutRings, NextAhead, GridInv
  <2> QED BY <2>3, <2>4, <2>5 DEF IInv
<1>3. CASE CallbackReturns
  <2>1. ListOK'
    BY <1>0, <1>3, ListOKUnchanged DEF CallbackReturns, clockVars
  <2>2. TypeOK'
    BY <1>0, <1>3, SchedAssumption
       DEF CallbackReturns, LoopEnds, CountdownAfter, clockVars, TypeOK,
           ClientPhases
  <2>3. NextAhead' /\ GridInv'
    BY <1>0, <1>3
       DEF IInv, TypeOK, CallbackReturns, LoopEnds, NextAhead, GridInv
  <2> QED BY <2>1, <2>2, <2>3 DEF IInv
<1>4. CASE GuiPolled
  <2>1. ListOK'
    BY <1>0, <1>4, ListOKUnchanged DEF GuiPolled, clockVars
  <2>2. TypeOK'
    BY <1>0, <1>4 DEF GuiPolled, LoopEnds, clockVars, TypeOK, ClientPhases
  <2>3. NextAhead' /\ GridInv'
    BY <1>0, <1>4 DEF IInv, TypeOK, GuiPolled, LoopEnds, NextAhead, GridInv
  <2> QED BY <2>1, <2>2, <2>3 DEF IInv
<1>5. CASE TickEnds
  <2>1. \A d \in Clocks : IsSet(d) => next <= settime[d]
    <3>1. CASE setlist = <<>>
      BY <1>0, <3>1 DEF ListOK, Occurs
    <3>2. CASE setlist # <<>>
      <4> DEFINE h == Head(setlist)
      <4>1. /\ settime[h] \in Nat /\ next <= settime[h]
            /\ \A d \in Clocks : IsSet(d) => settime[h] <= settime[d]
        BY <1>0, <1>5, <3>2, HeadIsFirst DEF TickEnds, SomeDue
      <4> HIDE DEF h
      <4> QED BY <1>0, <4>1 DEF ListOK, IsSet, Unset
    <3> QED BY <3>1, <3>2
  <2>2. ListOK'
    BY <1>0, <1>5, <2>1
       DEF TickEnds, TimeAtEnd, clockVars, ListOK, Distinct, SortedBy, Occurs, IsSet
  <2>3. TypeOK'
    BY <1>0, <1>5 DEF TickEnds, TimeAtEnd, clockVars, TypeOK, ClientPhases
  <2>4. NextAhead' /\ GridInv'
    BY <1>0, <1>5 DEF IInv, TickEnds, TimeAtEnd, NextAhead, GridInv
  <2> QED BY <2>2, <2>3, <2>4 DEF IInv
<1>6. CASE DspReturns
  <2>1. ListOK'
    BY <1>0, <1>6, ListOKUnchanged DEF DspReturns, clockVars
  <2>2. TypeOK'
    BY <1>0, <1>6 DEF DspReturns, clockVars, TypeOK, ClientPhases
  <2>3. NextAhead' /\ GridInv'
    BY <1>0, <1>6 DEF IInv, DspReturns, NextAhead, GridInv
  <2> QED BY <2>1, <2>2, <2>3 DEF IInv
<1>7. CASE Restart
  <2>1. ListOK'
    BY <1>0, <1>7, ListOKUnchanged DEF Restart, clockVars, tickVars
  <2>2. TypeOK'
    BY <1>0, <1>7 DEF Restart, clockVars, tickVars, TypeOK
  <2>3. NextAhead' /\ GridInv'
    BY <1>7 DEF IInv, Restart, tickVars, NextAhead, GridInv
  <2> QED BY <2>1, <2>2, <2>3 DEF IInv
<1> QED BY <1>1, <1>2, <1>3, <1>4, <1>5, <1>6, <1>7 DEF TickStep

(* Every step keeps the inductive invariant.                               *)
LEMMA StepKeeps == IInv /\ [Next]_vars => IInv'
<1> SUFFICES ASSUME IInv, [Next]_vars PROVE IInv'
  OBVIOUS
<1>1. CASE Next
  BY <1>1, ClientStepKeeps, TickKeeps DEF Next
<1>2. CASE UNCHANGED vars
  BY <1>2 DEF vars, clockVars, tickVars, IInv, TypeOK, ListOK, NextAhead,
              GridInv, Distinct, SortedBy, Occurs, IsSet
<1> QED BY <1>1, <1>2

THEOREM Invariance == Spec => []IInv
BY InitIInv, StepKeeps, PTL DEF Spec

(* The clocks and the tick keep their types whatever clients call, for     *)
(* every unit they ask for, and a unit is never 0.                         *)
THEOREM TypeCorrect == Spec => []TypeOK
<1>1. IInv => TypeOK
  BY DEF IInv
<1> QED BY Invariance, <1>1, PTL

(* clock_unset never runs off the end of the list and a freed clock never  *)
(* stays in it, for any number of clocks.                                  *)
THEOREM ListIsComplete == Spec => []ListedOnce
<1>1. IInv => ListedOnce
  BY ListOKIs DEF IInv, TypeOK
<1> QED BY Invariance, <1>1, PTL

(* The list is ordered and nothing in it is overdue.                       *)
THEOREM ListIsInOrder == Spec => []InOrder
<1>1. IInv => InOrder
  BY ListOKIs DEF IInv, TypeOK
<1> QED BY Invariance, <1>1, PTL

(* Without a request to reopen the audio in the middle of a tick, logical  *)
(* time never drifts from the count of DSP ticks.                          *)
THEOREM StaysOnTheGrid == Spec => []OnTheGrid
<1>1. IInv => OnTheGrid
  BY DEF IInv, GridInv, OnTheGrid
<1> QED BY Invariance, <1>1, PTL

(* No step takes logical time back.                                        *)
THEOREM TimeNeverGoesBack == Spec => TimeMonotone
<1>1. IInv /\ [Next]_vars => [systime' >= systime]_vars
  <2> SUFFICES ASSUME IInv, Next PROVE systime' >= systime
    OBVIOUS
  <2>0. TypeOK /\ ListOK /\ systime \in Nat /\ next \in Nat
    BY DEF IInv, TypeOK
  <2>1. CASE ClientStep
    BY <2>0, <2>1 DEF ClientStep, ClockNew, ClockFree, ClockUnset, ClockSet,
       ClockDelay, ClockSetUnit, AskReopen, Exit, Client, tickVars
  <2>2. CASE TimeoutRings
    BY <2>0, <2>2, HeadIsFirst DEF TimeoutRings, SomeDue
  <2>3. CASE TickEnds
    BY <2>0, <2>3 DEF IInv, TickEnds, TimeAtEnd, NextAhead
  <2>4. CASE TickStarts \/ CallbackReturns \/ GuiPolled \/ DspReturns \/ Restart
    BY <2>0, <2>4 DEF TickStarts, CallbackReturns, GuiPolled, DspReturns,
                      Restart, tickVars
  <2> QED BY <2>1, <2>2, <2>3, <2>4 DEF Next, TickStep
<1> QED BY Invariance, <1>1, PTL DEF Spec, TimeMonotone
-------------------------------------------------------------------------------
(* The stretch of a list s that is due at t, under the times f: the n      *)
(* places from lo on are the ones due then.                                *)
DueIn(s, f, t) ==
  LET due == {i \in DOMAIN s : f[s[i]] = t}
  IN IF due = {} THEN <<>> ELSE SubSeq(s, Min(due), Max(due))
Stretch(s, f, t, lo, n) ==
  /\ lo \in 1..(Len(s) + 1) /\ n \in Nat /\ lo + n <= Len(s) + 1
  /\ \A j \in 1..Len(s) : f[s[j]] = t <=> lo <= j /\ j < lo + n

(* The place in front of the first clock due later than u.                 *)
FirstLater(s, f, u, p) ==
  /\ p \in 1..(Len(s) + 1)
  /\ p = Len(s) + 1 \/ f[s[p]] > u
  /\ \A j \in 1..(p - 1) : ~(f[s[j]] > u)

(* What Min and Max choose.                                                *)
LEMMA MinIs ==
  ASSUME NEW T \in SUBSET Int, NEW m \in T, \A k \in T : m <= k
  PROVE  Min(T) = m
<1>1. \E x \in T : \A y \in T : x <= y
  OBVIOUS
<1>2. Min(T) \in T /\ \A y \in T : Min(T) <= y
  BY <1>1, Zenon DEF Min
<1>3. Min(T) \in Int /\ m \in Int /\ Min(T) <= m /\ m <= Min(T)
  BY <1>2
<1> QED BY <1>3

LEMMA MaxIs ==
  ASSUME NEW T \in SUBSET Int, NEW m \in T, \A k \in T : k <= m
  PROVE  Max(T) = m
<1>1. \E x \in T : \A y \in T : x >= y
  OBVIOUS
<1>2. Max(T) \in T /\ \A y \in T : Max(T) >= y
  BY <1>1, Zenon DEF Max
<1>3. Max(T) \in Int /\ m \in Int /\ Max(T) <= m /\ m <= Max(T)
  BY <1>2
<1> QED BY <1>3

(* Read element by element.                                                *)
LEMMA DueFacts ==
  ASSUME NEW s \in Seq(Clocks), NEW f, NEW t, NEW lo, NEW n,
         Stretch(s, f, t, lo, n)
  PROVE  /\ DueIn(s, f, t) \in Seq(Clocks)
         /\ Len(DueIn(s, f, t)) = n
         /\ \A k \in 1..n : DueIn(s, f, t)[k] = s[lo + k - 1]
<1> DEFINE due == {i \in DOMAIN s : f[s[i]] = t}
<1>1. /\ Len(s) \in Nat /\ DOMAIN s = 1..Len(s)
      /\ \A j \in 1..Len(s) : s[j] \in Clocks
  BY LenProperties, ElementOfSeq
<1>2. lo \in Nat \ {0} /\ n \in Nat /\ lo + n <= Len(s) + 1
  BY <1>1 DEF Stretch
<1>3. due = {j \in 1..Len(s) : lo <= j /\ j < lo + n}
  BY <1>1 DEF Stretch
<1> HIDE DEF due
<1>4. CASE n = 0
  <2>1. due = {}
    BY <1>1, <1>2, <1>3, <1>4
  <2>2. DueIn(s, f, t) = <<>>
    BY <2>1 DEF DueIn, due
  <2> QED BY <2>2, <1>4, EmptySeq
<1>5. CASE n # 0
  <2>1. lo \in due /\ \A j \in due : lo <= j
    BY <1>1, <1>2, <1>3, <1>5
  <2>2. lo + n - 1 \in due /\ \A j \in due : j <= lo + n - 1
    BY <1>1, <1>2, <1>3, <1>5
  <2>3. due \subseteq Int
    BY <1>3
  <2>4. Min(due) = lo
    BY <2>1, <2>3, MinIs
  <2>5. Max(due) = lo + n - 1
    BY <2>2, <2>3, MaxIs
  <2>6. DueIn(s, f, t) = SubSeq(s, lo, lo + n - 1)
    BY <2>1, <2>4, <2>5 DEF DueIn, due
  <2>7. \A i \in lo..(lo + n - 1) : s[i] \in Clocks
    BY <1>1, <1>2
  <2>8. /\ SubSeq(s, lo, lo + n - 1) \in Seq(Clocks)
        /\ Len(SubSeq(s, lo, lo + n - 1)) = n
        /\ \A k \in 1..n : SubSeq(s, lo, lo + n - 1)[k] = s[lo + k - 1]
    <3> DEFINE hi == lo + n - 1
    <3>1. lo \in Int /\ hi \in Int /\ lo <= hi /\ hi - lo + 1 = n
      BY <1>2, <1>5
    <3>2. \A i \in lo..hi : s[i] \in Clocks
      BY <2>7
    <3> HIDE DEF hi
    <3>3. /\ SubSeq(s, lo, hi) \in Seq(Clocks)
          /\ Len(SubSeq(s, lo, hi)) = n
          /\ \A k \in 1..n : SubSeq(s, lo, hi)[k] = s[lo + k - 1]
      <4>1. /\ SubSeq(s, lo, hi) \in Seq(Clocks)
            /\ Len(SubSeq(s, lo, hi)) =
                 IF lo <= hi THEN hi - lo + 1 ELSE 0
            /\ \A k \in 1..(hi - lo + 1) : SubSeq(s, lo, hi)[k] = s[lo + k - 1]
        BY <3>1, <3>2, SubSeqProperties
      <4> QED BY <3>1, <4>1
    <3> QED BY <3>3 DEF hi
  <2> QED BY <2>6, <2>8
<1> QED BY <1>4, <1>5

(* In an ordered list the places due at an instant are such a stretch.     *)
LEMMA StretchExists ==
  ASSUME NEW s \in Seq(Clocks), NEW f, NEW t \in Int, SortedBy(s, f),
         \A j \in 1..Len(s) : f[s[j]] \in Int
  PROVE  \E lo, n : Stretch(s, f, t, lo, n)
<1>1. Len(s) \in Nat /\ DOMAIN s = 1..Len(s)
  BY LenProperties
<1> DEFINE L == {i \in 1..(Len(s) + 1) : i = Len(s) + 1 \/ f[s[i]] >= t}
           H == {i \in 1..(Len(s) + 1) : i = Len(s) + 1 \/ f[s[i]] > t}
<1>2. L \in SUBSET Nat /\ Len(s) + 1 \in L /\ H \in SUBSET Nat /\ Len(s) + 1 \in H
  BY <1>1
<1>3. PICK lo \in L : \A k \in L : lo <= k
  <2> HIDE DEF L
  <2> QED BY <1>2, Least
<1>4. PICK hi \in H : \A k \in H : hi <= k
  <2> HIDE DEF H
  <2> QED BY <1>2, Least
<1>5. lo \in 1..(Len(s) + 1) /\ hi \in 1..(Len(s) + 1)
  OBVIOUS
<1>6. hi \in L
  BY <1>1
<1>7. lo <= hi
  BY <1>3, <1>6
<1>8. ASSUME NEW j \in 1..Len(s)
      PROVE  f[s[j]] = t <=> lo <= j /\ j < hi
  <2>1. CASE j < lo
    <3>1. j \notin L /\ j \in 1..(Len(s) + 1)
      BY <1>1, <1>3, <1>5, <2>1
    <3>2. ~(f[s[j]] >= t)
      BY <3>1
    <3> QED BY <2>1, <3>2, <1>5
  <2>2. CASE hi <= j
    <3>1. hi # Len(s) + 1 /\ hi \in 1..Len(s)
      BY <1>1, <1>5, <2>2
    <3>2. f[s[hi]] > t
      BY <1>1, <3>1
    <3>3. f[s[hi]] <= f[s[j]]
      <4>1. CASE hi = j
        BY <4>1
      <4>2. CASE hi < j
        BY <1>1, <3>1, <4>2 DEF SortedBy
      <4> QED BY <1>5, <2>2, <4>1, <4>2
    <3>4. f[s[hi]] \in Int /\ f[s[j]] \in Int
      BY <3>1
    <3> QED BY <2>2, <3>2, <3>3, <3>4, <1>5
  <2>3. CASE lo <= j /\ j < hi
    <3>1. j \notin H /\ j \in 1..(Len(s) + 1)
      BY <1>1, <1>4, <1>5, <2>3
    <3>2. ~(f[s[j]] > t)
      BY <3>1
    <3>3. lo \in 1..Len(s) /\ f[s[lo]] >= t
      BY <1>1, <1>5, <2>3
    <3>4. f[s[lo]] <= f[s[j]]
      <4>1. CASE lo = j
        BY <4>1, <3>3
      <4>2. CASE lo < j
        BY <1>1, <3>3, <4>2 DEF SortedBy
      <4> QED BY <1>5, <2>3, <4>1, <4>2
    <3>5. f[s[lo]] \in Int /\ f[s[j]] \in Int
      BY <3>3
    <3> QED BY <2>3, <3>2, <3>3, <3>4, <3>5
  <2> QED BY <1>5, <2>1, <2>2, <2>3
<1>9. Stretch(s, f, t, lo, hi - lo)
  <2> HIDE DEF L, H
  <2>1. hi - lo \in Nat /\ lo + (hi - lo) = hi
    BY <1>5, <1>7
  <2> QED BY <1>5, <1>8, <2>1 DEF Stretch
<1> QED BY <1>9

(* Only the times of the clocks in the list matter.                        *)
LEMMA SameTimes ==
  ASSUME NEW s \in Seq(Clocks), NEW f, NEW g, NEW t,
         \A j \in DOMAIN s : f[s[j]] = g[s[j]]
  PROVE  DueIn(s, f, t) = DueIn(s, g, t)
<1>1. {i \in DOMAIN s : f[s[i]] = t} = {i \in DOMAIN s : g[s[i]] = t}
  OBVIOUS
<1> QED BY <1>1 DEF DueIn

(* Every clock of a stretch is in the list and due at its instant.         *)
LEMMA DueAreDue ==
  ASSUME NEW s \in Seq(Clocks), NEW f, NEW t \in Int, SortedBy(s, f),
         \A j \in 1..Len(s) : f[s[j]] \in Int
  PROVE  \A k \in DOMAIN DueIn(s, f, t) :
           /\ f[DueIn(s, f, t)[k]] = t
           /\ \E j \in DOMAIN s : DueIn(s, f, t)[k] = s[j]
<1>1. PICK lo, n : Stretch(s, f, t, lo, n)
  BY StretchExists
<1>2. Len(s) \in Nat /\ DOMAIN s = 1..Len(s)
  BY LenProperties
<1> DEFINE q == DueIn(s, f, t)
<1>3. q \in Seq(Clocks) /\ Len(q) = n /\ \A k \in 1..n : q[k] = s[lo + k - 1]
  BY <1>1, DueFacts
<1> HIDE DEF q
<1>4. DOMAIN q = 1..n
  BY <1>3, LenProperties
<1>5. \A k \in 1..n : /\ lo + k - 1 \in 1..Len(s)
                      /\ f[s[lo + k - 1]] = t
  BY <1>1, <1>2 DEF Stretch
<1> QED BY <1>2, <1>3, <1>4, <1>5 DEF q

(* Taking a clock out of the list takes it out of its queue.               *)
LEMMA DueRemoved ==
  ASSUME NEW s \in Seq(Clocks), NEW f, NEW t \in Int, NEW p \in 1..Len(s),
         Distinct(s), SortedBy(s, f), \A j \in 1..Len(s) : f[s[j]] \in Int
  PROVE  DueIn(RemoveAt(s, p), f, t) = Promise!Less(DueIn(s, f, t), s[p])
<1> DEFINE r == RemoveAt(s, p)
           q == DueIn(s, f, t)
<1>1. Len(s) \in Nat /\ DOMAIN s = 1..Len(s)
  BY LenProperties
<1>2. PICK lo, n : Stretch(s, f, t, lo, n)
  BY StretchExists
<1>3. /\ lo \in Nat \ {0} /\ n \in Nat /\ lo + n <= Len(s) + 1
      /\ \A j \in 1..Len(s) : f[s[j]] = t <=> lo <= j /\ j < lo + n
  BY <1>1, <1>2 DEF Stretch
<1>4. q \in Seq(Clocks) /\ Len(q) = n /\ \A k \in 1..n : q[k] = s[lo + k - 1]
  <2>1. Stretch(s, f, t, lo, n) /\ n \in Nat
    BY <1>2, <1>3
  <2> QED BY <2>1, DueFacts
<1>5. /\ r \in Seq(Clocks) /\ Len(r) = Len(s) - 1
      /\ \A j \in 1..(Len(s) - 1) : r[j] = IF j < p THEN s[j] ELSE s[j + 1]
  BY RemoveAtFacts
<1> HIDE DEF q, r
<1>6. DOMAIN q = 1..n
  BY <1>4, LenProperties
<1>7. \A i, j \in 1..Len(s) : s[i] = s[j] => i = j
  BY <1>1 DEF Distinct
<1>8. CASE lo <= p /\ p < lo + n
  <2> DEFINE i == p - lo + 1
  <2>1. i \in 1..n /\ lo + i - 1 = p
    BY <1>3, <1>8
  <2>2. q[i] = s[p]
    BY <1>4, <2>1
  <2>3. \A k \in 1..n : q[k] = s[p] => k = i
    <3> TAKE k \in 1..n
    <3> HAVE q[k] = s[p]
    <3> DEFINE j == lo + k - 1
    <3>1. j \in 1..Len(s) /\ q[k] = s[j]
      BY <1>1, <1>3, <1>4
    <3> HIDE DEF j
    <3>2. j = p
      BY <1>7, <3>1
    <3> QED BY <1>3, <3>2 DEF j
  <2> HIDE DEF i
  <2>4. (CHOOSE k \in DOMAIN q : q[k] = s[p]) = i
    BY <1>6, <2>1, <2>2, <2>3
  <2>5. Promise!Less(q, s[p]) = RemoveAt(q, i)
    <3>1. \E k \in DOMAIN q : q[k] = s[p]
      BY <1>6, <2>1, <2>2
    <3> QED BY <2>4, <3>1, Zenon DEF Promise!Less, Promise!RemoveAt, RemoveAt
  <2>6. /\ RemoveAt(q, i) \in Seq(Clocks) /\ Len(RemoveAt(q, i)) = n - 1
        /\ \A k \in 1..(n - 1) :
             RemoveAt(q, i)[k] = IF k < i THEN q[k] ELSE q[k + 1]
    BY <1>4, <2>1, RemoveAtFacts
  <2>7. Stretch(r, f, t, lo, n - 1)
    <3>1. \A j \in 1..Len(r) : f[r[j]] = t <=> lo <= j /\ j < lo + (n - 1)
      BY <1>1, <1>3, <1>5, <1>8
    <3>2. /\ lo \in 1..(Len(r) + 1) /\ n - 1 \in Nat
          /\ lo + (n - 1) <= Len(r) + 1
      BY <1>1, <1>3, <1>5, <1>8
    <3> QED BY <3>1, <3>2 DEF Stretch
  <2>8. /\ DueIn(r, f, t) \in Seq(Clocks) /\ Len(DueIn(r, f, t)) = n - 1
        /\ \A k \in 1..(n - 1) : DueIn(r, f, t)[k] = r[lo + k - 1]
    BY <1>5, <2>7, DueFacts
  <2>9. ASSUME NEW k \in 1..(n - 1)
        PROVE  DueIn(r, f, t)[k] = RemoveAt(q, i)[k]
    <3>1. lo + k - 1 \in 1..(Len(s) - 1) /\ k \in 1..n /\ k + 1 \in 1..n
      BY <1>1, <1>3
    <3>2. lo + (k + 1) - 1 = (lo + k - 1) + 1
      BY <1>3
    <3>3. k < i <=> lo + k - 1 < p
      BY <1>3, <2>1
    <3>4. q[k] = s[lo + k - 1] /\ q[k + 1] = s[(lo + k - 1) + 1]
      BY <1>4, <3>1, <3>2
    <3>5. r[lo + k - 1] =
            IF lo + k - 1 < p THEN s[lo + k - 1] ELSE s[(lo + k - 1) + 1]
      BY <1>5, <3>1
    <3>6. DueIn(r, f, t)[k] = r[lo + k - 1]
      BY <2>8
    <3>7. RemoveAt(q, i)[k] = IF k < i THEN q[k] ELSE q[k + 1]
      BY <2>6
    <3> QED BY <3>3, <3>4, <3>5, <3>6, <3>7
  <2>10. DueIn(r, f, t) = RemoveAt(q, i)
    <3> DEFINE a == DueIn(r, f, t)
               b == RemoveAt(q, i)
    <3>1. /\ a \in Seq(Clocks) /\ b \in Seq(Clocks) /\ Len(a) = Len(b)
          /\ \A k \in 1..Len(a) : a[k] = b[k]
      BY <2>6, <2>8, <2>9
    <3> HIDE DEF a, b
    <3>2. a = b
      BY <3>1, SeqEqual
    <3> QED BY <3>2 DEF a, b
  <2> QED BY <2>5, <2>10 DEF q, r
<1>9. CASE ~(lo <= p /\ p < lo + n)
  <2>1. \A k \in DOMAIN q : q[k] # s[p]
    BY <1>1, <1>3, <1>4, <1>6, <1>7, <1>9
  <2>2. Promise!Less(q, s[p]) = q
    BY <2>1 DEF Promise!Less
  <2> DEFINE lo2 == IF p < lo THEN lo - 1 ELSE lo
  <2>3. Stretch(r, f, t, lo2, n)
    <3>1. /\ lo2 \in 1..(Len(r) + 1) /\ lo2 + n <= Len(r) + 1
      BY <1>1, <1>3, <1>5, <1>9
    <3>2. \A j \in 1..Len(r) : f[r[j]] = t <=> lo2 <= j /\ j < lo2 + n
      BY <1>1, <1>3, <1>5, <1>9
    <3> QED BY <1>3, <3>1, <3>2 DEF Stretch
  <2> HIDE DEF lo2
  <2>4. /\ DueIn(r, f, t) \in Seq(Clocks) /\ Len(DueIn(r, f, t)) = n
        /\ \A k \in 1..n : DueIn(r, f, t)[k] = r[lo2 + k - 1]
    BY <1>5, <2>3, DueFacts
  <2>5. ASSUME NEW k \in 1..n PROVE r[lo2 + k - 1] = s[lo + k - 1]
    <3> DEFINE j == lo2 + k - 1
    <3>1. /\ j \in 1..(Len(s) - 1) /\ (p < lo => ~(j < p) /\ j + 1 = lo + k - 1)
          /\ (~(p < lo) => j < p /\ j = lo + k - 1)
      BY <1>1, <1>3, <1>9 DEF lo2
    <3> HIDE DEF j
    <3>2. r[j] = IF j < p THEN s[j] ELSE s[j + 1]
      BY <1>5, <3>1
    <3>3. r[j] = s[lo + k - 1]
      BY <3>1, <3>2
    <3> QED BY <3>3 DEF j
  <2>6. \A k \in 1..n : DueIn(r, f, t)[k] = q[k]
    BY <1>4, <2>4, <2>5
  <2>7. DueIn(r, f, t) = q
    <3> DEFINE a == DueIn(r, f, t)
    <3>1. /\ a \in Seq(Clocks) /\ Len(a) = Len(q)
          /\ \A k \in 1..Len(a) : a[k] = q[k]
      BY <1>4, <2>4, <2>6
    <3> HIDE DEF a
    <3>2. a = q
      BY <1>4, <3>1, SeqEqual
    <3> QED BY <3>2 DEF a
  <2> QED BY <2>2, <2>7 DEF q, r
<1> QED BY <1>8, <1>9

(* Putting a clock in front of the first one due later puts it at the end  *)
(* of the queue of its instant and leaves the other queues alone.          *)
LEMMA DueInserted ==
  ASSUME NEW s \in Seq(Clocks), NEW f \in [Clocks -> Int], NEW t \in Int,
         NEW c \in Clocks, NEW u \in Int, NEW p,
         NEW g, g[c] = u, \A d \in Clocks \ {c} : g[d] = f[d],
         SortedBy(s, f), ~Occurs(c, s), FirstLater(s, f, u, p)
  PROVE  DueIn(InsertAt(s, p, c), g, t) =
           IF t = u THEN Append(DueIn(s, f, t), c) ELSE DueIn(s, f, t)
<1> DEFINE r == InsertAt(s, p, c)
           q == DueIn(s, f, t)
<1>1. /\ Len(s) \in Nat /\ DOMAIN s = 1..Len(s)
      /\ \A j \in 1..Len(s) : s[j] \in Clocks /\ s[j] # c
  BY LenProperties, ElementOfSeq DEF Occurs
<1>0. /\ p \in 1..(Len(s) + 1)
      /\ p = Len(s) + 1 \/ f[s[p]] > u
      /\ \A j \in 1..(p - 1) : ~(f[s[j]] > u)
  BY DEF FirstLater
<1> USE <1>0
<1>2. /\ r \in Seq(Clocks) /\ Len(r) = Len(s) + 1
      /\ \A j \in 1..(Len(s) + 1) :
           r[j] = IF j < p THEN s[j] ELSE IF j = p THEN c ELSE s[j - 1]
  BY InsertAtFacts
<1>3. \A j \in 1..Len(s) : f[s[j]] \in Int /\ g[s[j]] = f[s[j]]
  BY <1>1
<1>4. g[c] = u
  OBVIOUS
<1> HIDE DEF r
<1>5. \A j \in 1..Len(s) : j >= p => f[s[j]] > u
  <2> TAKE j \in 1..Len(s)
  <2> HAVE j >= p
  <2>1. p \in 1..Len(s) /\ f[s[p]] > u
    BY <1>1
  <2>2. CASE j = p
    BY <2>1, <2>2
  <2>3. CASE p < j
    <3>1. f[s[p]] <= f[s[j]]
      BY <1>1, <2>1, <2>3 DEF SortedBy
    <3> QED BY <1>3, <2>1, <3>1
  <2> QED BY <1>1, <2>2, <2>3
<1>6. \A j \in 1..Len(s) : j < p => f[s[j]] <= u
  BY <1>1, <1>3
<1>7. ASSUME NEW j \in 1..Len(r)
      PROVE  g[r[j]] = IF j < p THEN f[s[j]] ELSE IF j = p THEN u ELSE f[s[j - 1]]
  <2>1. CASE j < p
    <3>1. j \in 1..Len(s) /\ r[j] = s[j]
      BY <1>1, <1>2, <2>1
    <3> QED BY <1>3, <2>1, <3>1
  <2>2. CASE j = p
    <3>1. r[j] = c
      BY <1>2, <2>2
    <3> QED BY <1>4, <2>2, <3>1
  <2>3. CASE j > p
    <3>1. j - 1 \in 1..Len(s) /\ r[j] = s[j - 1] /\ ~(j < p) /\ j # p
      BY <1>1, <1>2, <2>3
    <3>2. g[s[j - 1]] = f[s[j - 1]]
      BY <1>3, <3>1
    <3> QED BY <3>1, <3>2
  <2> QED BY <1>1, <1>2, <2>1, <2>2, <2>3
<1>8. PICK lo1, n : Stretch(s, f, t, lo1, n)
  BY <1>3, StretchExists
<1> DEFINE lo == IF n = 0 THEN p ELSE lo1
<1>9. /\ lo \in 1..(Len(s) + 1) /\ n \in Nat /\ lo + n <= Len(s) + 1
      /\ \A j \in 1..Len(s) : f[s[j]] = t <=> lo <= j /\ j < lo + n
  BY <1>1, <1>8 DEF Stretch
<1>10. n = 0 => lo = p
  OBVIOUS
<1> HIDE DEF lo
<1>11. q \in Seq(Clocks) /\ Len(q) = n /\ \A k \in 1..n : q[k] = s[lo + k - 1]
  <2>1. Stretch(s, f, t, lo, n)
    BY <1>9 DEF Stretch
  <2> QED BY <2>1, DueFacts
<1> HIDE DEF q
<1>12. CASE t = u
  <2>1. lo + n = p
    <3>1. CASE n = 0
      BY <1>9, <1>10, <3>1
    <3>2. CASE n # 0
      <4>1. lo + n - 1 \in 1..Len(s) /\ f[s[lo + n - 1]] = t
        BY <1>1, <1>9, <3>2
      <4>2. lo + n - 1 < p
        <5> DEFINE j == lo + n - 1
        <5>1. j \in 1..Len(s) /\ f[s[j]] = u
          BY <1>12, <4>1
        <5> HIDE DEF j
        <5>2. ~(j >= p)
          BY <1>3, <1>5, <5>1
        <5>3. j < p
          BY <5>1, <5>2
        <5> QED BY <5>3 DEF j
      <4>3. ~(lo + n < p)
        <5> SUFFICES ASSUME lo + n < p PROVE FALSE
          OBVIOUS
        <5>1. lo + n \in 1..Len(s) /\ f[s[lo + n]] # t
          BY <1>1, <1>9
        <5>2. f[s[lo + n]] <= u
          BY <1>6, <5>1
        <5>3. lo + n - 1 < lo + n
          BY <1>9
        <5>4. f[s[lo + n - 1]] <= f[s[lo + n]]
          BY <1>1, <4>1, <5>1, <5>3 DEF SortedBy
        <5> QED BY <1>3, <1>12, <4>1, <5>1, <5>2, <5>4
      <4> QED BY <1>9, <4>2, <4>3
    <3> QED BY <3>1, <3>2
  <2>2. Stretch(r, g, t, lo, n + 1)
    <3>1. /\ lo \in 1..(Len(r) + 1) /\ n + 1 \in Nat
          /\ lo + (n + 1) <= Len(r) + 1
      BY <1>1, <1>2, <1>9
    <3>2. ASSUME NEW j \in 1..Len(r)
          PROVE  g[r[j]] = t <=> lo <= j /\ j < lo + (n + 1)
      <4>1. CASE j < p
        <5>1. j \in 1..Len(s) /\ g[r[j]] = f[s[j]]
          BY <1>1, <1>2, <1>7, <4>1
        <5>2. f[s[j]] = t <=> lo <= j /\ j < lo + n
          BY <1>9, <5>1
        <5>3. j < lo + n /\ j < lo + (n + 1)
          BY <1>9, <2>1, <4>1
        <5> QED BY <5>1, <5>2, <5>3
      <4>2. CASE j = p
        <5>1. g[r[j]] = u
          BY <1>7, <4>2
        <5> QED BY <1>9, <1>12, <2>1, <4>2, <5>1
      <4>3. CASE j > p
        <5>1. /\ j - 1 \in 1..Len(s) /\ j - 1 >= p /\ ~(j < p) /\ j # p
              /\ ~(j < lo + (n + 1))
          BY <1>1, <1>2, <1>9, <2>1, <4>3
        <5>2. g[r[j]] = f[s[j - 1]]
          BY <1>7, <5>1
        <5>3. f[s[j - 1]] > u /\ f[s[j - 1]] \in Int
          BY <1>3, <1>5, <5>1
        <5> QED BY <1>12, <5>1, <5>2, <5>3
      <4> QED BY <1>2, <4>1, <4>2, <4>3
    <3> QED BY <3>1, <3>2 DEF Stretch
  <2>3. /\ DueIn(r, g, t) \in Seq(Clocks) /\ Len(DueIn(r, g, t)) = n + 1
        /\ \A k \in 1..(n + 1) : DueIn(r, g, t)[k] = r[lo + k - 1]
    <3>1. n + 1 \in Nat
      BY <1>9
    <3> QED BY SMTT(30), <1>2, <2>2, <3>1, DueFacts
  <2>4. /\ Append(q, c) \in Seq(Clocks) /\ Len(Append(q, c)) = n + 1
        /\ \A k \in 1..n : Append(q, c)[k] = q[k]
        /\ Append(q, c)[n + 1] = c
    BY <1>11, AppendProperties
  <2>5. ASSUME NEW k \in 1..(n + 1)
        PROVE  DueIn(r, g, t)[k] = Append(q, c)[k]
    <3>1. CASE k = n + 1
      <4>1. lo + k - 1 = p
        BY <1>9, <2>1, <3>1
      <4>2. r[p] = c
        BY <1>2
      <4> QED BY <2>3, <2>4, <3>1, <4>1, <4>2
    <3>2. CASE k \in 1..n
      <4>1. lo + k - 1 \in 1..(Len(s) + 1) /\ lo + k - 1 < p
        BY <1>9, <2>1, <3>2
      <4>2. r[lo + k - 1] = s[lo + k - 1]
        BY <1>2, <4>1
      <4> QED BY <1>11, <2>3, <2>4, <3>2, <4>2
    <3>3. k = n + 1 \/ k \in 1..n
      BY <1>9
    <3> QED BY <3>1, <3>2, <3>3
  <2>6. DueIn(r, g, t) = Append(q, c)
    <3> DEFINE a == DueIn(r, g, t)
               b == Append(q, c)
    <3>1. /\ a \in Seq(Clocks) /\ b \in Seq(Clocks) /\ Len(a) = Len(b)
          /\ \A k \in 1..Len(a) : a[k] = b[k]
      BY <2>3, <2>4, <2>5
    <3> HIDE DEF a, b
    <3>2. a = b
      BY <3>1, SeqEqual
    <3> QED BY <3>2 DEF a, b
  <2> QED BY <1>12, <2>6 DEF q, r
<1>13. CASE t # u
  <2>1. n = 0 \/ lo + n <= p \/ p <= lo
    <3> SUFFICES ASSUME n # 0, ~(lo + n <= p), ~(p <= lo) PROVE FALSE
      OBVIOUS
    <3>1. lo \in 1..Len(s) /\ f[s[lo]] = t /\ lo < p
      BY <1>1, <1>9
    <3>2. p \in 1..Len(s) /\ f[s[p]] = t
      BY <1>1, <1>9
    <3> QED BY <1>3, <1>5, <1>6, <3>1, <3>2
  <2> DEFINE lo2 == IF p <= lo THEN lo + 1 ELSE lo
  <2>2. Stretch(r, g, t, lo2, n)
    <3>1. /\ lo2 \in 1..(Len(r) + 1) /\ lo2 + n <= Len(r) + 1
      <4>1. CASE p <= lo
        <5>1. lo2 = lo + 1
          BY <4>1
        <5>2. lo <= Len(s) + 1 /\ lo + n <= Len(s) + 1 /\ Len(r) = Len(s) + 1
          BY <1>2, <1>9
        <5> QED BY <1>1, <1>9, <5>1, <5>2
      <4>2. CASE ~(p <= lo)
        <5>1. lo2 = lo
          BY <4>2
        <5> QED BY <1>1, <1>2, <1>9, <5>1
      <4> QED BY <4>1, <4>2
    <3>2. ASSUME NEW j \in 1..Len(r)
          PROVE  g[r[j]] = t <=> lo2 <= j /\ j < lo2 + n
      <4>0. /\ p <= lo => lo2 = lo + 1
            /\ ~(p <= lo) => lo2 = lo /\ lo + n <= p
        BY <1>9, <1>10, <2>1
      <4> HIDE DEF lo2
      <4>1. CASE j < p
        <5>1. j \in 1..Len(s) /\ g[r[j]] = f[s[j]]
          BY <1>1, <1>2, <1>7, <4>1
        <5>2. f[s[j]] = t <=> lo <= j /\ j < lo + n
          BY <1>9, <5>1
        <5>3. (lo <= j /\ j < lo + n) <=> (lo2 <= j /\ j < lo2 + n)
          BY <1>9, <4>0, <4>1
        <5> QED BY <5>1, <5>2, <5>3
      <4>2. CASE j = p
        <5>1. g[r[j]] = u
          BY <1>7, <4>2
        <5>2. ~(lo2 <= j /\ j < lo2 + n)
          BY <1>9, <4>0, <4>2
        <5> QED BY <1>13, <5>1, <5>2
      <4>3. CASE j > p
        <5>1. j - 1 \in 1..Len(s) /\ ~(j < p) /\ j # p
          BY <1>1, <1>2, <4>3
        <5>2. g[r[j]] = f[s[j - 1]]
          BY <1>7, <5>1
        <5>3. f[s[j - 1]] = t <=> lo <= j - 1 /\ j - 1 < lo + n
          BY <1>9, <5>1
        <5>4. (lo <= j - 1 /\ j - 1 < lo + n) <=> (lo2 <= j /\ j < lo2 + n)
          BY <1>9, <4>0, <4>3
        <5> QED BY <5>2, <5>3, <5>4
      <4> QED BY <1>2, <4>1, <4>2, <4>3
    <3> QED BY <1>9, <3>1, <3>2 DEF Stretch
  <2> HIDE DEF lo2
  <2>3. /\ DueIn(r, g, t) \in Seq(Clocks) /\ Len(DueIn(r, g, t)) = n
        /\ \A k \in 1..n : DueIn(r, g, t)[k] = r[lo2 + k - 1]
    <3>1. r \in Seq(Clocks) /\ n \in Nat
      BY <1>2, <1>9
    <3> QED BY <2>2, <3>1, DueFacts
  <2>4. ASSUME NEW k \in 1..n PROVE r[lo2 + k - 1] = s[lo + k - 1]
    <3> DEFINE j == lo2 + k - 1
    <3>1. /\ j \in 1..(Len(s) + 1)
          /\ (p <= lo => ~(j < p) /\ j # p /\ j - 1 = lo + k - 1)
          /\ (~(p <= lo) => j < p /\ j = lo + k - 1)
      BY <1>1, <1>9, <2>1 DEF lo2
    <3> HIDE DEF j
    <3>2. r[j] = IF j < p THEN s[j] ELSE IF j = p THEN c ELSE s[j - 1]
      BY <1>2, <3>1
    <3>3. r[j] = s[lo + k - 1]
      BY <3>1, <3>2
    <3> QED BY <3>3 DEF j
  <2>5. DueIn(r, g, t) = q
    <3> DEFINE a == DueIn(r, g, t)
    <3>1. \A k \in 1..n : a[k] = q[k]
      <4> TAKE k \in 1..n
      <4>1. a[k] = r[lo2 + k - 1]
        BY <2>3
      <4> HIDE DEF a
      <4> QED BY <1>11, <2>4, <4>1
    <3>2. a \in Seq(Clocks) /\ Len(a) = n
      BY <2>3
    <3> HIDE DEF a
    <3>3. Len(a) = Len(q) /\ \A k \in 1..Len(a) : a[k] = q[k]
      BY <1>11, <3>1, <3>2
    <3> HIDE DEF a
    <3>4. a = q
      BY <1>11, <3>2, <3>3, SeqEqual
    <3> QED BY <3>4 DEF a
  <2> QED BY <1>13, <2>5 DEF q, r
<1> QED BY <1>12, <1>13

(* What clock_unset leaves of each queue.                                  *)
LEMMA WithoutIs ==
  ASSUME TypeOK, ListOK, NEW c \in Clocks
  PROVE  \A t \in 0..LastInstant :
           Promise!Without(c)[t] = DueIn(ListWithout(c), settime, t)
<1> TAKE t \in 0..LastInstant
<1>1. t \in Int /\ setlist \in Seq(Clocks) /\ SortedBy(setlist, settime)
      /\ DOMAIN setlist = 1..Len(setlist)
  BY LenProperties DEF ListOK
<1>2. \A j \in 1..Len(setlist) : setlist[j] \in Clocks /\ settime[setlist[j]] \in Int
  BY <1>1, ElementOfSeq DEF ListOK, Unset
<1>3. Promise!Without(c)[t] = Promise!Less(DueIn(setlist, settime, t), c)
  BY DEF Promise!Without, DueAt, DueIn
<1>4. CASE IsSet(c)
  <2> DEFINE p == PlaceOf(c)
  <2>1. \E i \in DOMAIN setlist : setlist[i] = c
    BY <1>4 DEF ListOK, Occurs
  <2>2. p \in DOMAIN setlist /\ setlist[p] = c
    BY <2>1, Zenon DEF PlaceOf
  <2>3. ListWithout(c) = RemoveAt(setlist, p)
    BY <1>4 DEF ListWithout
  <2> HIDE DEF p
  <2>4. p \in 1..Len(setlist) /\ Distinct(setlist)
    BY <1>1, <2>2 DEF ListOK
  <2>5. DueIn(RemoveAt(setlist, p), settime, t)
          = Promise!Less(DueIn(setlist, settime, t), setlist[p])
    BY <1>1, <1>2, <2>4, DueRemoved
  <2> QED BY <1>3, <2>2, <2>3, <2>5
<1>5. CASE ~IsSet(c)
  <2> DEFINE q == DueIn(setlist, settime, t)
  <2>1. \A k \in DOMAIN q : \E j \in DOMAIN setlist : q[k] = setlist[j]
    BY <1>1, <1>2, DueAreDue
  <2>2. \A j \in DOMAIN setlist : setlist[j] # c
    BY <1>5 DEF ListOK, Occurs
  <2> HIDE DEF q
  <2>3. ~ \E k \in DOMAIN q : q[k] = c
    BY <2>1, <2>2
  <2>4. Promise!Less(q, c) = q
    BY <2>3, Zenon DEF Promise!Less
  <2> QED BY <1>3, <1>5, <2>4 DEF q, ListWithout
<1> QED BY <1>4, <1>5

(* So clock_unset, or a clock that rings, leaves its queue ...             *)
LEMMA RemoveLeavesQueue ==
  ASSUME TypeOK, ListOK, NEW c \in Clocks, Remove1(c)
  PROVE  [t \in 0..LastInstant |-> DueAt(t)]' = Promise!Without(c)
<1> DEFINE s == ListWithout(c)
           f == [settime EXCEPT ![c] = Unset]
<1>1. ListedOnce /\ InOrder
  BY ListOKIs DEF TypeOK
<1>2. s \in Seq(Clocks) /\ \A d \in Clocks : Occurs(d, s) <=> IsSet(d) /\ d # c
  BY <1>1, ListWithoutFacts
<1>3. setlist' = s /\ settime' = f
  BY DEF Remove1
<1> HIDE DEF s
<1>4. \A j \in DOMAIN s : settime[s[j]] = f[s[j]]
  <2> TAKE j \in DOMAIN s
  <2>1. s[j] \in Clocks
    BY <1>2, ElementOfSeq, LenProperties
  <2>2. Occurs(s[j], s)
    BY DEF Occurs
  <2>3. s[j] # c
    BY <1>2, <2>1, <2>2
  <2> QED BY <2>3, <2>1 DEF TypeOK
<1> HIDE DEF f
<1>5. \A t \in 0..LastInstant : DueIn(s, f, t) = Promise!Without(c)[t]
  BY <1>2, <1>4, WithoutIs, SameTimes DEF s
<1>6. \A t : DueAt(t)' = DueIn(s, f, t)
  BY <1>3 DEF DueAt, DueIn
<1>7. [t \in 0..LastInstant |-> DueAt(t)]' = [t \in 0..LastInstant |-> DueAt(t)']
  OBVIOUS
<1>8. [t \in 0..LastInstant |-> DueAt(t)'] = [t \in 0..LastInstant |-> Promise!Without(c)[t]]
  BY <1>5, <1>6
<1>9. Promise!Without(c) = [t \in 0..LastInstant |-> Promise!Without(c)[t]]
  BY DEF Promise!Without
<1> QED BY <1>7, <1>8, <1>9

(* ... and clock_set puts it at the end of the queue of its new instant.   *)
LEMMA SetJoinsQueue ==
  ASSUME TypeOK, ListOK, NEW c \in Clocks, NEW t \in Int, SetTo(c, t)
  PROVE  /\ NotPast(t) \in 0..LastInstant
         /\ Promise!Arm(c, NotPast(t)) <=> systime' = systime
<1> DEFINE s == ListWithout(c)
           u == NotPast(t)
           p == PlaceFor(s, u)
           f == [settime EXCEPT ![c] = u]
<1>1. ListedOnce /\ InOrder
  BY ListOKIs DEF TypeOK
<1>2. /\ s \in Seq(Clocks) /\ Distinct(s) /\ SortedBy(s, settime)
      /\ \A d \in Clocks : Occurs(d, s) <=> IsSet(d) /\ d # c
  BY <1>1, ListWithoutFacts
<1>3. u \in Nat /\ systime <= u /\ u <= Horizon
  BY DEF NotPast, TypeOK, SetTo
<1>4. u \in 0..LastInstant
  BY <1>3, SchedAssumption DEF LastInstant
<1>5. settime \in [Clocks -> Int]
  BY DEF TypeOK, Unset
<1>6. setlist' = InsertAt(s, p, c) /\ settime' = f
  BY DEF SetTo
<1> HIDE DEF s, u
<1>7. FirstLater(s, settime, u, p)
  BY <1>2, PlaceExists DEF EndsOrLater, FirstLater
<1> HIDE DEF p
<1>8. ASSUME NEW x \in 0..LastInstant
      PROVE  DueAt(x)' = IF x = u THEN Append(Promise!Without(c)[x], c)
                                  ELSE Promise!Without(c)[x]
  <2>1. DueIn(InsertAt(s, p, c), f, x) =
          IF x = u THEN Append(DueIn(s, settime, x), c) ELSE DueIn(s, settime, x)
    <3>1. x \in Int /\ u \in Int /\ ~Occurs(c, s)
      BY <1>2, <1>3
    <3>2. f[c] = u /\ \A d \in Clocks \ {c} : f[d] = settime[d]
      BY <1>5
    <3>3. s \in Seq(Clocks) /\ SortedBy(s, settime)
      BY <1>2
    <3> HIDE DEF f
    <3> QED BY <1>5, <1>7, <3>1, <3>2, <3>3, DueInserted
  <2>2. Promise!Without(c)[x] = DueIn(s, settime, x)
    BY WithoutIs DEF s
  <2>3. DueAt(x)' = DueIn(InsertAt(s, p, c), f, x)
    BY <1>6 DEF DueAt, DueIn
  <2> QED BY <2>1, <2>2, <2>3
<1> DEFINE w == Promise!Without(c)
<1>9. DOMAIN w = 0..LastInstant /\ w = [x \in 0..LastInstant |-> w[x]]
  BY DEF Promise!Without
<1>10. [x \in 0..LastInstant |-> DueAt(x)]' = [w EXCEPT ![u] = Append(w[u], c)]
  <2>1. [x \in 0..LastInstant |-> DueAt(x)]' = [x \in 0..LastInstant |-> DueAt(x)']
    OBVIOUS
  <2> HIDE DEF w
  <2>2. [x \in 0..LastInstant |-> DueAt(x)'] =
          [x \in 0..LastInstant |-> IF x = u THEN Append(w[x], c) ELSE w[x]]
    BY <1>8 DEF w
  <2>3. [x \in 0..LastInstant |-> IF x = u THEN Append(w[x], c) ELSE w[x]]
          = [w EXCEPT ![u] = Append(w[u], c)]
    BY <1>4, <1>9
  <2> QED BY <2>1, <2>2, <2>3
<1> QED BY <1>3, <1>4, <1>10 DEF Promise!Arm, u

(* No clock is set beyond Horizon and no tick ends beyond MaxTime.         *)
InReach ==
  /\ \A c \in Clocks : settime[c] <= Horizon
  /\ next <= MaxTime

LEMMA InReachStep == IInv /\ InReach /\ [Next]_vars => InReach'
<1> SUFFICES ASSUME IInv, InReach, [Next]_vars PROVE InReach'
  OBVIOUS
<1>0. settime \in [Clocks -> Nat \cup {Unset}] /\ Unset <= Horizon
  BY SchedAssumption DEF IInv, TypeOK, Unset
<1>1. ASSUME NEW c \in Clocks, Remove1(c), next' = next PROVE InReach'
  BY <1>0, <1>1 DEF Remove1, InReach
<1>2. ASSUME NEW c \in Clocks, NEW t, SetTo(c, t), next' = next PROVE InReach'
  <2> DEFINE u == NotPast(t)
  <2>1. settime' = [settime EXCEPT ![c] = u] /\ u <= Horizon
    BY <1>2 DEF SetTo
  <2> HIDE DEF u
  <2> QED BY <1>0, <1>2, <2>1 DEF InReach
<1>3. ASSUME UNCHANGED settime, next' = next PROVE InReach'
  BY <1>3 DEF InReach
<1>4. CASE ClientStep
  <2>1. ASSUME NEW c \in Clocks, ClockNew(c) PROVE InReach'
    BY <1>0, <2>1 DEF ClockNew, Client, tickVars, InReach
  <2>2. ASSUME NEW c \in Clocks, ClockFree(c) \/ ClockUnset(c) PROVE InReach'
    BY <1>1, <2>2 DEF ClockFree, ClockUnset, Client, tickVars
  <2>3. ASSUME NEW c \in Clocks, NEW t \in Times, ClockSet(c, t) PROVE InReach'
    BY <1>2, <2>3 DEF ClockSet, Client, tickVars
  <2>4. ASSUME NEW c \in Clocks, NEW d \in Delays, ClockDelay(c, d) PROVE InReach'
    BY <1>2, <2>4 DEF ClockDelay, Client, tickVars
  <2>5. ASSUME NEW c \in Clocks, NEW u \in TimeUnits, NEW b \in SampFlags,
               ClockSetUnit(c, u, b)
        PROVE  InReach'
    BY <1>2, <1>3, <2>5 DEF ClockSetUnit, Client, tickVars
  <2>6. CASE AskReopen \/ Exit
    BY <1>3, <2>6 DEF AskReopen, Exit, Client, tickVars, clockVars
  <2> QED BY <1>4, <2>1, <2>2, <2>3, <2>4, <2>5, <2>6 DEF ClientStep
<1>5. CASE TickStarts
  BY <1>5 DEF TickStarts, clockVars, InReach
<1>6. CASE TimeoutRings
  <2>1. Head(setlist) \in Clocks
    BY <1>6, HeadIsFirst DEF IInv, TimeoutRings, SomeDue
  <2> QED BY <1>1, <1>6, <2>1 DEF TimeoutRings
<1>7. CASE CallbackReturns \/ GuiPolled \/ TickEnds \/ DspReturns \/ Restart
  BY <1>3, <1>7 DEF CallbackReturns, GuiPolled, TickEnds, DspReturns, Restart,
                    tickVars, clockVars
<1>8. CASE UNCHANGED vars
  BY <1>3, <1>8 DEF vars, tickVars, clockVars
<1> QED BY <1>4, <1>5, <1>6, <1>7, <1>8 DEF Next, TickStep

(* The clock that rings is the head of the queue of the earliest instant   *)
(* at which any is due.                                                    *)
LEMMA RingsFirst ==
  ASSUME IInv, InReach, TimeoutRings
  PROVE  Promise!Ring(settime[Head(setlist)])
         /\ settime[Head(setlist)] \in 0..LastInstant
<1> DEFINE h == Head(setlist)
           t == settime[h]
           q(x) == DueIn(setlist, settime, x)
<1>1. /\ h \in Clocks /\ IsSet(h) /\ t \in Nat
      /\ \A d \in Clocks : IsSet(d) => t <= settime[d]
  BY HeadIsFirst DEF IInv, TimeoutRings, SomeDue
<1>2. t <= Horizon /\ t \in 0..LastInstant
  BY <1>1, SchedAssumption DEF InReach, LastInstant
<1>3. /\ TypeOK /\ ListOK /\ setlist \in Seq(Clocks) /\ setlist # <<>>
      /\ SortedBy(setlist, settime) /\ Distinct(setlist)
      /\ Remove1(h) /\ systime' = t
  BY DEF IInv, ListOK, TimeoutRings, SomeDue
<1>4. /\ Len(setlist) \in Nat /\ DOMAIN setlist = 1..Len(setlist)
      /\ \A j \in 1..Len(setlist) : setlist[j] \in Clocks
                                    /\ settime[setlist[j]] \in Int
      /\ 1 \in 1..Len(setlist) /\ setlist[1] = h
  <2>1. \A j \in 1..Len(setlist) : setlist[j] \in Clocks
    BY <1>3, ElementOfSeq
  <2> QED BY <1>3, <2>1, LenProperties DEF ListOK, Unset
<1> HIDE DEF h, t
<1>5. \A x \in 0..LastInstant : \A k \in DOMAIN q(x) :
        /\ settime[q(x)[k]] = x
        /\ \E j \in DOMAIN setlist : q(x)[k] = setlist[j]
  BY <1>3, <1>4, DueAreDue
<1>6. ASSUME NEW x \in 0..LastInstant, x < t PROVE q(x) = <<>>
  <2>1. {j \in DOMAIN setlist : settime[setlist[j]] = x} = {}
    <3> SUFFICES ASSUME NEW j \in DOMAIN setlist, settime[setlist[j]] = x
                 PROVE  FALSE
      OBVIOUS
    <3>1. IsSet(setlist[j]) /\ setlist[j] \in Clocks
      BY <1>4 DEF IsSet
    <3> QED BY <1>1, <1>6, <3>1
  <2> QED BY <2>1 DEF DueIn
<1>7. PICK lo, n : Stretch(setlist, settime, t, lo, n)
  BY <1>1, <1>3, <1>4, StretchExists
<1>8. lo = 1 /\ n \in Nat \ {0}
  <2>1. settime[setlist[1]] = t
    BY <1>4 DEF t
  <2> QED BY <1>4, <1>7, <2>1 DEF Stretch
<1>9. /\ q(t) \in Seq(Clocks) /\ Len(q(t)) = n
      /\ \A k \in 1..n : q(t)[k] = setlist[1 + k - 1]
  <2>1. Stretch(setlist, settime, t, 1, n) /\ n \in Nat
    BY <1>7, <1>8
  <2> QED BY <1>3, <2>1, DueFacts
<1> DEFINE qt == q(t)
<1>10. qt \in Seq(Clocks) /\ Len(qt) = n /\ DOMAIN qt = 1..n /\ qt[1] = h
  BY <1>4, <1>8, <1>9, LenProperties
<1>11. qt # <<>>
  BY <1>8, <1>10
<1>12. \A k \in DOMAIN qt : qt[k] = h => k = 1
  <2> TAKE k \in DOMAIN qt
  <2>1. k \in 1..n /\ k \in 1..Len(setlist) /\ 1 + k - 1 = k
    BY <1>4, <1>7, <1>8, <1>10 DEF Stretch
  <2>2. qt[k] = setlist[k]
    BY <1>9, <2>1
  <2> QED BY <1>3, <1>4, <2>1, <2>2 DEF Distinct
<1>13. Promise!Less(qt, h) = Tail(qt)
  <2> HIDE DEF q, qt
  <2>1. 1 \in DOMAIN qt
    BY <1>8, <1>10
  <2>2. (CHOOSE k \in DOMAIN qt : qt[k] = h) = 1
    BY <1>10, <1>12, <2>1
  <2>3. Promise!Less(qt, h) = RemoveAt(qt, 1)
    <3>1. \E k \in DOMAIN qt : qt[k] = h
      BY <1>10, <2>1
    <3> QED BY <2>2, <3>1, Zenon DEF Promise!Less, Promise!RemoveAt, RemoveAt
  <2>4. /\ RemoveAt(qt, 1) \in Seq(Clocks) /\ Len(RemoveAt(qt, 1)) = n - 1
        /\ \A j \in 1..(n - 1) : RemoveAt(qt, 1)[j] = qt[j + 1]
    <3>1. 1 \in 1..Len(qt)
      BY <1>8, <1>10
    <3>2. /\ RemoveAt(qt, 1) \in Seq(Clocks)
          /\ Len(RemoveAt(qt, 1)) = Len(qt) - 1
          /\ \A j \in 1..(Len(qt) - 1) :
               RemoveAt(qt, 1)[j] = IF j < 1 THEN qt[j] ELSE qt[j + 1]
      BY <1>10, <3>1, RemoveAtFacts
    <3> QED BY <1>10, <3>2
  <2>5. /\ Tail(qt) \in Seq(Clocks) /\ Len(Tail(qt)) = n - 1
        /\ \A j \in 1..(n - 1) : Tail(qt)[j] = qt[j + 1]
    BY <1>10, <1>11, HeadTailProperties
  <2>6. RemoveAt(qt, 1) = Tail(qt)
    <3> DEFINE a == RemoveAt(qt, 1)
               b == Tail(qt)
    <3>1. /\ a \in Seq(Clocks) /\ b \in Seq(Clocks) /\ Len(a) = Len(b)
          /\ \A j \in 1..Len(a) : a[j] = b[j]
      BY <2>4, <2>5
    <3> HIDE DEF a, b
    <3>2. a = b
      BY <3>1, SeqEqual
    <3> QED BY <3>2 DEF a, b
  <2> QED BY <2>3, <2>6
<1>14. ASSUME NEW x \in 0..LastInstant, x # t
       PROVE  Promise!Less(q(x), h) = q(x)
  <2>1. ~ \E k \in DOMAIN q(x) : q(x)[k] = h
    BY <1>5, <1>14 DEF t
  <2> QED BY <2>1, Zenon DEF Promise!Less
<1> DEFINE w == [x \in 0..LastInstant |-> DueAt(x)]
<1>15. w = [x \in 0..LastInstant |-> q(x)] /\ \A x \in 0..LastInstant : w[x] = q(x)
  BY DEF DueAt, DueIn
<1> HIDE DEF q
<1>16. w' = [w EXCEPT ![t] = Tail(w[t])]
  <2>1. w' = Promise!Without(h)
    BY <1>1, <1>3, RemoveLeavesQueue
  <2>2. Promise!Without(h) = [x \in 0..LastInstant |-> Promise!Less(w[x], h)]
    BY DEF Promise!Without
  <2> HIDE DEF w
  <2>3. [x \in 0..LastInstant |-> Promise!Less(w[x], h)]
          = [x \in 0..LastInstant |-> IF x = t THEN Tail(w[x]) ELSE w[x]]
    BY <1>13, <1>14, <1>15
  <2>4. [x \in 0..LastInstant |-> IF x = t THEN Tail(w[x]) ELSE w[x]]
          = [w EXCEPT ![t] = Tail(w[t])]
    BY <1>2, <1>15
  <2> QED BY <2>1, <2>2, <2>3, <2>4
<1>17. w[t] # <<>> /\ \A x \in 0..LastInstant : x < t => w[x] = <<>>
  <2> HIDE DEF w
  <2> QED BY <1>2, <1>6, <1>11, <1>15
<1> QED BY <1>2, <1>3, <1>16, <1>17 DEF Promise!Ring, Promise!NobodyBefore, t, h

(* At the end of a tick nobody waits for an instant before it.             *)
LEMMA EndsWhenQuiet ==
  ASSUME IInv, InReach, TickEnds
  PROVE  next \in 0..LastInstant /\ Promise!Advance(next)
<1>1. next \in Nat /\ next \in 0..LastInstant
  BY SchedAssumption DEF IInv, TypeOK, InReach, LastInstant
<1>2. systime <= next /\ systime' = next
  BY DEF IInv, NextAhead, TickEnds, TimeAtEnd
<1>3. \A d \in Clocks : IsSet(d) => next <= settime[d]
  <2>1. CASE setlist = <<>>
    BY <2>1 DEF IInv, ListOK, Occurs
  <2>2. CASE setlist # <<>>
    <3> DEFINE h == Head(setlist)
    <3>1. /\ settime[h] \in Nat /\ next <= settime[h]
          /\ \A d \in Clocks : IsSet(d) => settime[h] <= settime[d]
      BY <1>1, <2>2, HeadIsFirst DEF IInv, TickEnds, SomeDue
    <3> HIDE DEF h
    <3> QED BY <1>1, <3>1 DEF IInv, ListOK, IsSet, Unset
  <2> QED BY <2>1, <2>2
<1>4. \A j \in DOMAIN setlist : setlist[j] \in Clocks
  BY ElementOfSeq, LenProperties DEF IInv, ListOK
<1>5. ASSUME NEW x \in 0..LastInstant, x < next PROVE DueAt(x) = <<>>
  <2>1. {j \in DOMAIN setlist : settime[setlist[j]] = x} = {}
    <3> SUFFICES ASSUME NEW j \in DOMAIN setlist, settime[setlist[j]] = x
                 PROVE  FALSE
      OBVIOUS
    <3>1. IsSet(setlist[j])
      BY DEF IsSet
    <3> QED BY <1>1, <1>3, <1>4, <1>5, <3>1
  <2> QED BY <2>1 DEF DueAt
<1>6. \A x \in 0..LastInstant :
        x < next => [y \in 0..LastInstant |-> DueAt(y)][x] = <<>>
  BY <1>5
<1>7. UNCHANGED [x \in 0..LastInstant |-> DueAt(x)]
  BY DEF TickEnds, clockVars, DueAt
<1> QED BY <1>1, <1>2, <1>6, <1>7 DEF Promise!Advance, Promise!NobodyBefore

(* Every step of the scheduler is a step of the queue of alarms, or none.  *)
LEMMA StepIsPromised ==
  IInv /\ InReach /\ [Next]_vars
    => [Promise!Next]_<<systime, [t \in 0..LastInstant |-> DueAt(t)]>>
<1> DEFINE w == [t \in 0..LastInstant |-> DueAt(t)]
<1> SUFFICES ASSUME IInv, InReach, [Next]_vars
             PROVE  Promise!Next \/ UNCHANGED <<systime, w>>
  OBVIOUS
<1>0. /\ TypeOK /\ ListOK /\ live \subseteq Clocks
      /\ systime \in Nat /\ unit \in [Clocks -> Int \ {0}]
      /\ settime \in [Clocks -> Nat \cup {Unset}]
  BY DEF IInv, TypeOK
<1>1. ASSUME NEW c \in Clocks, Remove1(c), systime' = systime
      PROVE  Promise!Next
  <2>1. Promise!Disarm(c)
    BY <1>0, <1>1, RemoveLeavesQueue DEF Promise!Disarm
  <2> QED BY <2>1 DEF Promise!Next
<1>2. ASSUME NEW c \in Clocks, NEW t \in Int, SetTo(c, t), systime' = systime
      PROVE  Promise!Next
  <2>1. NotPast(t) \in 0..LastInstant /\ Promise!Arm(c, NotPast(t))
    BY <1>0, <1>2, SetJoinsQueue
  <2> QED BY <2>1 DEF Promise!Next
<1>3. ASSUME UNCHANGED <<settime, setlist, systime>>
      PROVE  UNCHANGED <<systime, w>>
  BY <1>3 DEF DueAt
<1> HIDE DEF w
<1>4. CASE ClientStep
  <2>1. ASSUME NEW c \in Clocks, ClockNew(c) PROVE UNCHANGED <<systime, w>>
    <3>1. ~IsSet(c)
      BY <1>0, <2>1 DEF ListOK, ClockNew
    <3>2. UNCHANGED <<settime, setlist, systime>>
      BY <1>0, <2>1, <3>1 DEF ClockNew, Client, tickVars, IsSet, Unset
    <3> QED BY <1>3, <3>2
  <2>2. ASSUME NEW c \in Clocks, ClockFree(c) \/ ClockUnset(c)
        PROVE  Promise!Next
    BY <1>1, <2>2 DEF ClockFree, ClockUnset, Client, tickVars
  <2>3. ASSUME NEW c \in Clocks, NEW t \in Times, ClockSet(c, t)
        PROVE  Promise!Next
    BY <1>2, <2>3, SchedAssumption DEF ClockSet, Client, tickVars
  <2>4. ASSUME NEW c \in Clocks, NEW d \in Delays, ClockDelay(c, d)
        PROVE  Promise!Next
    <3> DEFINE n == UnitLength(unit[c])
               t == systime + d * n
    <3>1. n \in Nat /\ d \in Nat
      BY <1>0, UnitLengthPositive, SchedAssumption
    <3>2. t \in Int
      <4> HIDE DEF n
      <4> QED BY <1>0, <3>1
    <3>3. SetTo(c, t) /\ systime' = systime
      BY <2>4 DEF ClockDelay, Client, tickVars
    <3> HIDE DEF t
    <3> QED BY <1>2, <3>2, <3>3
  <2>5. ASSUME NEW c \in Clocks, NEW u \in TimeUnits, NEW b \in SampFlags,
               ClockSetUnit(c, u, b)
        PROVE  Promise!Next \/ UNCHANGED <<systime, w>>
    <3> DEFINE new == NewUnit(u, b)
               t == systime + InUnit(TimeLeft(c), unit[c], new)
    <3>1. new \in Int \ {0}
      BY NewUnitNotZero, SchedAssumption
    <3>2. /\ systime' = systime
          /\ SetTo(c, t) \/ UNCHANGED <<settime, setlist>>
      BY <2>5 DEF ClockSetUnit, Client, tickVars
    <3>3. t \in Int
      <4> HIDE DEF new
      <4>1. TimeLeft(c) \in Int /\ unit[c] \in Int \ {0}
        BY <1>0 DEF TimeLeft, Unset
      <4> QED BY <1>0, <3>1, <4>1, InUnitIsInt
    <3> HIDE DEF new, t
    <3> QED BY <1>2, <1>3, <3>2, <3>3
  <2>6. CASE AskReopen \/ Exit
    BY <1>3, <2>6 DEF AskReopen, Exit, Client, tickVars, clockVars
  <2> QED BY <1>4, <2>1, <2>2, <2>3, <2>4, <2>5, <2>6 DEF ClientStep
<1>5. CASE TimeoutRings
  <2> DEFINE t == settime[Head(setlist)]
  <2>1. t \in 0..LastInstant /\ Promise!Ring(t)
    BY <1>5, RingsFirst
  <2> HIDE DEF t
  <2> QED BY <2>1 DEF Promise!Next
<1>6. CASE TickEnds
  BY <1>6, EndsWhenQuiet DEF Promise!Next
<1>7. CASE TickStarts \/ CallbackReturns \/ GuiPolled \/ DspReturns \/ Restart
  BY <1>3, <1>7 DEF TickStarts, CallbackReturns, GuiPolled, DspReturns, Restart,
                    tickVars, clockVars
<1>8. CASE UNCHANGED vars
  BY <1>3, <1>8 DEF vars, tickVars, clockVars
<1> QED BY <1>4, <1>5, <1>6, <1>7, <1>8 DEF Next, TickStep

(* The scheduler implements the queue of alarms: whatever clients do from  *)
(* callbacks, polls, perform routines and between ticks, the clock that    *)
(* rings is the first of the earliest instant, those of one instant ring   *)
(* in the order they were set, and logical time never passes a clock.      *)
THEOREM RefinesAlarms == Spec => KeepsPromise
<1>1. Init => Promise!Init
  <2> SUFFICES ASSUME Init PROVE Promise!Init
    OBVIOUS
  <2>1. \A t : DueAt(t) = <<>>
    BY DEF Init, DueAt
  <2> QED BY <2>1 DEF Init, Promise!Init
<1>2. Init => InReach
  BY SchedAssumption DEF Init, InReach, Unset
<1>3. Spec => []InReach
  BY <1>2, InReachStep, Invariance, PTL DEF Spec
<1> QED BY <1>1, <1>3, Invariance, StepIsPromised, PTL
        DEF Spec, KeepsPromise, Promise!Spec

-------------------------------------------------------------------------------
(* The main loop and the device: whatever settings there are and however   *)
(* many messages come, a device with callbacks is closed only where its    *)
(* callback can end, and Pd's buffers are replaced only while no callback  *)
(* is under way.                                                           *)

(* Who holds sys_lock follows from where the threads are.                  *)
LockedPlaces == {"loop", "tick", "poll", "inner", "stalledpoll", "stalledtick",
                 "dacspoll", "idle"}
LockInv ==
  /\ (lock = "main") <=> (mpc \in LockedPlaces)
  /\ (lock = "callback") <=> (cpc \in {"tick", "poll"})

(* What Pd has noted of the device is true but between opening it and      *)
(* taking note.  A job of the callback's thread is hasty, and stays where  *)
(* it is; so is a job of the main thread that closes a device with         *)
(* callbacks while it holds the lock.                                      *)
NoteJobs == {NoteJob(way) : way \in Ways}
Noted == /\ stream # Closed => isopen
         /\ Calls(stream) => callbackopen
WillBeNoted(way) == /\ stream # Closed => way # "none"
                    /\ Calls(stream) => way = "callback"
DeviceInv ==
  /\ job["main"] \notin NoteJobs => Noted
  /\ \A way \in Ways : job["main"] = NoteJob(way) => WillBeNoted(way)
  /\ job["main"] = OpenJob => stream = Closed
  /\ cpc # "idle" => Calls(stream)
  /\ job["callback"] # Idle => cpc \in {"tick", "poll"} /\ "callback" \in hasty
  /\ job["callback"] \notin NoteJobs
  /\ job["main"] \in {CloseJob, ReopenJob} /\ Calls(stream) =>
       lock # "main" \/ "main" \in hasty

LoopInv == LoopTypeOK /\ LockInv /\ DeviceInv

-------------------------------------------------------------------------------
(* The jobs, told apart and taken apart.                                   *)
LEMMA TheJobs ==
  /\ ReopenJob = <<"close", "open">>
  /\ OpenJob = <<"open">> /\ CloseJob = <<"close">> /\ Idle = << >>
  /\ CloseJob # Idle /\ OpenJob # Idle /\ ReopenJob # Idle
  /\ CloseJob # OpenJob /\ CloseJob # ReopenJob /\ OpenJob # ReopenJob
  /\ \A way \in Ways : NoteJob(way) \notin {Idle, CloseJob, OpenJob, ReopenJob}
  /\ \A way, other \in Ways : NoteJob(way) = NoteJob(other) => way = other
  /\ {Idle, CloseJob, OpenJob, ReopenJob} \cap NoteJobs = {}
<1>1. \A way \in Ways : NoteJob(way) \notin {Idle, CloseJob, OpenJob, ReopenJob}
  BY DEF ReopenJob, CloseJob, OpenJob, Idle, NoteJob, Ways
<1>2. \A way, other \in Ways : NoteJob(way) = NoteJob(other) => way = other
  BY DEF NoteJob
<1>3. {Idle, CloseJob, OpenJob, ReopenJob} \cap NoteJobs = {}
  BY <1>1 DEF NoteJobs
<1> QED
  BY <1>1, <1>2, <1>3 DEF ReopenJob, CloseJob, OpenJob, Idle

LEMMA NextSteps ==
  /\ Head(CloseJob) = "close" /\ Tail(CloseJob) = Idle
  /\ Head(OpenJob) = "open" /\ Tail(OpenJob) = Idle
  /\ Head(ReopenJob) = "close" /\ Tail(ReopenJob) = OpenJob
  /\ \A way \in Ways : Head(NoteJob(way)) = way /\ Tail(NoteJob(way)) = Idle
<1>1. /\ Head(<<"close">>) = "close" /\ Tail(<<"close">>) = << >>
      /\ Head(<<"open">>) = "open" /\ Tail(<<"open">>) = << >>
      /\ Head(<<"close", "open">>) = "close"
      /\ Tail(<<"close", "open">>) = <<"open">>
  OBVIOUS
<1>2. ASSUME NEW way \in Ways
      PROVE  Head(NoteJob(way)) = way /\ Tail(NoteJob(way)) = Idle
  <2>1. Head(<<way>>) = way /\ Tail(<<way>>) = << >>
    OBVIOUS
  <2> QED
    BY <2>1 DEF NoteJob, Idle
<1> QED
  BY <1>1, <1>2, TheJobs

(* What a thread with a step to do has for a job, and what is left of it.  *)
LEMMA JobOf ==
  ASSUME NEW t \in Threads, job \in [Threads -> Jobs]
  PROVE  /\ Doing(t, "close") <=> job[t] \in {CloseJob, ReopenJob}
         /\ Doing(t, "open") <=> job[t] = OpenJob
         /\ \A way \in Ways : Doing(t, way) <=> job[t] = NoteJob(way)
         /\ job[t] = CloseJob => Tail(job[t]) = Idle
         /\ job[t] = ReopenJob => Tail(job[t]) = OpenJob
         /\ \A way \in Ways : job[t] = NoteJob(way) => Tail(job[t]) = Idle
<1>0. /\ "close" \notin Ways /\ "open" \notin Ways /\ "close" # "open"
  BY DEF Ways
<1>1. job[t] \in {Idle, CloseJob, OpenJob, ReopenJob} \cup NoteJobs
  BY DEF Jobs, NoteJobs
<1>2. CASE job[t] = Idle
  BY <1>2, TheJobs DEF Doing
<1>3. CASE job[t] = CloseJob
  BY <1>0, <1>3, TheJobs, NextSteps DEF Doing
<1>4. CASE job[t] = OpenJob
  BY <1>0, <1>4, TheJobs, NextSteps DEF Doing
<1>5. CASE job[t] = ReopenJob
  BY <1>0, <1>5, TheJobs, NextSteps DEF Doing
<1>6. CASE job[t] \in NoteJobs
  <2>1. PICK w \in Ways : job[t] = NoteJob(w)
    BY <1>6 DEF NoteJobs
  <2> QED
    BY <1>0, <2>1, TheJobs, NextSteps DEF Doing
<1> QED
  BY <1>1, <1>2, <1>3, <1>4, <1>5, <1>6

LEMMA JobTypes ==
  /\ Idle \in Jobs /\ CloseJob \in Jobs /\ OpenJob \in Jobs /\ ReopenJob \in Jobs
  /\ \A way \in Ways : NoteJob(way) \in Jobs /\ NoteJob(way) \in NoteJobs
  /\ \A s : Way(s) \in Ways /\ Way(s) # "none" /\ (Calls(s) => Way(s) = "callback")
  /\ "none" \in Ways /\ ~Calls(Closed)
  BY MainLoopAssumption DEF Jobs, NoteJobs, Way, Ways, Calls

LEMMA InitHolds == LoopInit => LoopInv
<1> SUFFICES ASSUME LoopInit PROVE LoopInv
  OBVIOUS
<1>1. LoopTypeOK
  <2>1. job \in [Threads -> Jobs]
    BY JobTypes DEF LoopInit
  <2>2. sent \in 0..MaxMessages
    BY MainLoopAssumption DEF LoopInit
  <2> QED
    BY <2>1, <2>2 DEF LoopInit, LoopTypeOK, MainPlaces, CallbackPlaces
<1>2. LockInv
  BY DEF LoopInit, LockInv, LockedPlaces
<1>3. job["main"] = Idle /\ job["callback"] = Idle
  BY DEF LoopInit, Threads
<1>4. DeviceInv
  BY <1>3, JobTypes, TheJobs DEF LoopInit, DeviceInv, Noted
<1> QED
  BY <1>1, <1>2, <1>4 DEF LoopInv

-------------------------------------------------------------------------------
(* Every step keeps the invariant.                                         *)

(* A thread that goes on with its job.                                     *)
LEMMA JobGoesOn ==
  ASSUME LoopTypeOK, NEW t \in Threads, NEW steps \in Jobs, GoesOn(t, steps)
  PROVE  /\ job' \in [Threads -> Jobs] /\ job'[t] = steps /\ hasty' = hasty
         /\ \A u \in Threads \ {t} : job'[u] = job[u]
  BY DEF GoesOn, LoopTypeOK

(* The main thread closes: no callback is under way then, and no stream is *)
(* left.                                                                   *)
LEMMA MainCloses ==
  ASSUME LoopInv, CloseAudio("main")
  PROVE  LoopInv'
<1>1. /\ job \in [Threads -> Jobs] /\ LoopTypeOK /\ LockInv /\ DeviceInv
      /\ "main" \in Threads /\ "callback" \in Threads
  BY DEF LoopInv, LoopTypeOK, Threads
<1>2. job["main"] \in {CloseJob, ReopenJob}
  BY <1>1, JobOf DEF CloseAudio
<1>3. Tail(job["main"]) \in {Idle, OpenJob}
  BY <1>1, <1>2, JobOf
<1>4. /\ job' \in [Threads -> Jobs] /\ job'["main"] \in {Idle, OpenJob}
      /\ hasty' = hasty /\ job'["callback"] = job["callback"]
  BY <1>1, <1>3, JobTypes, JobGoesOn DEF CloseAudio, Finish, Threads
<1>5. Noted
  BY <1>1, <1>2, TheJobs DEF DeviceInv
<1>6. stream' = Closed /\ cpc' = "idle" /\ cpc = "idle"
  <2>1. CASE isopen
    BY <1>1, <2>1 DEF CloseAudio, Aborts, NoCallback, DeviceInv, Calls
  <2>2. CASE ~isopen
    BY <1>1, <1>5, <2>2, JobTypes DEF CloseAudio, Noted, DeviceInv
  <2> QED
    BY <2>1, <2>2
<1>7. LoopTypeOK'
  BY <1>1, <1>4 DEF CloseAudio, LoopTypeOK, messages
<1>8. LockInv'
  BY <1>1 DEF CloseAudio, LockInv
<1>9. DeviceInv'
  BY <1>1, <1>4, <1>6, JobTypes, TheJobs DEF DeviceInv, Noted, Calls
<1> QED
  BY <1>7, <1>8, <1>9 DEF LoopInv

LEMMA MainOpens ==
  ASSUME LoopInv, OpenAudio("main")
  PROVE  LoopInv'
<1>1. /\ job \in [Threads -> Jobs] /\ LoopTypeOK /\ LockInv /\ DeviceInv
      /\ "main" \in Threads /\ "callback" \in Threads
      /\ nextsettings \in Settings
  BY DEF LoopInv, LoopTypeOK, Threads
<1>2. cpc = "idle"
  BY <1>1, JobOf, JobTypes DEF OpenAudio, DeviceInv
<1>3. PICK way \in Ways : /\ GoesOn("main", NoteJob(way))
                          /\ stream' \in Settings \cup {Closed}
                          /\ stream' # Closed => way # "none"
                          /\ Calls(stream') => way = "callback"
  BY <1>1, JobTypes DEF OpenAudio
<1>4. /\ job' \in [Threads -> Jobs] /\ job'["main"] = NoteJob(way)
      /\ hasty' = hasty /\ job'["callback"] = job["callback"]
  BY <1>1, <1>3, JobTypes, JobGoesOn DEF Threads
<1>5. LoopTypeOK'
  BY <1>1, <1>3, <1>4 DEF OpenAudio, LoopTypeOK, messages
<1>6. LockInv'
  BY <1>1 DEF OpenAudio, LockInv
<1>7. cpc' = "idle" /\ job["callback"] = Idle
  BY <1>1, <1>2 DEF OpenAudio, DeviceInv
<1>8. \A w \in Ways : job'["main"] = NoteJob(w) => WillBeNoted(w)'
  BY <1>3, <1>4, TheJobs DEF WillBeNoted, Calls
<1>9. job'["main"] \in NoteJobs /\ job'["main"] \notin {OpenJob, CloseJob, ReopenJob}
  BY <1>4, TheJobs, JobTypes
<1>10. DeviceInv'
  BY <1>4, <1>7, <1>8, <1>9, TheJobs DEF DeviceInv
<1> QED
  BY <1>5, <1>6, <1>10 DEF LoopInv

LEMMA MainNotes ==
  ASSUME LoopInv, NoteAudio("main")
  PROVE  LoopInv'
<1>1. /\ job \in [Threads -> Jobs] /\ LoopTypeOK /\ LockInv /\ DeviceInv
      /\ "main" \in Threads /\ "callback" \in Threads
  BY DEF LoopInv, LoopTypeOK, Threads
<1>2. PICK way \in Ways : /\ Doing("main", way)
                          /\ isopen' = (way # "none")
                          /\ callbackopen' = (way = "callback")
                          /\ useaudio' = way
  BY DEF NoteAudio
<1>3. job["main"] = NoteJob(way) /\ Tail(job["main"]) = Idle
  BY <1>1, <1>2, JobOf
<1>4. /\ job' \in [Threads -> Jobs] /\ job'["main"] = Idle
      /\ hasty' = hasty /\ job'["callback"] = job["callback"]
  BY <1>1, <1>3, JobTypes, JobGoesOn DEF NoteAudio, Finish, Threads
<1>5. LoopTypeOK'
  BY <1>1, <1>2, <1>4 DEF NoteAudio, LoopTypeOK, Ways, messages
<1>6. LockInv'
  BY <1>1 DEF NoteAudio, LockInv
<1>7. Noted'
  BY <1>1, <1>2, <1>3 DEF NoteAudio, DeviceInv, WillBeNoted, Noted, Calls
<1>8. DeviceInv'
  BY <1>1, <1>4, <1>7, TheJobs DEF NoteAudio, DeviceInv, Calls
<1> QED
  BY <1>5, <1>6, <1>8 DEF LoopInv

(* A job of the callback's thread: the device it would close is its own, so*)
(* it only gets past a close that finds none noted.                        *)
LEMMA CallbackStays ==
  ASSUME LoopInv, DeviceStep("callback")
  PROVE  LoopInv'
<1>1. /\ job \in [Threads -> Jobs] /\ LoopTypeOK /\ LockInv /\ DeviceInv
      /\ "main" \in Threads /\ "callback" \in Threads
  BY DEF LoopInv, LoopTypeOK, Threads
<1>2. job["callback"] # Idle
  BY DEF DeviceStep, CloseAudio, OpenAudio, NoteAudio, Doing
<1>3. cpc # "idle" /\ stream \in CallbackOnes /\ ~Aborts
  BY <1>1, <1>2 DEF DeviceInv, Calls, Aborts, NoCallback
<1>4. ~OpenAudio("callback")
  BY <1>3 DEF OpenAudio
<1>5. ~NoteAudio("callback")
  BY <1>1, JobOf, JobTypes DEF NoteAudio, DeviceInv
<1>6. CloseAudio("callback") /\ ~isopen
  BY <1>3, <1>4, <1>5 DEF DeviceStep, CloseAudio
<1>7. job["callback"] \in {CloseJob, ReopenJob}
  BY <1>1, <1>6, JobOf DEF CloseAudio
<1>8. Tail(job["callback"]) \in {Idle, OpenJob}
  BY <1>1, <1>7, JobOf
<1>9. /\ job' \in [Threads -> Jobs] /\ job'["callback"] \in {Idle, OpenJob}
      /\ hasty' = hasty /\ job'["main"] = job["main"]
  BY <1>1, <1>6, <1>8, JobTypes, JobGoesOn DEF CloseAudio, Finish, Threads
<1>10. UNCHANGED <<deviceVars, quit, nextsettings, dspstate, lock, mpc, cpc, forward,
                   moved, pdsystime, messages>>
  BY <1>6 DEF CloseAudio, deviceVars
<1>11. LoopTypeOK'
  BY <1>1, <1>9, <1>10 DEF LoopTypeOK, deviceVars, messages
<1>12. LockInv'
  BY <1>1, <1>10 DEF LockInv
<1>13. DeviceInv'
  BY <1>1, <1>2, <1>9, <1>10, TheJobs DEF DeviceInv, Noted, WillBeNoted, Calls, deviceVars
<1> QED
  BY <1>11, <1>12, <1>13 DEF LoopInv

(* Messages: a job that is not hasty is one of the main thread, when no    *)
(* device with callbacks is noted, hence when there is none.               *)
LEMMA MessageKeeps ==
  ASSUME LoopInv, NEW t \in Threads, Message(t)
  PROVE  LoopInv'
<1>1. /\ job \in [Threads -> Jobs] /\ LoopTypeOK /\ LockInv /\ DeviceInv
      /\ "main" \in Threads /\ "callback" \in Threads /\ hasty \subseteq Threads
  BY DEF LoopInv, LoopTypeOK, Threads
<1>2. /\ lock = t /\ job[t] = Idle /\ sent' \in 0..MaxMessages
      /\ UNCHANGED <<deviceVars, lock, mpc, cpc, forward, moved, pdsystime>>
  <2>1. Receives(t)
    BY DEF Message, AudioDialog, DspOn, DspOff, OtherApi, Preferences, NoApi
  <2>2. sent \in 0..MaxMessages /\ MaxMessages \in Nat
    BY <1>1, MainLoopAssumption DEF LoopTypeOK
  <2> QED
    BY <2>1, <2>2 DEF Receives
<1>3. /\ nextsettings' \in Settings /\ quit' \in BOOLEAN /\ dspstate' \in BOOLEAN
      /\ astray' \in BOOLEAN
  BY <1>1 DEF Message, AudioDialog, DspOn, DspOff, OtherApi, Preferences, NoApi,
              LoopTypeOK, DoesUnasked, Involved, Unnoted, Calls
<1>4. \/ UNCHANGED tasks
      \/ \E isHasty \in BOOLEAN :
           /\ ~isHasty => ~callbackopen /\ t = "main"
           /\ \/ Does(t, CloseJob, isHasty) \/ Does(t, ReopenJob, isHasty)
              \/ Does(t, OpenJob, isHasty) /\ ~isopen
  <2>1. callbackopen \in BOOLEAN
    BY <1>1 DEF LoopTypeOK
  <2>2. /\ Involved(t) \in BOOLEAN /\ Unnoted(t) \in BOOLEAN
        /\ ~Involved(t) => ~callbackopen /\ t = "main"
        /\ ~callbackopen /\ ~Unnoted(t) => t = "main"
    BY <2>1 DEF Involved, Unnoted, Threads
  <2>3. CASE AudioDialog(t)
    BY <2>2, <2>3 DEF AudioDialog, DialogMayReopen
  <2>4. CASE DspOn(t)
    BY <2>2, <2>4 DEF DspOn, DoesUnasked
  <2>5. CASE DspOff(t) \/ NoApi(t)
    BY <2>2, <2>5 DEF DspOff, NoApi, DoesUnasked
  <2>6. CASE OtherApi(t) \/ Preferences(t)
    BY <2>2, <2>6 DEF OtherApi, Preferences, DoesUnasked
  <2> QED
    BY <2>3, <2>4, <2>5, <2>6 DEF Message
<1>5. t = "callback" => cpc \in {"tick", "poll"}
  BY <1>1, <1>2 DEF LockInv
<1>6. LockInv'
  BY <1>1, <1>2 DEF LockInv
<1>7. CASE UNCHANGED tasks
  <2>1. LoopTypeOK'
    BY <1>1, <1>2, <1>3, <1>7 DEF LoopTypeOK, deviceVars, tasks
  <2>2. DeviceInv'
    BY <1>1, <1>2, <1>7 DEF DeviceInv, deviceVars, tasks, Noted, WillBeNoted, Calls
  <2> QED
    BY <1>6, <2>1, <2>2 DEF LoopInv
<1>8. ASSUME NEW isHasty \in BOOLEAN, NEW j \in {CloseJob, OpenJob, ReopenJob},
             ~isHasty => ~callbackopen /\ t = "main",
             Does(t, j, isHasty), j = OpenJob => ~isopen
      PROVE  LoopInv'
  <2>1. /\ job' \in [Threads -> Jobs] /\ job'[t] = j /\ hasty' \subseteq Threads
        /\ \A u \in Threads \ {t} : job'[u] = job[u]
        /\ isHasty => t \in hasty'
        /\ \A u \in Threads \ {t} : u \in hasty => u \in hasty'
    BY <1>1, <1>8, JobTypes DEF Does
  <2>2. LoopTypeOK'
    BY <1>1, <1>2, <1>3, <2>1 DEF LoopTypeOK, deviceVars
  <2>3. CASE t = "main"
    <3>1. Noted
      BY <1>1, <1>2, <2>3, TheJobs DEF DeviceInv
    <3>2. /\ job'["main"] = j /\ job'["callback"] = job["callback"]
          /\ "callback" \in hasty => "callback" \in hasty'
      BY <2>1, <2>3 DEF Threads
    <3>3. Noted' /\ (Calls(stream') <=> Calls(stream))
      BY <1>2, <3>1 DEF Noted, deviceVars, Calls
    <3>4. j = OpenJob => stream' = Closed
      BY <1>2, <1>8, <3>1 DEF Noted, deviceVars
    <3>5. Calls(stream') => "main" \in hasty'
      BY <1>8, <2>1, <2>3, <3>1, <3>3 DEF Noted
    <3>6. j \notin NoteJobs /\ \A way \in Ways : j # NoteJob(way)
      BY <1>8, TheJobs, JobTypes
    <3>7. cpc' = cpc
      BY <1>2
    <3> QED
      BY <1>1, <1>6, <2>2, <3>2, <3>3, <3>4, <3>5, <3>6, <3>7 DEF DeviceInv, LoopInv
  <2>4. CASE t = "callback"
    <3>1. /\ job'["callback"] = j /\ job'["main"] = job["main"] /\ "callback" \in hasty'
          /\ "main" \in hasty => "main" \in hasty'
      BY <1>8, <2>1, <2>4 DEF Threads
    <3>2. /\ (Noted' <=> Noted) /\ (Calls(stream') <=> Calls(stream))
          /\ \A way \in Ways : WillBeNoted(way)' <=> WillBeNoted(way)
      BY <1>2 DEF Noted, WillBeNoted, deviceVars, Calls
    <3>3. cpc' = cpc /\ cpc \in {"tick", "poll"} /\ lock' = lock /\ stream' = stream
      BY <1>2, <1>5, <2>4 DEF deviceVars
    <3>4. j \notin NoteJobs
      BY <1>8, TheJobs
    <3> QED
      BY <1>1, <1>6, <2>2, <3>1, <3>2, <3>3, <3>4 DEF DeviceInv, LoopInv
  <2> QED
    BY <2>3, <2>4 DEF Threads
<1>9. ASSUME ~UNCHANGED tasks
      PROVE  LoopInv'
  <2>1. PICK isHasty \in BOOLEAN :
          /\ ~isHasty => ~callbackopen /\ t = "main"
          /\ \/ Does(t, CloseJob, isHasty) \/ Does(t, ReopenJob, isHasty)
             \/ Does(t, OpenJob, isHasty) /\ ~isopen
    BY <1>4, <1>9
  <2>2. CloseJob # OpenJob /\ ReopenJob # OpenJob
    BY TheJobs
  <2> QED
    BY <1>8, <2>1, <2>2
<1> QED
  BY <1>7, <1>9

(* Steps that leave the device and the jobs alone, and keep lock and       *)
(* places consistent.                                                      *)
LEMMA OnlyPlaces ==
  ASSUME LoopInv, UNCHANGED <<deviceVars, nextsettings, dspstate, tasks, messages>>,
         quit' \in BOOLEAN, forward' \in BOOLEAN, moved' \in BOOLEAN,
         pdsystime' \in {0, 1}, lock' \in Threads \cup {"free"},
         mpc' \in MainPlaces, cpc' \in CallbackPlaces,
         LockInv', cpc' # "idle" => Calls(stream),
         cpc' = cpc \/ job["callback"] = Idle,
         job["main"] = Idle \/ (lock' = "main" => lock = "main")
  PROVE  LoopInv'
<1>1. LoopTypeOK'
  BY DEF LoopInv, LoopTypeOK, deviceVars, tasks, messages
<1>2. DeviceInv'
  BY TheJobs DEF LoopInv, DeviceInv, deviceVars, tasks, Noted, WillBeNoted, Calls
<1> QED
  BY <1>1, <1>2 DEF LoopInv

(* A step of the main thread that only goes on.                            *)
LEMMA MainPlacesKeep ==
  ASSUME LoopInv, UNCHANGED <<deviceVars, nextsettings, dspstate, tasks, messages, cpc>>,
         job["main"] = Idle,
         quit' \in BOOLEAN, forward' \in BOOLEAN, moved' \in BOOLEAN,
         pdsystime' \in {0, 1}, mpc' \in MainPlaces,
         \/ UNCHANGED lock /\ (mpc \in LockedPlaces <=> mpc' \in LockedPlaces)
         \/ lock = "free" /\ lock' = "main" /\ mpc' \in LockedPlaces
         \/ lock = "main" /\ lock' = "free" /\ mpc' \notin LockedPlaces
  PROVE  LoopInv'
<1>1. LockInv'
  BY DEF LoopInv, LockInv
<1>2. lock' \in Threads \cup {"free"}
  BY DEF LoopInv, LoopTypeOK, Threads
<1> QED
  BY <1>1, <1>2, OnlyPlaces DEF LoopInv, LoopTypeOK, DeviceInv, deviceVars

(* The main thread gives itself a device to reopen, where it has no lock.  *)
LEMMA MainReopens ==
  ASSUME LoopInv, Does("main", ReopenJob, FALSE), job["main"] = Idle,
         UNCHANGED <<deviceVars, nextsettings, dspstate, messages, cpc, quit, lock,
                     moved, pdsystime>>,
         forward' \in BOOLEAN, mpc' \in MainPlaces,
         mpc \notin LockedPlaces, mpc' \notin LockedPlaces
  PROVE  LoopInv'
<1>1. /\ job \in [Threads -> Jobs] /\ LoopTypeOK /\ LockInv /\ DeviceInv
      /\ "main" \in Threads /\ "callback" \in Threads /\ hasty \subseteq Threads
  BY DEF LoopInv, LoopTypeOK, Threads
<1>2. /\ job' \in [Threads -> Jobs] /\ hasty' \subseteq Threads
      /\ job'["main"] = ReopenJob /\ job'["callback"] = job["callback"]
      /\ "callback" \in hasty => "callback" \in hasty'
  BY <1>1, JobTypes DEF Does, Threads
<1>3. LoopTypeOK'
  BY <1>1, <1>2 DEF LoopTypeOK, deviceVars, messages
<1>4. LockInv' /\ lock' # "main"
  BY <1>1 DEF LockInv
<1>5. Noted'
  BY <1>1, TheJobs DEF DeviceInv, deviceVars, Noted, Calls
<1>6. ReopenJob # OpenJob /\ \A way \in Ways : ReopenJob # NoteJob(way)
  BY TheJobs
<1>7. DeviceInv'
  BY <1>1, <1>2, <1>4, <1>5, <1>6 DEF DeviceInv, deviceVars, Calls
<1> QED
  BY <1>3, <1>4, <1>7 DEF LoopInv

LEMMA TickTypes ==
  ASSUME LoopTypeOK, EndsTick
  PROVE  moved' \in BOOLEAN /\ pdsystime' \in {0, 1}
<1>1. CASE Advances
  BY <1>1 DEF Advances, LoopTypeOK
<1> QED
  BY <1>1 DEF EndsTick, LoopTypeOK

LEMMA MainRunsKeeps ==
  ASSUME LoopInv, MainRuns
  PROVE  LoopInv'
<1> USE DEF MainGoes, MainPlaces, LockedPlaces
<1>0. LoopTypeOK /\ LockInv
  BY DEF LoopInv
<1>1. CASE PicksScheduler
  BY <1>0, <1>1, MainPlacesKeep DEF PicksScheduler, Scheduler, LoopTypeOK
<1>2. CASE SchedulerLeft
  BY <1>0, <1>2, MainPlacesKeep DEF SchedulerLeft, LoopTypeOK
<1>3. CASE ForgetsQuit
  BY <1>0, <1>3, MainPlacesKeep DEF ForgetsQuit, LoopTypeOK
<1>4. CASE Restarts
  <2>1. CASE isopen
    BY <1>0, <1>4, <2>1, MainReopens DEF Restarts, LoopTypeOK
  <2>2. CASE ~isopen
    BY <1>0, <1>4, <2>2, MainPlacesKeep DEF Restarts, LoopTypeOK
  <2> QED
    BY <2>1, <2>2
<1>5. CASE SleepsASecond
  BY <1>0, <1>5, MainPlacesKeep DEF SleepsASecond, TimeWas, LoopTypeOK
<1>6. CASE LooksAtTime
  BY <1>0, <1>6, MainPlacesKeep DEF LooksAtTime, LoopTypeOK
<1>7. CASE PollsStalled
  BY <1>0, <1>7, MainPlacesKeep DEF PollsStalled, LoopTypeOK
<1>8. CASE TicksStalled
  BY <1>0, <1>8, MainPlacesKeep, TickTypes DEF TicksStalled, Free, LoopTypeOK, LockInv
<1>9. CASE LoopTests
  BY <1>0, <1>9, MainPlacesKeep DEF LoopTests, Free, LoopTypeOK, LockInv
<1>10. CASE Ticks
  BY <1>0, <1>10, MainPlacesKeep, TickTypes DEF Ticks, LoopTypeOK
<1>11. CASE Polls
  BY <1>0, <1>11, MainPlacesKeep DEF Polls, LoopTypeOK
<1>12. CASE InnerTests
  BY <1>0, <1>12, MainPlacesKeep DEF InnerTests, Free, LoopTypeOK, LockInv
<1>13. CASE NothingToDo
  BY <1>0, <1>13, MainPlacesKeep DEF NothingToDo, LoopTypeOK
<1>14. CASE Transfers
  BY <1>0, <1>14, MainPlacesKeep DEF Transfers, LoopTypeOK
<1>15. CASE HasWaited
  BY <1>0, <1>15, MainPlacesKeep DEF HasWaited, Free, LoopTypeOK, LockInv
<1>16. CASE HasIdled
  BY <1>0, <1>16, MainPlacesKeep DEF HasIdled, Free, LoopTypeOK, LockInv
<1> QED
  BY <1>1, <1>2, <1>3, <1>4, <1>5, <1>6, <1>7, <1>8, <1>9, <1>10, <1>11, <1>12,
     <1>13, <1>14, <1>15, <1>16 DEF MainRuns

LEMMA MainWaitsKeeps ==
  ASSUME LoopInv, MainTakes \/ TimeHasCome \/ WaitsForDevice \/ DeviceAnswers
  PROVE  LoopInv'
<1> USE DEF MainGoes, MainPlaces, LockedPlaces, Takes
<1>0. LoopTypeOK /\ LockInv
  BY DEF LoopInv
<1>1. CASE TakesLock
  BY <1>0, <1>1, MainPlacesKeep DEF TakesLock, LoopTypeOK
<1>2. CASE TakesLockStalled
  BY <1>0, <1>2, MainPlacesKeep DEF TakesLockStalled, LoopTypeOK
<1>3. CASE TakesLockIdle
  BY <1>0, <1>3, MainPlacesKeep DEF TakesLockIdle, LoopTypeOK
<1>4. CASE TakesLockAgain
  BY <1>0, <1>4, MainPlacesKeep DEF TakesLockAgain, LoopTypeOK
<1>5. CASE TimeHasCome
  BY <1>0, <1>5, MainPlacesKeep DEF TimeHasCome, LoopTypeOK
<1>6. CASE WaitsForDevice
  BY <1>0, <1>6, MainPlacesKeep DEF WaitsForDevice, LoopTypeOK
<1>7. CASE HasTransferred
  BY <1>0, <1>7, MainPlacesKeep DEF HasTransferred, LoopTypeOK
<1>8. CASE DeviceGone
  BY <1>0, <1>8, MainPlacesKeep DEF DeviceGone, LoopTypeOK
<1>9. CASE TimesOut
  BY <1>0, <1>9, MainReopens DEF TimesOut, LoopTypeOK
<1> QED
  BY <1>1, <1>2, <1>3, <1>4, <1>5, <1>6, <1>7, <1>8, <1>9 DEF MainTakes, DeviceAnswers

LEMMA CallbackKeeps ==
  ASSUME LoopInv, DeviceCalls \/ CallbackTakes \/ CallbackRuns
  PROVE  LoopInv'
<1> USE DEF CallbackGoes, CallbackPlaces
<1>0. LoopTypeOK /\ LockInv /\ DeviceInv /\ job["callback"] = Idle
  BY DEF LoopInv, DeviceCalls, CallbackTakes, CallbackTakesLock, CallbackTakesLockToPoll,
         CallbackRuns, CallbackTicks, NextBlock, AudioReturns
<1>2. CASE DeviceCalls
  <2>1. LockInv'
    BY <1>0, <1>2 DEF DeviceCalls, LockInv
  <2>2. Calls(stream) /\ lock' = lock
    BY <1>2 DEF DeviceCalls
  <2> QED
    BY <1>0, <1>2, <2>1, <2>2, OnlyPlaces DEF DeviceCalls, LoopTypeOK, DeviceInv
<1>3. CASE CallbackTakesLock
  <2>1. LockInv'
    BY <1>0, <1>3 DEF CallbackTakesLock, LockInv, Takes
  <2> QED
    BY <1>0, <1>3, <2>1, OnlyPlaces
    DEF CallbackTakesLock, LoopTypeOK, DeviceInv, Takes, Threads
<1>4. CASE CallbackTicks
  <2>1. LockInv'
    BY <1>0, <1>4 DEF CallbackTicks, LockInv, Free
  <2> QED
    BY <1>0, <1>4, <2>1, OnlyPlaces, TickTypes
    DEF CallbackTicks, LoopTypeOK, DeviceInv, Free
<1>5. CASE CallbackTakesLockToPoll
  <2>1. LockInv'
    BY <1>0, <1>5 DEF CallbackTakesLockToPoll, LockInv, Takes
  <2> QED
    BY <1>0, <1>5, <2>1, OnlyPlaces
    DEF CallbackTakesLockToPoll, LoopTypeOK, DeviceInv, Takes, Threads
<1>6. CASE AudioReturns
  <2>1. LockInv'
    BY <1>0, <1>6 DEF AudioReturns, LockInv, Free
  <2> QED
    BY <1>0, <1>6, <2>1, OnlyPlaces DEF AudioReturns, LoopTypeOK, DeviceInv, Free
<1>7. CASE NextBlock
  <2>1. LockInv'
    BY <1>0, <1>7 DEF NextBlock, LockInv, Free
  <2> QED
    BY <1>0, <1>7, <2>1, OnlyPlaces DEF NextBlock, LoopTypeOK, DeviceInv, Free
<1> QED
  BY <1>2, <1>3, <1>4, <1>5, <1>6, <1>7 DEF CallbackTakes, CallbackRuns

-------------------------------------------------------------------------------
LEMMA Inductive ==
  ASSUME LoopInv, [LoopNext]_loopVars
  PROVE  LoopInv'
<1>1. CASE UNCHANGED loopVars
  BY <1>1 DEF loopVars, deviceVars, tasks, messages, LoopInv, LoopTypeOK, LockInv,
              DeviceInv, Noted, WillBeNoted, Calls
<1>2. CASE \E t \in Threads : DeviceStep(t)
  BY <1>2, MainCloses, MainOpens, MainNotes, CallbackStays DEF DeviceStep, Threads
<1>3. CASE LoopNext /\ ~\E t \in Threads : DeviceStep(t)
  BY <1>3, MessageKeeps, MainRunsKeeps, MainWaitsKeeps, CallbackKeeps DEF LoopNext
<1> QED
  BY <1>1, <1>2, <1>3

(* Types, who holds the lock and what Pd has noted of the device.          *)
THEOREM LoopInvariance == LoopSpec => []LoopInv
<1>1. LoopInv /\ [LoopNext]_loopVars => LoopInv'
  BY Inductive
<1> QED
  BY <1>1, InitHolds, PTL DEF LoopSpec

(* A device with callbacks is closed by the main thread, while it does not *)
(* hold the lock that a callback under way may wait for: the dialog, the   *)
(* time-out of pa_send_dacs and m_mainloop's restart; whatever else was    *)
(* asked for before, and but for what is hasty and under way.              *)
THEOREM ClosesWhereItCan == LoopSpec => []CloseCanEnd
<1>1. LoopInv => CloseCanEnd
  <2> SUFFICES ASSUME LoopInv, NEW t \in Threads, Closes(t), Calls(stream)
               PROVE  Hasty("main") \/ Hasty("callback") \/ (t = "main" /\ lock # "main")
    BY DEF CloseCanEnd
  <2>1. job[t] \in {CloseJob, ReopenJob} /\ job[t] # Idle
    BY JobOf, TheJobs DEF Closes, LoopInv, LoopTypeOK
  <2> QED
    BY <2>1 DEF LoopInv, DeviceInv, Threads, Hasty
<1> QED
  BY <1>1, LoopInvariance, PTL

(* Buffers and the DSP graph are replaced while no callback is under way.  *)
THEOREM ReplacesFreeBuffers == LoopSpec => []BuffersAreFree
<1>1. LoopInv => BuffersAreFree
  <2> SUFFICES ASSUME LoopInv, NEW t \in Threads, Doing(t, "open")
               PROVE  cpc = "idle" \/ (t = "callback" /\ Hasty(t))
    BY DEF BuffersAreFree, NoCallback
  <2>1. job[t] = OpenJob /\ job[t] # Idle
    BY JobOf, TheJobs DEF LoopInv, LoopTypeOK
  <2> QED
    BY <2>1, JobTypes DEF LoopInv, DeviceInv, Threads, Hasty
<1> QED
  BY <1>1, LoopInvariance, PTL
===============================================================================
