---------------------------- MODULE BindListProofs ----------------------------
(* Proofs about what is bound to a symbol, for any number of things and    *)
(* elements and deliveries nested to any depth: the list is always exactly *)
(* what is bound, and a delivery whose element was not freed under it has  *)
(* exactly the others still to call.                                       *)
EXTENDS BindList, SequenceTheorems, TLAPS

NoRepeat(s) == \A i, j \in 1..Len(s) : s[i] = s[j] => i = j

(* The element a of a list of s holds the p-th thing and leads to the next.*)
Sits(el, lv, s, a, p) ==
  /\ el[a].e_who = s[p]
  /\ p = Len(s) => el[a].e_next = Null
  /\ p < Len(s) => el[a].e_next \in lv /\ el[el[a].e_next].e_who = s[p + 1]

(* The elements lv, of which the first is f, are a list of s.              *)
Linked(el, lv, f, s) ==
  /\ f \in lv /\ el[f].e_who = s[1]
  /\ \A a \in lv : \E p \in 1..Len(s) : Sits(el, lv, s, a, p)
  /\ \A p \in 1..Len(s) : \E a \in lv : el[a].e_who = s[p]
  /\ \A a, b \in lv : el[a].e_who = el[b].e_who => a = b

LinkInv ==
  /\ NoRepeat(bound)
  /\ Len(bound) = 0 => thing = Null /\ live = {}
  /\ Len(bound) = 1 => thing = bound[1] /\ live = {}
  /\ Len(bound) >= 2 => thing = List /\ Linked(elem, live, b_list, bound)

(* d is what follows the p-th place of s.                                  *)
IsRest(d, s, p) ==
  /\ Len(d) = Len(s) - p
  /\ \A j \in 1..(Len(s) - p) : d[j] = s[p + j]

(* An element that was not freed under a delivery is in the list, and the  *)
(* delivery has what follows it to call.                                   *)
Stands(d) ==
  d.at \in live /\ \E p \in 1..Len(bound) : /\ elem[d.at].e_who = bound[p]
                                            /\ IsRest(d.due, bound, p)
DueInv == \A i \in 1..Len(stack) :
            stack[i].at # Null /\ ~stack[i].freed => Stands(stack[i])

IInv == TypeOK /\ LinkInv /\ DueInv

-------------------------------------------------------------------------------
(* Sequences.                                                              *)

LEMMA SeqFacts ==
  ASSUME NEW S, NEW s \in Seq(S)
  PROVE  /\ Len(s) \in Nat /\ DOMAIN s = 1..Len(s)
         /\ \A i \in 1..Len(s) : s[i] \in S
BY LenProperties, ElementOfSeq

(* What RemoveAt returns, element by element.                              *)
LEMMA RemoveAtFacts ==
  ASSUME NEW S, NEW s \in Seq(S), NEW i \in 1..Len(s)
  PROVE  /\ RemoveAt(s, i) \in Seq(S)
         /\ Len(RemoveAt(s, i)) = Len(s) - 1
         /\ \A j \in 1..(Len(s) - 1) :
              RemoveAt(s, i)[j] = IF j < i THEN s[j] ELSE s[j + 1]
<1>0. Len(s) \in Nat
  BY LenProperties
<1>1. \A j \in 1..Len(s) : s[j] \in S
  BY ElementOfSeq
<1> DEFINE a == SubSeq(s, 1, i - 1)
           b == SubSeq(s, i + 1, Len(s))
<1>2. a \in Seq(S) /\ Len(a) = i - 1 /\ \A j \in 1..(i - 1) : a[j] = s[j]
  <2>1. \A j \in 1..(i - 1) : s[j] \in S  BY <1>1
  <2> QED BY <2>1, SubSeqProperties
<1>3. /\ b \in Seq(S) /\ Len(b) = Len(s) - i
      /\ \A j \in 1..(Len(s) - i) : b[j] = s[i + j]
  <2>1. \A j \in (i + 1)..Len(s) : s[j] \in S  BY <1>1
  <2> QED BY <2>1, SubSeqProperties
<1>4. RemoveAt(s, i) = a \o b
  BY DEF RemoveAt
<1> HIDE DEF a, b
<1>5. /\ a \o b \in Seq(S) /\ Len(a \o b) = Len(s) - 1
      /\ \A j \in 1..(Len(s) - 1) :
           (a \o b)[j] = IF j <= i - 1 THEN a[j] ELSE b[j - (i - 1)]
  <2>1. /\ a \o b \in Seq(S) /\ Len(a \o b) = Len(a) + Len(b)
        /\ \A j \in 1..(Len(a) + Len(b)) :
             (a \o b)[j] = IF j <= Len(a) THEN a[j] ELSE b[j - Len(a)]
    BY <1>2, <1>3, ConcatProperties
  <2> QED BY <1>0, <1>2, <1>3, <2>1
<1>6. ASSUME NEW j \in 1..(Len(s) - 1)
      PROVE (a \o b)[j] = IF j < i THEN s[j] ELSE s[j + 1]
  <2>1. CASE j < i  BY <1>2, <1>5, <2>1
  <2>2. CASE ~(j < i)
    <3>1. j - (i - 1) \in 1..(Len(s) - i) /\ i + (j - (i - 1)) = j + 1
      BY <2>2
    <3> QED BY <1>3, <1>5, <2>2, <3>1
  <2> QED BY <2>1, <2>2
<1> QED BY <1>4, <1>5, <1>6

(* Drop takes out the one place x is at, or nothing.                       *)
LEMMA DropFacts ==
  ASSUME NEW s \in Seq(Things), NoRepeat(s), NEW p \in 1..Len(s)
  PROVE  /\ Drop(s, s[p]) \in Seq(Things)
         /\ Len(Drop(s, s[p])) = Len(s) - 1
         /\ \A j \in 1..(Len(s) - 1) :
              Drop(s, s[p])[j] = IF j < p THEN s[j] ELSE s[j + 1]
<1>1. DOMAIN s = 1..Len(s)
  BY SeqFacts
<1>2. \E i \in DOMAIN s : s[i] = s[p]
  BY <1>1
<1>3. (CHOOSE i \in DOMAIN s : s[i] = s[p]) = p
  BY <1>1 DEF NoRepeat
<1>4. Drop(s, s[p]) = RemoveAt(s, p)
  BY <1>2, <1>3, Zenon DEF Drop
<1> QED BY <1>4, RemoveAtFacts

LEMMA DropNothing ==
  ASSUME NEW s \in Seq(Things), NEW x, \A i \in 1..Len(s) : s[i] # x
  PROVE  Drop(s, x) = s
<1>1. ~ \E i \in DOMAIN s : s[i] = x
  BY SeqFacts
<1> QED BY <1>1, Zenon DEF Drop

LEMMA DropInSeq ==
  ASSUME NEW s \in Seq(Things), NEW x
  PROVE  Drop(s, x) \in Seq(Things)
<1>1. CASE \E i \in DOMAIN s : s[i] = x
  <2> DEFINE p == CHOOSE i \in DOMAIN s : s[i] = x
  <2>1. p \in DOMAIN s
    BY <1>1, Zenon
  <2>2. Drop(s, x) = RemoveAt(s, p)
    BY <1>1, Zenon DEF Drop
  <2> HIDE DEF p
  <2>3. p \in 1..Len(s)
    BY <2>1, SeqFacts
  <2> QED BY <2>2, <2>3, RemoveAtFacts
<1>2. CASE ~ \E i \in DOMAIN s : s[i] = x
  BY <1>2, Zenon DEF Drop
<1> QED BY <1>1, <1>2

(* Putting a thing in front.                                               *)
LEMMA InFront ==
  ASSUME NEW s \in Seq(Things), NEW x \in Things
  PROVE  /\ <<x>> \o s \in Seq(Things)
         /\ Len(<<x>> \o s) = Len(s) + 1
         /\ (<<x>> \o s)[1] = x
         /\ \A j \in 1..Len(s) : (<<x>> \o s)[j + 1] = s[j]
<1>1. <<x>> \in Seq(Things) /\ Len(<<x>>) = 1 /\ <<x>>[1] = x
  OBVIOUS
<1>2. Len(s) \in Nat
  BY SeqFacts
<1> DEFINE o == <<x>>
<1> HIDE DEF o
<1>3. /\ o \o s \in Seq(Things) /\ Len(o \o s) = Len(o) + Len(s)
      /\ \A j \in 1..(Len(o) + Len(s)) :
           (o \o s)[j] = IF j <= Len(o) THEN o[j] ELSE s[j - Len(o)]
  BY <1>1, ConcatProperties DEF o
<1>4. o \in Seq(Things) /\ Len(o) = 1 /\ o[1] = x
  BY <1>1 DEF o
<1>5. \A j \in 1..Len(s) : (o \o s)[j + 1] = s[j]
  <2> TAKE j \in 1..Len(s)
  <2>1. /\ j + 1 \in 1..(Len(o) + Len(s)) /\ ~(j + 1 <= Len(o))
        /\ (j + 1) - Len(o) = j
    BY <1>2, <1>4
  <2>2. (o \o s)[j + 1] = s[(j + 1) - Len(o)]
    BY <1>3, <2>1
  <2> QED BY <2>1, <2>2
<1>6. (o \o s)[1] = x
  BY <1>2, <1>3, <1>4
<1> QED BY <1>2, <1>3, <1>4, <1>5, <1>6 DEF o
-------------------------------------------------------------------------------
(* What pd_bind and pd_unbind do to a list.                                *)

Lacks(s, x) == \A i \in 1..Len(s) : s[i] # x
Agree(el2, el, lv) == \A a \in lv : el2[a] = el[a]

(* Two elements that are made into a list.                                 *)
LEMMA LinkedTwo ==
  ASSUME NEW el, NEW e1, NEW e2, NEW x, NEW y, NEW s, e1 # e2, x # y,
         el[e1].e_who = x, el[e1].e_next = e2,
         el[e2].e_who = y, el[e2].e_next = Null,
         Len(s) = 2, s[1] = x, s[2] = y
  PROVE  Linked(el, {e1, e2}, e1, s)
<1>1. Sits(el, {e1, e2}, s, e1, 1) /\ Sits(el, {e1, e2}, s, e2, 2)
  BY DEF Sits
<1>2. 1 \in 1..Len(s) /\ 2 \in 1..Len(s)
  OBVIOUS
<1>3. \A a \in {e1, e2} : \E p \in 1..Len(s) : Sits(el, {e1, e2}, s, a, p)
  BY <1>1, <1>2
<1>4. \A p \in 1..Len(s) : \E a \in {e1, e2} : el[a].e_who = s[p]
  OBVIOUS
<1> QED BY <1>3, <1>4 DEF Linked

(* An element put in front of a list.                                      *)
LEMMA LinkedMore ==
  ASSUME NEW el, NEW el2, NEW lv, NEW f, NEW s \in Seq(Things),
         NEW x \in Things, NEW e,
         Linked(el, lv, f, s), Len(s) >= 1, e \notin lv,
         Lacks(s, x), Agree(el2, el, lv),
         el2[e].e_who = x, el2[e].e_next = f
  PROVE  Linked(el2, lv \union {e}, e, <<x>> \o s)
<1> DEFINE r == <<x>> \o s
           w == lv \union {e}
<1>1. /\ Len(s) \in Nat /\ r \in Seq(Things) /\ Len(r) = Len(s) + 1 /\ r[1] = x
      /\ \A j \in 1..Len(s) : r[j + 1] = s[j]
  BY SeqFacts, InFront
<1> HIDE DEF r
<1>2. \A a \in lv : el2[a].e_who = el[a].e_who /\ el2[a].e_next = el[a].e_next
  BY DEF Agree
<1>3. /\ f \in lv /\ el[f].e_who = s[1]
      /\ \A a \in lv : \E p \in 1..Len(s) : Sits(el, lv, s, a, p)
      /\ \A p \in 1..Len(s) : \E a \in lv : el[a].e_who = s[p]
      /\ \A a, b \in lv : el[a].e_who = el[b].e_who => a = b
  BY DEF Linked
<1>4. Sits(el2, w, r, e, 1)
  <2>1. el2[f].e_who = r[2]
    <3>1. 1 \in 1..Len(s)
      BY <1>1
    <3> QED BY <1>1, <1>2, <1>3, <3>1
  <2> QED BY <1>1, <1>3, <2>1 DEF Sits
<1>5. ASSUME NEW a \in lv PROVE \E p \in 1..Len(r) : Sits(el2, w, r, a, p)
  <2>1. PICK p \in 1..Len(s) : Sits(el, lv, s, a, p)
    BY <1>3
  <2>2. p + 1 \in 1..Len(r) /\ r[p + 1] = s[p]
    BY <1>1
  <2>3. el2[a].e_who = r[p + 1]
    BY <1>2, <2>1, <2>2 DEF Sits
  <2>4. p + 1 = Len(r) => el2[a].e_next = Null
    BY <1>1, <1>2, <2>1 DEF Sits
  <2>5. p + 1 < Len(r) => /\ el2[a].e_next \in w
                          /\ el2[el2[a].e_next].e_who = r[p + 2]
    <3> HAVE p + 1 < Len(r)
    <3>1. p < Len(s) /\ p + 1 \in 1..Len(s)
      BY <1>1
    <3>2. el[a].e_next \in lv /\ el[el[a].e_next].e_who = s[p + 1]
      BY <2>1, <3>1 DEF Sits
    <3>3. r[p + 2] = s[p + 1]
      <4>1. r[(p + 1) + 1] = s[p + 1] /\ (p + 1) + 1 = p + 2
        BY <1>1, <3>1
      <4> QED BY <4>1
    <3> QED BY <1>2, <3>2, <3>3
  <2>6. (p + 1) + 1 = p + 2
    OBVIOUS
  <2>7. Sits(el2, w, r, a, p + 1)
    BY <2>3, <2>4, <2>5, <2>6 DEF Sits
  <2> QED BY <2>2, <2>7
<1>6. \A a \in w : \E p \in 1..Len(r) : Sits(el2, w, r, a, p)
  <2>1. 1 \in 1..Len(r)
    BY <1>1
  <2> QED BY <1>4, <1>5, <2>1
<1>7. ASSUME NEW p \in 1..Len(r) PROVE \E a \in w : el2[a].e_who = r[p]
  <2>1. CASE p = 1
    BY <1>1, <2>1
  <2>2. CASE p # 1
    <3>1. p - 1 \in 1..Len(s) /\ r[(p - 1) + 1] = s[p - 1] /\ (p - 1) + 1 = p
      BY <1>1, <2>2
    <3>2. PICK a \in lv : el[a].e_who = s[p - 1]
      BY <1>3, <3>1
    <3> QED BY <1>2, <3>1, <3>2
  <2> QED BY <2>1, <2>2
<1>8. \A a \in lv : el2[a].e_who # x
  BY <1>2, <1>3 DEF Sits, Lacks
<1>9. \A a, b \in w : el2[a].e_who = el2[b].e_who => a = b
  BY <1>2, <1>3, <1>8
<1> QED BY <1>1, <1>6, <1>7, <1>9 DEF Linked, r

(* An element taken out of a list of two or more.                          *)
LEMMA LinkedTaken ==
  ASSUME NEW s, NEW r, NEW e \in live, NEW p \in 1..Len(s), Len(s) \in Nat,
         live \subseteq Addrs, elem \in [Addrs -> [e_who : Things \union {Null},
                                                   e_next : Addrs \union {Null}]],
         Linked(elem, live, b_list, s), NoRepeat(s), Len(s) >= 2,
         elem[e].e_who = s[p], Len(r) = Len(s) - 1,
         \A j \in 1..(Len(s) - 1) : r[j] = IF j < p THEN s[j] ELSE s[j + 1]
  PROVE  Linked(TakenOut(e).elem, live \ {e}, TakenOut(e).first, r)
<1> DEFINE el2 == TakenOut(e).elem
           f2 == TakenOut(e).first
           w == live \ {e}
<1>1. f2 = IF e = b_list THEN elem[e].e_next ELSE b_list
  BY DEF TakenOut
<1>2. \A a \in w : /\ el2[a].e_who = elem[a].e_who
                   /\ elem[a].e_next = e => el2[a].e_next = elem[e].e_next
                   /\ elem[a].e_next # e => el2[a].e_next = elem[a].e_next
  BY DEF TakenOut, Elem
<1> HIDE DEF el2, f2
<1>3. /\ b_list \in live /\ elem[b_list].e_who = s[1]
      /\ \A a \in live : \E q \in 1..Len(s) : Sits(elem, live, s, a, q)
      /\ \A q \in 1..Len(s) : \E a \in live : elem[a].e_who = s[q]
      /\ \A a, b \in live : elem[a].e_who = elem[b].e_who => a = b
  BY DEF Linked
<1>4. \A i, j \in 1..Len(s) : s[i] = s[j] => i = j
  BY DEF NoRepeat
<1>5. Sits(elem, live, s, e, p)
  <2>1. PICK q \in 1..Len(s) : Sits(elem, live, s, e, q)
    BY <1>3
  <2>2. q = p
    BY <1>4, <2>1 DEF Sits
  <2> QED BY <2>1, <2>2
<1>6. p < Len(s) => /\ elem[e].e_next \in w
                    /\ el2[elem[e].e_next].e_who = s[p + 1]
                    /\ p + 1 \in 1..Len(s)
  <2> HAVE p < Len(s)
  <2>1. /\ elem[e].e_next \in live /\ elem[elem[e].e_next].e_who = s[p + 1]
        /\ p + 1 \in 1..Len(s) /\ p + 1 # p
    BY <1>5 DEF Sits
  <2>2. elem[e].e_next # e
    BY <1>4, <2>1
  <2> QED BY <1>2, <2>1, <2>2
<1>7. p = Len(s) => elem[e].e_next = Null
  BY <1>5 DEF Sits
<1>8. e # Null
  BY BindAssumption
<1>9. ASSUME NEW a \in w PROVE \E k \in 1..Len(r) : Sits(el2, w, r, a, k)
  <2>1. PICK q \in 1..Len(s) : Sits(elem, live, s, a, q)
    BY <1>3
  <2>2. q # p
    <3>1. elem[a].e_who = s[q]
      BY <2>1 DEF Sits
    <3> QED BY <1>3, <3>1
  <2> DEFINE k == IF q < p THEN q ELSE q - 1
  <2>3. k \in 1..Len(r) /\ r[k] = s[q]
    <3>1. CASE q < p
      <4>1. q \in 1..(Len(s) - 1)
        BY <3>1
      <4> QED BY <3>1, <4>1
    <3>2. CASE p < q
      <4>1. q - 1 \in 1..(Len(s) - 1) /\ ~(q - 1 < p) /\ (q - 1) + 1 = q
        BY <3>2
      <4>2. r[q - 1] = s[(q - 1) + 1]
        BY <4>1
      <4> QED BY <3>2, <4>1, <4>2
    <3> QED BY <2>2, <3>1, <3>2
  <2>4. el2[a].e_who = r[k]
    BY <1>2, <2>1, <2>3 DEF Sits
  <2>5. k = Len(r) => el2[a].e_next = Null
    <3> HAVE k = Len(r)
    <3>1. CASE p = Len(s)
      <4>1. q < Len(s) /\ q + 1 = p
        BY <2>2, <3>1
      <4>2. elem[a].e_next \in live /\ elem[elem[a].e_next].e_who = s[q + 1]
        BY <2>1, <4>1 DEF Sits
      <4>3. elem[a].e_next = e
        <5> HIDE DEF k
        <5>1. elem[elem[a].e_next].e_who = elem[e].e_who
          BY <4>1, <4>2
        <5> QED BY <1>3, <4>2, <5>1
      <4> QED BY <1>2, <1>7, <3>1, <4>3
    <3>2. CASE p # Len(s)
      <4>1. q = Len(s)
        BY <2>2, <3>2
      <4>2. elem[a].e_next = Null
        BY <2>1, <4>1 DEF Sits
      <4> QED BY <1>2, <1>8, <4>2
    <3> QED BY <3>1, <3>2
  <2>6. k < Len(r) => el2[a].e_next \in w /\ el2[el2[a].e_next].e_who = r[k + 1]
    <3> HAVE k < Len(r)
    <3>1. CASE q + 1 = p
      <4>1. elem[a].e_next \in live /\ elem[elem[a].e_next].e_who = s[q + 1]
        BY <2>1, <3>1 DEF Sits
      <4>2. elem[a].e_next = e
        <5> HIDE DEF k
        <5>1. elem[elem[a].e_next].e_who = elem[e].e_who
          BY <3>1, <4>1
        <5> QED BY <1>3, <4>1, <5>1
      <4>3. p < Len(s) /\ k + 1 = p /\ p \in 1..(Len(s) - 1)
        BY <3>1
      <4>4. r[p] = s[p + 1]
        BY <4>3
      <4> QED BY <1>2, <1>6, <4>2, <4>3, <4>4
    <3>2. CASE q + 1 # p
      <4>1. q < Len(s) /\ q + 1 \in 1..Len(s)
        BY <2>2, <3>2
      <4>2. elem[a].e_next \in live /\ elem[elem[a].e_next].e_who = s[q + 1]
        BY <2>1, <4>1 DEF Sits
      <4>3. elem[a].e_next # e
        BY <1>4, <3>2, <4>1, <4>2
      <4>4. r[k + 1] = s[q + 1]
        <5>1. CASE q < p
          <6>1. k + 1 = q + 1 /\ q + 1 < p /\ q + 1 \in 1..(Len(s) - 1)
            BY <3>2, <5>1
          <6> QED BY <6>1
        <5>2. CASE p < q
          <6>1. k + 1 = q /\ ~(q < p) /\ q \in 1..(Len(s) - 1)
            BY <4>1, <5>2
          <6> QED BY <6>1
        <5> QED BY <2>2, <5>1, <5>2
      <4> HIDE DEF k
      <4> QED BY <1>2, <4>2, <4>3, <4>4
    <3> QED BY <3>1, <3>2
  <2>7. Sits(el2, w, r, a, k)
    <3> HIDE DEF k
    <3> QED BY <2>4, <2>5, <2>6 DEF Sits
  <2> HIDE DEF k
  <2> QED BY <2>3, <2>7
<1>10. ASSUME NEW k \in 1..Len(r) PROVE \E a \in w : el2[a].e_who = r[k]
  <2> DEFINE q == IF k < p THEN k ELSE k + 1
  <2>1. q \in 1..Len(s) /\ q # p /\ r[k] = s[q]
    OBVIOUS
  <2> HIDE DEF q
  <2>2. PICK a \in live : elem[a].e_who = s[q]
    BY <1>3, <2>1
  <2>3. a # e
    BY <1>4, <2>1, <2>2
  <2> QED BY <1>2, <2>1, <2>2, <2>3
<1>11. \A a, b \in w : el2[a].e_who = el2[b].e_who => a = b
  BY <1>2, <1>3
<1>12. f2 \in w /\ el2[f2].e_who = r[1]
  <2>1. CASE p = 1
    <3>1. e = b_list
      BY <1>3, <2>1
    <3>2. p < Len(s) /\ 1 \in 1..(Len(s) - 1) /\ ~(1 < p) /\ 1 + 1 = p + 1
      BY <2>1
    <3>3. r[1] = s[1 + 1]
      BY <3>2
    <3> QED BY <1>1, <1>6, <3>1, <3>2, <3>3
  <2>2. CASE p # 1
    <3>1. 1 \in 1..Len(s) /\ 1 < p /\ 1 \in 1..(Len(s) - 1)
      BY <2>2
    <3>2. e # b_list
      BY <1>3, <1>4, <3>1
    <3>3. r[1] = s[1]
      BY <3>1
    <3> QED BY <1>1, <1>2, <1>3, <3>2, <3>3
  <2> QED BY <2>1, <2>2
<1> QED BY <1>9, <1>10, <1>11, <1>12 DEF Linked, el2, f2
-------------------------------------------------------------------------------
(* A list read along its links.                                            *)

LEMMA RestFacts ==
  ASSUME NEW s \in Seq(Things), NEW p \in 0..Len(s)
  PROVE  /\ SubSeq(s, p + 1, Len(s)) \in Seq(Things)
         /\ IsRest(SubSeq(s, p + 1, Len(s)), s, p)
<1>1. Len(s) \in Nat /\ \A i \in 1..Len(s) : s[i] \in Things
  BY SeqFacts
<1> DEFINE m == p + 1
           n == Len(s)
           d == SubSeq(s, m, n)
<1>2. m \in Int /\ n \in Int /\ \A i \in m..n : s[i] \in Things
  BY <1>1
<1>3. /\ d \in Seq(Things) /\ Len(d) = IF m <= n THEN n - m + 1 ELSE 0
      /\ \A i \in 1..(n - m + 1) : d[i] = s[m + i - 1]
  <2> HIDE DEF m, n
  <2> QED BY <1>2, SubSeqProperties
<1> HIDE DEF d
<1>4. Len(d) = Len(s) - p
  BY <1>1, <1>3
<1>5. ASSUME NEW j \in 1..(Len(s) - p) PROVE d[j] = s[p + j]
  <2>1. m + j - 1 = p + j /\ j \in 1..(n - m + 1)
    BY <1>1
  <2>2. d[j] = s[m + j - 1]
    BY <1>3, <2>1
  <2> HIDE DEF m
  <2> QED BY <2>1, <2>2
<1> QED BY <1>3, <1>4, <1>5 DEF IsRest, d

LEMMA RestOfRest ==
  ASSUME NEW s \in Seq(Things), NEW d \in Seq(Things), NEW c,
         NEW p \in 0..Len(s),
         IsRest(d, s, p), NEW j \in 0..Len(d), IsRest(c, d, j)
  PROVE  p + j \in 0..Len(s) /\ IsRest(c, s, p + j)
<1>1. Len(s) \in Nat /\ Len(d) = Len(s) - p
  BY SeqFacts DEF IsRest
<1>2. Len(c) = Len(s) - (p + j)
  BY <1>1 DEF IsRest
<1>3. ASSUME NEW i \in 1..(Len(s) - (p + j)) PROVE c[i] = s[(p + j) + i]
  <2>1. /\ i \in 1..(Len(d) - j) /\ j + i \in 1..(Len(s) - p)
        /\ p + (j + i) = (p + j) + i
    BY <1>1
  <2>2. c[i] = d[j + i]
    BY <2>1 DEF IsRest
  <2>3. d[j + i] = s[p + (j + i)]
    BY <2>1 DEF IsRest
  <2> QED BY <2>1, <2>2, <2>3
<1> QED BY <1>1, <1>2, <1>3 DEF IsRest

LEMMA RestLeads ==
  ASSUME NEW s \in Seq(Things), NEW d \in Seq(Things), NEW a,
         NEW p \in 1..Len(s),
         Sits(elem, live, s, a, p), IsRest(d, s, p)
  PROVE  LeadsTo(elem[a].e_next, d)
<1>1. Len(s) \in Nat /\ Len(d) = Len(s) - p
  BY SeqFacts DEF IsRest
<1>2. CASE p = Len(s)
  <2>1. d = <<>>
    BY <1>1, <1>2
  <2> QED BY <1>2, <2>1 DEF Sits, LeadsTo
<1>3. CASE p # Len(s)
  <2>1. d # <<>> /\ 1 \in 1..(Len(s) - p) /\ p < Len(s)
    BY <1>1, <1>3
  <2>2. d[1] = s[p + 1]
    BY <2>1 DEF IsRest
  <2> QED BY <2>1, <2>2 DEF Sits, LeadsTo
<1> QED BY <1>2, <1>3

(* The place of an element is the place of its thing.                      *)
LEMMA SitsThere ==
  ASSUME NEW s, NEW f, NEW a \in live, NEW p \in 1..Len(s),
         Linked(elem, live, f, s), NoRepeat(s), elem[a].e_who = s[p]
  PROVE  Sits(elem, live, s, a, p)
<1>1. PICK q \in 1..Len(s) : Sits(elem, live, s, a, q)
  BY DEF Linked
<1>2. q = p
  BY <1>1 DEF Sits, NoRepeat
<1> QED BY <1>1, <1>2

LEMMA ChainRest ==
  ASSUME NEW s \in Seq(Things), NEW d \in Seq(Things), NEW f, NEW a \in live,
         NEW p \in 1..Len(s), Linked(elem, live, f, s), NoRepeat(s),
         elem[a].e_who = s[p], IsRest(d, s, p)
  PROVE  Chain(elem[a].e_next, d)
<1>1. LeadsTo(elem[a].e_next, d)
  BY SitsThere, RestLeads
<1>2. /\ DOMAIN d = 1..Len(d) /\ Len(d) = Len(s) - p /\ Len(s) \in Nat
      /\ p \in 0..Len(s)
  BY SeqFacts DEF IsRest
<1>3. ASSUME NEW i \in DOMAIN d
      PROVE  \E b \in live : /\ elem[b].e_who = d[i]
                             /\ LeadsTo(elem[b].e_next, SubSeq(d, i + 1, Len(d)))
  <2>1. i \in 0..Len(d) /\ p + i \in 1..Len(s) /\ d[i] = s[p + i]
    BY <1>2 DEF IsRest
  <2>2. PICK b \in live : elem[b].e_who = s[p + i]
    BY <2>1 DEF Linked
  <2> DEFINE c == SubSeq(d, i + 1, Len(d))
  <2>3. c \in Seq(Things) /\ IsRest(c, d, i)
    BY <2>1, RestFacts
  <2> HIDE DEF c
  <2>4. IsRest(c, s, p + i)
    BY <1>2, <2>1, <2>3, RestOfRest
  <2>5. Sits(elem, live, s, b, p + i)
    BY <2>1, <2>2, SitsThere
  <2>6. LeadsTo(elem[b].e_next, c)
    BY <2>1, <2>3, <2>4, <2>5, RestLeads
  <2> QED BY <2>1, <2>2, <2>6 DEF c
<1> QED BY <1>1, <1>3 DEF Chain

LEMMA ChainWhole ==
  ASSUME NEW s \in Seq(Things), NEW f, Linked(elem, live, f, s), NoRepeat(s),
         Len(s) >= 1
  PROVE  Chain(f, s)
<1>1. DOMAIN s = 1..Len(s) /\ Len(s) \in Nat
  BY SeqFacts
<1>2. LeadsTo(f, s)
  <2>1. s # <<>>
    BY <1>1
  <2> QED BY <2>1 DEF LeadsTo, Linked
<1>3. ASSUME NEW i \in DOMAIN s
      PROVE  \E b \in live : /\ elem[b].e_who = s[i]
                             /\ LeadsTo(elem[b].e_next, SubSeq(s, i + 1, Len(s)))
  <2>1. i \in 1..Len(s) /\ i \in 0..Len(s)
    BY <1>1
  <2>2. PICK b \in live : elem[b].e_who = s[i]
    BY <2>1 DEF Linked
  <2>3. /\ SubSeq(s, i + 1, Len(s)) \in Seq(Things)
        /\ IsRest(SubSeq(s, i + 1, Len(s)), s, i)
    BY <2>1, RestFacts
  <2> QED BY <2>1, <2>2, <2>3, SitsThere, RestLeads
<1> QED BY <1>2, <1>3 DEF Chain
-------------------------------------------------------------------------------
(* The types.                                                              *)

ElemType == [e_who : Things \union {Null}, e_next : Addrs \union {Null}]
DeliveryType == [at : Addrs \union {Null}, due : Seq(Things), freed : BOOLEAN]

LEMMA TailInSeq ==
  ASSUME NEW s \in Seq(Things), s # <<>>
  PROVE  /\ Tail(s) \in Seq(Things) /\ Len(Tail(s)) = Len(s) - 1
         /\ \A j \in 1..(Len(s) - 1) : Tail(s)[j] = s[j + 1]
<1>1. Tail(s) \in Seq(Things) /\ Len(Tail(s)) = Len(s) - 1
  BY HeadTailProperties
<1>2. \A j \in 1..Len(Tail(s)) : Tail(s)[j] = s[j + 1]
  BY HeadTailProperties
<1> QED BY <1>1, <1>2

(* What Step does to the deliveries.                                       *)
LEMMA StepIs ==
  ASSUME NEW next, stack \in Seq(DeliveryType), stack # <<>>, Step(next)
  PROVE  /\ next = Null => /\ Len(stack') = Len(stack) - 1
                           /\ \A i \in 1..Len(stack') : stack'[i] = stack[i]
                           /\ stack' \in Seq(DeliveryType)
         /\ next # Null =>
              /\ Len(stack') = Len(stack)
              /\ \A i \in 1..(Len(stack) - 1) : stack'[i] = stack[i]
              /\ stack'[Len(stack)].at = next
              /\ stack'[Len(stack)].due = DueAfter(Top)
              /\ stack'[Len(stack)].freed = Top.freed
              /\ next \in Addrs => stack' \in Seq(DeliveryType)
<1>1. /\ Len(stack) \in Nat \ {0} /\ DOMAIN stack = 1..Len(stack)
      /\ \A i \in 1..Len(stack) : stack[i] \in DeliveryType
  BY SeqFacts
<1>2. CASE next = Null
  <2>1. stack' = SubSeq(stack, 1, Len(stack) - 1)
    BY <1>2 DEF Step, Front
  <2> DEFINE n == Len(stack) - 1
  <2>2. n \in Int /\ \A i \in 1..n : stack[i] \in DeliveryType
    BY <1>1
  <2>3. n \in Nat
    BY <1>1
  <2> HIDE DEF n
  <2>4. /\ SubSeq(stack, 1, n) \in Seq(DeliveryType)
        /\ Len(SubSeq(stack, 1, n)) = n
        /\ \A i \in 1..n : SubSeq(stack, 1, n)[i] = stack[i]
    <3>1. /\ SubSeq(stack, 1, n) \in Seq(DeliveryType)
          /\ Len(SubSeq(stack, 1, n)) = IF 1 <= n THEN n - 1 + 1 ELSE 0
          /\ \A i \in 1..(n - 1 + 1) : SubSeq(stack, 1, n)[i] = stack[1 + i - 1]
      BY <2>2, SubSeqProperties
    <3> QED BY <2>3, <3>1
  <2> QED BY <1>2, <2>1, <2>4 DEF n
<1>3. CASE next # Null
  <2> DEFINE n == Len(stack)
             d == [stack[n] EXCEPT !.at = next, !.due = DueAfter(Top)]
  <2>1. stack' = [stack EXCEPT ![n] = d]
    BY <1>3 DEF Step
  <2>2. n \in 1..Len(stack) /\ stack[n] \in DeliveryType /\ Top = stack[n]
    BY <1>1 DEF Top
  <2>3. d.at = next /\ d.due = DueAfter(Top) /\ d.freed = Top.freed
    BY <2>2 DEF DeliveryType
  <2>4. next \in Addrs => d \in DeliveryType
    <3> HAVE next \in Addrs
    <3>1. Top.due \in Seq(Things)
      BY <2>2 DEF DeliveryType
    <3>2. DueAfter(Top) \in Seq(Things)
      BY <3>1, TailInSeq DEF DueAfter
    <3> QED BY <2>2, <3>2 DEF DeliveryType
  <2> HIDE DEF d
  <2>5. /\ Len(stack') = Len(stack) /\ stack'[n] = d
        /\ \A i \in 1..(Len(stack) - 1) : stack'[i] = stack[i]
    <3>1. DOMAIN stack' = DOMAIN stack /\ stack'[n] = d
      BY <1>1, <2>1, <2>2
    <3>2. stack' \in [1..n -> {stack[i] : i \in 1..n} \union {d}]
      BY <1>1, <2>1, <2>2
    <3>3. Len(stack') = n
      BY <1>1, <3>2
    <3>5. ASSUME NEW i \in 1..(n - 1) PROVE stack'[i] = stack[i]
      <4>0. n \in Nat /\ DOMAIN stack = 1..n
        BY <1>1
      <4> HIDE DEF n
      <4>1. i \in 1..n /\ i # n
        BY <4>0
      <4>2. i \in DOMAIN stack
        BY <4>0, <4>1
      <4> QED BY <2>1, <4>1, <4>2
    <3> QED BY <3>1, <3>3, <3>5
  <2>6. d \in DeliveryType => stack' \in Seq(DeliveryType)
    BY <1>1, <2>1, <2>2
  <2> QED BY <1>3, <2>3, <2>4, <2>5, <2>6
<1> QED BY <1>2, <1>3

LEMMA InitType == Init => TypeOK
<1> HAVE Init
<1>1. <<>> \in Seq(Things) /\ <<>> \in Seq(DeliveryType)
  OBVIOUS
<1>2. elem \in [Addrs -> ElemType]
  BY DEF Init, Elem, ElemType
<1> QED BY <1>1, <1>2 DEF Init, TypeOK, ElemType, DeliveryType

(* How much is bound follows from what the symbol has.                     *)
LEMMA HowMany ==
  ASSUME IInv
  PROVE  /\ Len(bound) \in Nat /\ bound \in Seq(Things)
         /\ thing = Null => Len(bound) = 0 /\ live = {}
         /\ thing \in Things => Len(bound) = 1 /\ bound[1] = thing /\ live = {}
         /\ thing = List => /\ Len(bound) >= 2 /\ b_list \in live
                            /\ Linked(elem, live, b_list, bound)
         /\ live # {} => thing = List
<1>1. bound \in Seq(Things)
  BY DEF IInv, TypeOK
<1>2. Len(bound) \in Nat /\ \A i \in 1..Len(bound) : bound[i] \in Things
  BY <1>1, SeqFacts
<1>3. List # Null /\ List \notin Things /\ Null \notin Things
  BY BindAssumption
<1>4. CASE Len(bound) = 0
  BY <1>1, <1>2, <1>3, <1>4 DEF IInv, LinkInv
<1>5. CASE Len(bound) = 1
  <2>1. bound[1] \in Things
    BY <1>2, <1>5
  <2> QED BY <1>1, <1>2, <1>3, <1>5, <2>1 DEF IInv, LinkInv
<1>6. CASE Len(bound) >= 2
  <2>1. thing = List /\ Linked(elem, live, b_list, bound)
    BY <1>6 DEF IInv, LinkInv
  <2>2. b_list \in live
    BY <2>1 DEF Linked
  <2> QED BY <1>1, <1>2, <1>3, <1>6, <2>1, <2>2
<1>7. Len(bound) = 0 \/ Len(bound) = 1 \/ Len(bound) >= 2
  <2>1. \A n \in Nat : n = 0 \/ n = 1 \/ n >= 2
    OBVIOUS
  <2> QED BY <1>2, <2>1, Zenon
<1> QED BY <1>4, <1>5, <1>6, <1>7, Zenon

(* What pd_unbind leaves of the list.                                      *)
LEMMA LeftOver ==
  ASSUME IInv, NEW x \in Things, NEW e \in live, elem[e].e_who = x
  PROVE  /\ Len(bound) >= 2 /\ thing = List
         /\ \E p \in 1..Len(bound) : x = bound[p]
         /\ Drop(bound, x) \in Seq(Things)
         /\ Len(Drop(bound, x)) = Len(bound) - 1
         /\ NoRepeat(Drop(bound, x))
         /\ Linked(TakenOut(e).elem, live \ {e}, TakenOut(e).first, Drop(bound, x))
<1>1. /\ Len(bound) \in Nat /\ bound \in Seq(Things) /\ thing = List
      /\ Len(bound) >= 2 /\ Linked(elem, live, b_list, bound) /\ NoRepeat(bound)
  BY HowMany DEF IInv, LinkInv
<1>2. PICK p \in 1..Len(bound) : x = bound[p]
  BY <1>1 DEF Linked, Sits
<1> DEFINE r == Drop(bound, x)
<1>3. /\ r \in Seq(Things) /\ Len(r) = Len(bound) - 1
      /\ \A j \in 1..(Len(bound) - 1) :
           r[j] = IF j < p THEN bound[j] ELSE bound[j + 1]
  BY <1>1, <1>2, DropFacts
<1> HIDE DEF r
<1>4. NoRepeat(r)
  <2> SUFFICES ASSUME NEW i \in 1..Len(r), NEW j \in 1..Len(r), r[i] = r[j]
               PROVE  i = j
    BY DEF NoRepeat
  <2> DEFINE k == IF i < p THEN i ELSE i + 1
             m == IF j < p THEN j ELSE j + 1
  <2>1. /\ k \in 1..Len(bound) /\ m \in 1..Len(bound)
        /\ r[i] = bound[k] /\ r[j] = bound[m]
    BY <1>1, <1>3
  <2>2. k = m => i = j
    BY <1>1, <1>3
  <2> HIDE DEF k, m
  <2> QED BY <1>1, <2>1, <2>2 DEF NoRepeat
<1>5. Linked(TakenOut(e).elem, live \ {e}, TakenOut(e).first, r)
  BY <1>1, <1>2, <1>3, LinkedTaken DEF IInv, TypeOK
<1> QED BY <1>1, <1>2, <1>3, <1>4, <1>5 DEF r

LEMMA TypeStep == IInv /\ [Next]_vars => TypeOK'
<1> SUFFICES ASSUME IInv, [Next]_vars PROVE TypeOK'
  OBVIOUS
<1>0. /\ thing \in Things \union {Null, List} /\ b_list \in Addrs \union {Null}
      /\ elem \in [Addrs -> ElemType] /\ live \subseteq Addrs
      /\ stack \in Seq(DeliveryType) /\ bound \in Seq(Things)
      /\ crashed \in BOOLEAN
  BY DEF IInv, TypeOK, ElemType, DeliveryType
<1>q. /\ thing' \in Things \union {Null, List} /\ b_list' \in Addrs \union {Null}
      /\ elem' \in [Addrs -> ElemType] /\ live' \subseteq Addrs
      /\ stack' \in Seq(DeliveryType) /\ bound' \in Seq(Things)
      /\ crashed' \in BOOLEAN
      => TypeOK'
  BY DEF TypeOK, ElemType, DeliveryType
<1>1. ASSUME NEW x \in Things, Bind(x) PROVE TypeOK'
  <2>1. bound' \in Seq(Things)
    BY <1>0, <1>1, InFront DEF Bind
  <2>2. CASE BindFirst(x)
    BY <1>0, <1>1, <1>q, <2>1, <2>2 DEF Bind, BindFirst
  <2>3. CASE BindSecond(x)
    <3>1. PICK e1 \in Free, e2 \in Free :
            /\ elem' = [elem EXCEPT ![e1] = Elem(x, e2), ![e2] = Elem(thing, Null)]
            /\ b_list' = e1 /\ live' = live \union {e1, e2}
      BY <2>3 DEF BindSecond
    <3>2. e1 \in Addrs /\ e2 \in Addrs
      BY DEF Free
    <3>3. Elem(x, e2) \in ElemType /\ Elem(thing, Null) \in ElemType
      BY <2>3, <3>2 DEF Elem, ElemType, BindSecond
    <3>4. elem' \in [Addrs -> ElemType]
      BY <1>0, <3>1, <3>2, <3>3
    <3> QED BY <1>0, <1>1, <1>q, <2>1, <2>3, <3>1, <3>2, <3>4 DEF Bind, BindSecond
  <2>4. CASE BindMore(x)
    <3>1. PICK e \in Free : /\ elem' = [elem EXCEPT ![e] = Elem(x, b_list)]
                            /\ b_list' = e /\ live' = live \union {e}
      BY <2>4 DEF BindMore
    <3>2. e \in Addrs
      BY DEF Free
    <3>3. Elem(x, b_list) \in ElemType
      BY <1>0 DEF Elem, ElemType
    <3>4. elem' \in [Addrs -> ElemType]
      BY <1>0, <3>1, <3>2, <3>3
    <3> QED BY <1>0, <1>1, <1>q, <2>1, <2>4, <3>1, <3>2, <3>4 DEF Bind, BindMore
  <2> QED BY <1>1, <2>2, <2>3, <2>4 DEF Bind
<1>2. ASSUME NEW x \in Things, Unbind(x) PROVE TypeOK'
  <2>1. bound' \in Seq(Things)
    BY <1>0, <1>2, DropInSeq DEF Unbind
  <2>2. stack' \in Seq(DeliveryType)
    <3>1. /\ stack' = [i \in 1..Len(stack) |-> Unbound(stack[i], x)]
          /\ Len(stack) \in Nat
      BY <1>0, <1>2, SeqFacts DEF Unbind
    <3>2. ASSUME NEW i \in 1..Len(stack) PROVE Unbound(stack[i], x) \in DeliveryType
      <4>1. stack[i] \in DeliveryType
        BY <1>0, SeqFacts
      <4>2. Drop(stack[i].due, x) \in Seq(Things)
        BY <4>1, DropInSeq DEF DeliveryType
      <4> DEFINE c == Drop(stack[i].due, x)
                 f == stack[i].freed \/ stack[i].at \in live \ live'
      <4>3. Unbound(stack[i], x) = [stack[i] EXCEPT !.due = c, !.freed = f]
        BY <4>1 DEF Unbound, DeliveryType
      <4>4. f \in BOOLEAN
        OBVIOUS
      <4> HIDE DEF c, f
      <4> QED BY <4>1, <4>2, <4>3, <4>4 DEF DeliveryType, c
    <3> QED BY <3>1, <3>2
  <2>3. CASE thing = x
    BY <1>0, <1>2, <1>q, <2>1, <2>2, <2>3 DEF Unbind
  <2>4. CASE thing # x
    <3>1. PICK e \in live : elem[e].e_who = x /\ Without(e)
      BY <1>2, <2>4 DEF Unbind
    <3>2. elem' = TakenOut(e).elem
      BY <3>1 DEF Without
    <3>3. TakenOut(e).elem \in [Addrs -> ElemType]
      BY <1>0 DEF TakenOut, Elem, ElemType
    <3>4. TakenOut(e).first \in live
      BY <1>2, <3>1, LeftOver DEF Linked
    <3>5. TakenOut(e).elem[TakenOut(e).first].e_who \in Things \union {Null}
      BY <1>0, <3>3, <3>4 DEF ElemType
    <3>6. /\ thing' \in Things \union {Null, List}
          /\ b_list' \in Addrs \union {Null} /\ live' \subseteq Addrs
      BY <1>0, <3>1, <3>4, <3>5 DEF Without
    <3> QED BY <1>0, <1>2, <1>q, <2>1, <2>2, <3>2, <3>3, <3>6 DEF Unbind
  <2> QED BY <2>3, <2>4
<1>3. ASSUME Send PROVE TypeOK'
  <2> DEFINE d == IF thing = List THEN Delivery(b_list, Tail(bound))
                                  ELSE Delivery(Null, <<>>)
  <2>1. d \in DeliveryType
    <3>1. CASE thing = List
      <4>1. bound # <<>>
        BY <3>1, HowMany
      <4>2. Tail(bound) \in Seq(Things)
        BY <1>0, <4>1, TailInSeq
      <4> QED BY <1>0, <3>1, <4>2 DEF Delivery, DeliveryType
    <3>2. CASE thing # List
      <4>1. <<>> \in Seq(Things)
        OBVIOUS
      <4> QED BY <3>2, <4>1 DEF Delivery, DeliveryType
    <3> QED BY <3>1, <3>2
  <2>2. stack' = Append(stack, d)
    BY <1>3 DEF Send
  <2> HIDE DEF d
  <2>3. stack' \in Seq(DeliveryType)
    BY <1>0, <2>1, <2>2, AppendProperties
  <2> QED BY <1>0, <1>3, <1>q, <2>3 DEF Send
<1>4. ASSUME Return PROVE TypeOK'
  <2>1. /\ stack # <<>> /\ UNCHANGED <<thing, b_list, elem, live, bound>>
        /\ IF Top.at = Null THEN Step(Null) /\ UNCHANGED crashed ELSE ReadNext
    BY <1>4 DEF Return
  <2>2. CASE Step(Null) /\ UNCHANGED crashed
    <3>1. stack' \in Seq(DeliveryType)
      BY <1>0, <2>1, <2>2, StepIs
    <3> QED BY <1>0, <1>q, <2>1, <2>2, <3>1
  <2>3. CASE Top.at \in live /\ Step(elem[Top.at].e_next) /\ UNCHANGED crashed
    <3> DEFINE next == elem[Top.at].e_next
    <3>1. next \in Addrs \union {Null}
      BY <1>0, <2>3 DEF ElemType
    <3> HIDE DEF next
    <3>2. Step(next)
      BY <2>3 DEF next
    <3>3. stack' \in Seq(DeliveryType)
      BY <1>0, <2>1, <3>1, <3>2, StepIs
    <3> QED BY <1>0, <1>q, <2>1, <2>3, <3>3
  <2>4. CASE crashed' = TRUE /\ UNCHANGED stack
    BY <1>0, <1>q, <2>1, <2>4
  <2> QED BY <2>1, <2>2, <2>3, <2>4, Zenon DEF ReadNext
<1>5. ASSUME UNCHANGED vars PROVE TypeOK'
  BY <1>0, <1>5, <1>q DEF vars
<1> QED BY <1>1, <1>2, <1>3, <1>4, <1>5 DEF Next
-------------------------------------------------------------------------------
(* The list.                                                               *)

LEMMA BindLinks ==
  ASSUME IInv, TypeOK', NEW x \in Things, Bind(x)
  PROVE  LinkInv'
<1> DEFINE s == <<x>> \o bound
<1>1. /\ bound \in Seq(Things) /\ Len(bound) \in Nat /\ bound' = s
      /\ NoRepeat(bound) /\ elem \in [Addrs -> ElemType] /\ live \subseteq Addrs
  BY HowMany DEF Bind, IInv, TypeOK, LinkInv, ElemType
<1>2. Lacks(bound, x)
  BY <1>1, SeqFacts DEF Bind, IsBound, Lacks
<1>3. /\ Len(s) = Len(bound) + 1 /\ s[1] = x
      /\ \A j \in 1..Len(bound) : s[j + 1] = bound[j]
  BY <1>1, InFront
<1> HIDE DEF s
<1>4. NoRepeat(s)
  <2> SUFFICES ASSUME NEW i \in 1..Len(s), NEW j \in 1..Len(s), s[i] = s[j]
               PROVE  i = j
    BY DEF NoRepeat
  <2>1. i = 1 \/ (i - 1 \in 1..Len(bound) /\ s[i] = bound[i - 1])
    <3>1. i # 1 => i - 1 \in 1..Len(bound) /\ (i - 1) + 1 = i
      BY <1>1, <1>3
    <3> QED BY <1>3, <3>1
  <2>2. j = 1 \/ (j - 1 \in 1..Len(bound) /\ s[j] = bound[j - 1])
    <3>1. j # 1 => j - 1 \in 1..Len(bound) /\ (j - 1) + 1 = j
      BY <1>1, <1>3
    <3> QED BY <1>3, <3>1
  <2>3. (i - 1 \in 1..Len(bound) /\ j - 1 \in 1..Len(bound)
           /\ bound[i - 1] = bound[j - 1]) => i = j
    <3>1. i - 1 = j - 1 => i = j
      OBVIOUS
    <3> QED BY <1>1, <3>1 DEF NoRepeat
  <2> QED BY <1>2, <1>3, <2>1, <2>2, <2>3 DEF Lacks
<1>5. CASE BindFirst(x)
  <2>1. Len(bound) = 0 /\ live' = {} /\ thing' = x
    BY <1>5, HowMany DEF BindFirst
  <2> QED BY <1>1, <1>3, <1>4, <2>1 DEF LinkInv
<1>6. CASE BindSecond(x)
  <2>1. /\ Len(bound) = 1 /\ bound[1] = thing /\ live = {} /\ thing' = List
    BY <1>6, HowMany DEF BindSecond
  <2>2. PICK e1 \in Free, e2 \in Free :
          /\ e1 # e2
          /\ elem' = [elem EXCEPT ![e1] = Elem(x, e2), ![e2] = Elem(thing, Null)]
          /\ b_list' = e1 /\ live' = live \union {e1, e2}
    BY <1>6 DEF BindSecond
  <2>3. /\ elem'[e1].e_who = x /\ elem'[e1].e_next = e2
        /\ elem'[e2].e_who = thing /\ elem'[e2].e_next = Null
    <3>1. e1 \in Addrs /\ e2 \in Addrs /\ DOMAIN elem = Addrs
      BY <1>1 DEF Free
    <3>2. elem'[e1] = Elem(x, e2) /\ elem'[e2] = Elem(thing, Null)
      BY <2>2, <3>1
    <3> QED BY <3>2 DEF Elem
  <2>4. Len(s) = 2 /\ s[1] = x /\ s[2] = thing /\ x # thing
    <3>1. 1 \in 1..Len(bound)
      BY <2>1
    <3> QED BY <1>2, <1>3, <2>1, <3>1 DEF Lacks
  <2>5. Linked(elem', {e1, e2}, e1, s)
    BY ZenonT(30), <2>2, <2>3, <2>4, LinkedTwo
  <2>6. live' = {e1, e2}
    BY <2>1, <2>2
  <2> QED BY <1>1, <1>4, <2>1, <2>2, <2>4, <2>5, <2>6 DEF LinkInv
<1>7. CASE BindMore(x)
  <2>1. /\ Len(bound) >= 2 /\ Linked(elem, live, b_list, bound) /\ thing' = List
    BY <1>7, HowMany DEF BindMore
  <2>2. PICK e \in Free : /\ elem' = [elem EXCEPT ![e] = Elem(x, b_list)]
                          /\ b_list' = e /\ live' = live \union {e}
    BY <1>7 DEF BindMore
  <2>3. /\ e \notin live /\ elem'[e].e_who = x /\ elem'[e].e_next = b_list
        /\ Agree(elem', elem, live)
    BY <1>1, <2>2 DEF Elem, Free, Agree
  <2>4. Linked(elem', live \union {e}, e, s)
    BY <1>1, <1>2, <2>1, <2>3, LinkedMore DEF s
  <2> QED BY <1>1, <1>3, <1>4, <2>1, <2>2, <2>4 DEF LinkInv
<1> QED BY <1>5, <1>6, <1>7 DEF Bind

LEMMA UnbindLinks ==
  ASSUME IInv, NEW x \in Things, Unbind(x)
  PROVE  LinkInv'
<1>0. bound' = Drop(bound, x) /\ bound \in Seq(Things) /\ Len(bound) \in Nat
  BY HowMany DEF Unbind
<1>1. CASE thing = x
  <2>1. Len(bound) = 1 /\ bound[1] = x /\ live = {}
    BY <1>1, HowMany
  <2>2. thing' = Null /\ live' = {}
    BY <1>1, <2>1 DEF Unbind
  <2>3. Len(bound') = 0
    <3>1. NoRepeat(bound) /\ 1 \in 1..Len(bound)
      BY <2>1 DEF IInv, LinkInv
    <3>2. Len(Drop(bound, bound[1])) = Len(bound) - 1
      BY <1>0, <3>1, DropFacts
    <3> QED BY <1>0, <2>1, <3>2
  <2> QED BY <2>2, <2>3 DEF LinkInv, NoRepeat
<1>2. CASE thing # x
  <2>1. PICK e \in live : elem[e].e_who = x /\ Without(e)
    BY <1>2 DEF Unbind
  <2> DEFINE el == TakenOut(e).elem
             f == TakenOut(e).first
             w == live \ {e}
  <2>2. /\ Len(bound) >= 2 /\ thing = List /\ NoRepeat(bound')
        /\ Len(bound') = Len(bound) - 1 /\ Linked(el, w, f, bound')
    BY <1>0, <2>1, LeftOver
  <2>3. /\ elem' = el
        /\ IF el[f].e_next # Null
           THEN b_list' = f /\ live' = w /\ UNCHANGED thing
           ELSE thing' = el[f].e_who /\ live' = live \ {e, f}
    BY <2>1 DEF Without
  <2> HIDE DEF el, f
  <2>4. /\ f \in w /\ el[f].e_who = bound'[1]
        /\ \A a \in w : \E p \in 1..Len(bound') : Sits(el, w, bound', a, p)
        /\ \A a, b \in w : el[a].e_who = el[b].e_who => a = b
    BY <2>2 DEF Linked
  <2>5. Sits(el, w, bound', f, 1)
    <3>1. PICK p \in 1..Len(bound') : Sits(el, w, bound', f, p)
      BY <2>4
    <3>2. 1 \in 1..Len(bound') /\ bound'[p] = bound'[1]
      BY <1>0, <2>2, <2>4, <3>1 DEF Sits
    <3>3. p = 1
      BY <2>2, <3>1, <3>2 DEF NoRepeat
    <3> QED BY <3>1, <3>3
  <2>6. CASE el[f].e_next # Null
    <3>1. Len(bound') # 1
      BY <2>5, <2>6 DEF Sits
    <3>2. /\ Len(bound') >= 2 /\ thing' = List
          /\ elem' = el /\ live' = w /\ b_list' = f
      BY <1>0, <2>2, <2>3, <2>6, <3>1
    <3> HIDE DEF w
    <3>3. Linked(elem', live', b_list', bound')
      BY <2>2, <3>2
    <3> QED BY <2>2, <3>2, <3>3 DEF LinkInv
  <2>7. CASE el[f].e_next = Null
    <3>1. Null \notin w
      BY BindAssumption DEF IInv, TypeOK
    <3>2. Len(bound') = 1
      BY <1>0, <2>2, <2>5, <2>7, <3>1 DEF Sits
    <3>3. \A a \in w : a = f
      BY <2>4, <3>2 DEF Sits
    <3>4. live' = {} /\ thing' = bound'[1]
      BY <2>3, <2>4, <2>7, <3>3
    <3>5. ~(Len(bound') = 0) /\ ~(Len(bound') >= 2) /\ NoRepeat(bound')
      <4>1. 1 # 0 /\ ~(1 >= 2)
        OBVIOUS
      <4> QED BY <2>2, <3>2, <4>1, Zenon
    <3> QED BY <3>4, <3>5 DEF LinkInv
  <2> QED BY <2>6, <2>7
<1> QED BY <1>1, <1>2
-------------------------------------------------------------------------------
(* The deliveries.                                                         *)

(* What follows a thing when another is put in front of the list.          *)
LEMMA RestInFront ==
  ASSUME NEW s \in Seq(Things), NEW x \in Things, NEW d, NEW p \in 1..Len(s),
         IsRest(d, s, p)
  PROVE  /\ p + 1 \in 1..Len(<<x>> \o s) /\ (<<x>> \o s)[p + 1] = s[p]
         /\ IsRest(d, <<x>> \o s, p + 1)
<1> DEFINE r == <<x>> \o s
<1>1. /\ Len(s) \in Nat /\ Len(r) = Len(s) + 1
      /\ \A j \in 1..Len(s) : r[j + 1] = s[j]
  BY SeqFacts, InFront
<1> HIDE DEF r
<1>2. p + 1 \in 1..Len(r) /\ r[p + 1] = s[p] /\ Len(d) = Len(r) - (p + 1)
  BY <1>1 DEF IsRest
<1>3. ASSUME NEW j \in 1..(Len(r) - (p + 1)) PROVE d[j] = r[(p + 1) + j]
  <2> DEFINE n == Len(s)
  <2>0. n \in Nat /\ p \in 1..n /\ j \in 1..(n - p)
    BY <1>1
  <2> HIDE DEF n
  <2>1. p + j \in 1..n /\ (p + j) + 1 = (p + 1) + j
    BY <2>0
  <2> USE DEF n
  <2>2. d[j] = s[p + j] /\ r[(p + j) + 1] = s[p + j]
    BY <1>1, <2>0, <2>1 DEF IsRest
  <2> QED BY <2>1, <2>2
<1> QED BY <1>2, <1>3 DEF IsRest, r

(* What follows a thing when another is taken out.                         *)
LEMMA RestDropped ==
  ASSUME NEW s \in Seq(Things), NoRepeat(s), NEW d \in Seq(Things),
         NEW p \in 1..Len(s), NEW q \in 1..Len(s), p # q, IsRest(d, s, q)
  PROVE  \E k \in 1..Len(Drop(s, s[p])) :
           /\ Drop(s, s[p])[k] = s[q]
           /\ IsRest(Drop(d, s[p]), Drop(s, s[p]), k)
<1> DEFINE r == Drop(s, s[p])
           n == Len(s)
<1>1. n \in Nat /\ Len(d) = n - q /\ \A j \in 1..(n - q) : d[j] = s[q + j]
  BY SeqFacts DEF IsRest
<1>2. /\ Len(r) = n - 1
      /\ \A j \in 1..(n - 1) : r[j] = IF j < p THEN s[j] ELSE s[j + 1]
  BY DropFacts
<1> HIDE DEF r
<1>3. CASE p < q
  <2>1. q - 1 \in 1..(n - 1) /\ ~(q - 1 < p) /\ (q - 1) + 1 = q
    BY <1>1, <1>3
  <2>2. \A j \in 1..Len(d) : d[j] # s[p]
    <3> TAKE j \in 1..Len(d)
    <3>1. d[j] = s[q + j] /\ q + j \in 1..n /\ q + j # p
      BY <1>1, <1>3
    <3> QED BY <3>1 DEF NoRepeat
  <2>3. Drop(d, s[p]) = d
    BY <2>2, DropNothing
  <2>4. r[q - 1] = s[q]
    BY <1>2, <2>1
  <2>5. ASSUME NEW j \in 1..(Len(r) - (q - 1)) PROVE d[j] = r[(q - 1) + j]
    <3>1. /\ j \in 1..(n - q) /\ (q - 1) + j \in 1..(n - 1)
          /\ ~((q - 1) + j < p) /\ ((q - 1) + j) + 1 = q + j
      BY <1>1, <1>2, <1>3
    <3>2. d[j] = s[q + j]
      BY <1>1, <3>1
    <3>3. r[(q - 1) + j] = s[((q - 1) + j) + 1]
      BY <1>2, <3>1
    <3> QED BY <3>1, <3>2, <3>3
  <2>6. Len(d) = Len(r) - (q - 1)
    BY <1>1, <1>2
  <2>7. IsRest(d, r, q - 1) /\ q - 1 \in 1..Len(r)
    BY <1>2, <2>1, <2>5, <2>6 DEF IsRest
  <2> QED BY <2>3, <2>4, <2>7 DEF r
<1>4. CASE q < p
  <2>1. /\ q \in 1..(n - 1) /\ p - q \in 1..Len(d) /\ d[p - q] = s[p]
        /\ q + (p - q) = p
    BY <1>1, <1>4
  <2>2. NoRepeat(d)
    <3> SUFFICES ASSUME NEW i \in 1..Len(d), NEW j \in 1..Len(d), d[i] = d[j]
                 PROVE  i = j
      BY DEF NoRepeat
    <3>1. /\ q + i \in 1..n /\ q + j \in 1..n /\ s[q + i] = s[q + j]
          /\ q + i = q + j => i = j
      BY <1>1
    <3> QED BY <3>1 DEF NoRepeat
  <2> DEFINE c == Drop(d, s[p])
  <2>3. /\ Len(c) = Len(d) - 1
        /\ \A j \in 1..(Len(d) - 1) : c[j] = IF j < p - q THEN d[j] ELSE d[j + 1]
    <3> DEFINE m == p - q
    <3> HIDE DEF m
    <3>1. m \in 1..Len(d) /\ d[m] = s[p]
      BY <2>1 DEF m
    <3>2. /\ Len(Drop(d, d[m])) = Len(d) - 1
          /\ \A j \in 1..(Len(d) - 1) :
               Drop(d, d[m])[j] = IF j < m THEN d[j] ELSE d[j + 1]
      BY <2>2, <3>1, DropFacts
    <3> QED BY <3>1, <3>2 DEF m
  <2> HIDE DEF c
  <2>4. r[q] = s[q] /\ q \in 1..Len(r)
    BY <1>2, <1>4, <2>1
  <2>5. ASSUME NEW j \in 1..(Len(r) - q) PROVE c[j] = r[q + j]
    <3>0. /\ j \in 1..(Len(d) - 1) /\ q + j \in 1..(n - 1)
          /\ q + j < p <=> j < p - q
      BY <1>1, <1>2, <1>4
    <3>1. CASE j < p - q
      <4>1. j \in 1..(n - q) /\ c[j] = d[j] /\ r[q + j] = s[q + j]
        BY <1>1, <1>2, <2>3, <3>0, <3>1
      <4> QED BY <1>1, <4>1
    <3>2. CASE ~(j < p - q)
      <4>1. c[j] = d[j + 1] /\ r[q + j] = s[(q + j) + 1]
        BY <1>2, <2>3, <3>0, <3>2
      <4>2. j + 1 \in 1..(n - q) /\ q + (j + 1) = (q + j) + 1
        BY <1>1, <3>0
      <4>3. d[j + 1] = s[q + (j + 1)]
        BY <1>1, <4>2
      <4> QED BY <4>1, <4>2, <4>3
    <3> QED BY <3>1, <3>2
  <2>6. Len(c) = Len(r) - q
    BY <1>1, <1>2, <2>3
  <2>7. IsRest(c, r, q)
    BY <2>5, <2>6 DEF IsRest
  <2> QED BY <2>4, <2>7 DEF c, r
<1> QED BY <1>3, <1>4

LEMMA BindDue ==
  ASSUME IInv, NEW x \in Things, Bind(x)
  PROVE  DueInv'
<1> SUFFICES ASSUME NEW i \in 1..Len(stack),
                    stack[i].at # Null /\ ~stack[i].freed
             PROVE  Stands(stack[i])'
  BY DEF Bind, DueInv
<1> DEFINE d == stack[i]
<1>1. d.at \in live /\ \E p \in 1..Len(bound) : /\ elem[d.at].e_who = bound[p]
                                                /\ IsRest(d.due, bound, p)
  BY DEF IInv, DueInv, Stands
<1>2. d' = d /\ bound' = <<x>> \o bound /\ bound \in Seq(Things)
  BY HowMany DEF Bind
<1> HIDE DEF d
<1>3. PICK p \in 1..Len(bound) : /\ elem[d.at].e_who = bound[p]
                                 /\ IsRest(d.due, bound, p)
  BY <1>1
<1>4. thing = List
  BY <1>1, HowMany
<1>5. thing # Null /\ thing \notin Things
  BY <1>4, BindAssumption
<1>6. PICK e \in Free : /\ elem' = [elem EXCEPT ![e] = Elem(x, b_list)]
                        /\ live' = live \union {e}
  BY <1>5 DEF Bind, BindFirst, BindSecond, BindMore
<1>7. d.at \in live' /\ elem'[d.at] = elem[d.at]
  BY <1>1, <1>6 DEF Free, IInv, TypeOK
<1>8. /\ p + 1 \in 1..Len(bound') /\ bound'[p + 1] = bound[p]
      /\ IsRest(d.due, bound', p + 1)
  BY <1>2, <1>3, RestInFront
<1>9. Stands(d)'
  BY <1>2, <1>3, <1>7, <1>8 DEF Stands
<1> QED BY <1>9 DEF d

LEMMA UnbindDue ==
  ASSUME IInv, NEW x \in Things, Unbind(x)
  PROVE  DueInv'
<1>1. /\ bound \in Seq(Things) /\ NoRepeat(bound) /\ bound' = Drop(bound, x)
      /\ stack \in Seq(DeliveryType)
      /\ stack' = [k \in 1..Len(stack) |-> Unbound(stack[k], x)]
      /\ Len(stack) \in Nat
  BY HowMany, SeqFacts DEF Unbind, IInv, LinkInv, TypeOK, DeliveryType
<1>2. Len(stack') = Len(stack)
  BY <1>1
<1> SUFFICES ASSUME NEW i \in 1..Len(stack),
                    stack'[i].at # Null /\ ~stack'[i].freed
             PROVE  Stands(stack[i])'
  BY <1>2 DEF DueInv
<1> DEFINE d == stack[i]
<1>3. d \in DeliveryType
  BY <1>1, SeqFacts
<1>4. /\ stack'[i].at = d.at /\ stack'[i].due = Drop(d.due, x)
      /\ stack'[i].freed = (d.freed \/ d.at \in live \ live')
  BY <1>1, <1>3 DEF Unbound, DeliveryType
<1>5. d.at # Null /\ ~d.freed /\ ~(d.at \in live \ live')
  BY <1>4
<1>6. Stands(d)
  BY <1>5 DEF IInv, DueInv
<1>7. PICK q \in 1..Len(bound) : /\ elem[d.at].e_who = bound[q]
                                 /\ IsRest(d.due, bound, q)
  BY <1>6 DEF Stands
<1>8. d.at \in live /\ d.at \in live' /\ thing = List
  BY <1>5, <1>6, HowMany DEF Stands
<1>9. PICK e \in live : elem[e].e_who = x /\ Without(e)
  <2>1. thing # x
    BY <1>8, BindAssumption
  <2> QED BY <2>1 DEF Unbind
<1>10. PICK p \in 1..Len(bound) : x = bound[p]
  BY <1>9, LeftOver
<1>11. d.at # e /\ elem'[d.at].e_who = elem[d.at].e_who
  <2>1. e \notin live' /\ elem' = TakenOut(e).elem
    BY <1>9 DEF Without
  <2>2. d.at \in Addrs /\ d.at # e
    BY <1>8, <2>1 DEF IInv, TypeOK
  <2> QED BY <2>1, <2>2 DEF TakenOut, Elem
<1>12. p # q
  <2>1. \A a, b \in live : elem[a].e_who = elem[b].e_who => a = b
    BY <1>8, HowMany DEF Linked
  <2>2. elem[d.at].e_who # elem[e].e_who
    BY <1>8, <1>11, <2>1
  <2> QED BY <1>7, <1>9, <1>10, <2>2
<1>13. PICK k \in 1..Len(bound') : /\ bound'[k] = bound[q]
                                   /\ IsRest(Drop(d.due, x), bound', k)
  <2>1. d.due \in Seq(Things)
    BY <1>3 DEF DeliveryType
  <2> DEFINE g == d.due
  <2>2. g \in Seq(Things) /\ IsRest(g, bound, q)
    BY <1>7, <2>1
  <2> HIDE DEF d, g
  <2>3. bound \in Seq(Things) /\ NoRepeat(bound)
    BY <1>1
  <2>4. \E k \in 1..Len(Drop(bound, bound[p])) :
          /\ Drop(bound, bound[p])[k] = bound[q]
          /\ IsRest(Drop(g, bound[p]), Drop(bound, bound[p]), k)
    BY <1>12, <2>2, <2>3, RestDropped
  <2> QED BY <1>1, <1>10, <2>4 DEF g
<1>14. d' = stack'[i]
  OBVIOUS
<1> HIDE DEF d
<1>15. Stands(d)'
  BY <1>4, <1>7, <1>8, <1>11, <1>13, <1>14 DEF Stands
<1> QED BY <1>15 DEF d

LEMMA SendDue ==
  ASSUME IInv, Send
  PROVE  DueInv'
<1> DEFINE c == IF thing = List THEN Delivery(b_list, Tail(bound))
                                ELSE Delivery(Null, <<>>)
<1>1. /\ stack' = Append(stack, c) /\ UNCHANGED <<thing, b_list, elem, live, bound>>
      /\ stack \in Seq(DeliveryType)
  BY DEF Send, IInv, TypeOK, DeliveryType
<1>2. c.at # Null => Stands(c)
  <2> HAVE c.at # Null
  <2>1. thing = List /\ c = Delivery(b_list, Tail(bound))
    BY DEF Delivery
  <2>2. c.at = b_list /\ c.due = Tail(bound)
    BY <2>1 DEF Delivery
  <2> HIDE DEF c
  <2>3. /\ bound \in Seq(Things) /\ Len(bound) \in Nat /\ Len(bound) >= 2
        /\ b_list \in live /\ elem[b_list].e_who = bound[1]
    BY <2>1, HowMany DEF Linked
  <2>4. bound # <<>> /\ 1 \in 1..Len(bound)
    BY <2>3
  <2>5. IsRest(Tail(bound), bound, 1)
    <3>1. /\ Len(Tail(bound)) = Len(bound) - 1
          /\ \A j \in 1..(Len(bound) - 1) : Tail(bound)[j] = bound[j + 1]
      BY <2>3, <2>4, TailInSeq
    <3>2. \A j \in 1..(Len(bound) - 1) : j + 1 = 1 + j
      BY <2>3
    <3> QED BY <3>1, <3>2 DEF IsRest
  <2> QED BY <2>2, <2>3, <2>4, <2>5 DEF Stands
<1> HIDE DEF c
<1>3. /\ Len(stack) \in Nat /\ Len(stack') = Len(stack) + 1
      /\ \A i \in 1..Len(stack) : stack'[i] = stack[i]
      /\ stack'[Len(stack) + 1] = c
  BY <1>1, SeqFacts
<1> SUFFICES ASSUME NEW i \in 1..Len(stack'),
                    stack'[i].at # Null /\ ~stack'[i].freed
             PROVE  Stands(stack'[i])
  BY <1>1 DEF DueInv, Stands
<1>4. CASE i = Len(stack) + 1
  BY <1>2, <1>3, <1>4
<1>5. CASE i # Len(stack) + 1
  <2>1. i \in 1..Len(stack) /\ stack'[i] = stack[i]
    BY <1>3, <1>5
  <2> QED BY <2>1 DEF IInv, DueInv
<1> QED BY <1>4, <1>5

LEMMA ReturnDue ==
  ASSUME IInv, Return
  PROVE  DueInv'
<1>1. /\ stack # <<>> /\ UNCHANGED <<thing, b_list, elem, live, bound>>
      /\ IF Top.at = Null THEN Step(Null) /\ UNCHANGED crashed ELSE ReadNext
      /\ stack \in Seq(DeliveryType) /\ Len(stack) \in Nat \ {0}
  BY DEF Return, IInv, TypeOK, DeliveryType
<1> SUFFICES ASSUME NEW i \in 1..Len(stack'),
                    stack'[i].at # Null /\ ~stack'[i].freed
             PROVE  Stands(stack'[i])
  BY <1>1 DEF DueInv, Stands
<1>2. \A k \in 1..Len(stack) :
        stack[k].at # Null /\ ~stack[k].freed => Stands(stack[k])
  BY DEF IInv, DueInv
<1>3. CASE Step(Null)
  <2>1. /\ Len(stack') = Len(stack) - 1
        /\ \A k \in 1..Len(stack') : stack'[k] = stack[k]
    BY <1>1, <1>3, StepIs
  <2>2. i \in 1..Len(stack) /\ stack'[i] = stack[i]
    BY <1>1, <2>1
  <2> QED BY <1>2, <2>2
<1>4. CASE UNCHANGED stack
  BY <1>2, <1>4
<1>5. ASSUME Top.at # Null, Top.at \in live, Step(elem[Top.at].e_next),
             elem[Top.at].e_next # Null
      PROVE  Stands(stack'[i])
  <2> DEFINE next == elem[Top.at].e_next
             n == Len(stack)
  <2>0. next # Null /\ Step(next)
    BY <1>5
  <2> HIDE DEF next
  <2>1. /\ Len(stack') = n /\ \A k \in 1..(n - 1) : stack'[k] = stack[k]
        /\ stack'[n].at = next /\ stack'[n].due = DueAfter(Top)
        /\ stack'[n].freed = Top.freed
    BY <1>1, <2>0, StepIs
  <2>2. CASE i # n
    <3>1. i \in 1..(n - 1) /\ i \in 1..n
      BY <1>1, <2>1, <2>2
    <3> QED BY <1>2, <2>1, <3>1
  <2>3. CASE i = n
    <3>1. n \in 1..Len(stack) /\ ~Top.freed
      BY <1>1, <2>1, <2>3
    <3>2. Stands(Top)
      BY <1>2, <1>5, <3>1 DEF Top
    <3>3. PICK p \in 1..Len(bound) : /\ elem[Top.at].e_who = bound[p]
                                     /\ IsRest(Top.due, bound, p)
      BY <3>2 DEF Stands
    <3>4. /\ Len(bound) \in Nat /\ Linked(elem, live, b_list, bound)
          /\ NoRepeat(bound) /\ Top.due \in Seq(Things)
      <4>1. Top \in DeliveryType
        BY <1>1, <3>1, SeqFacts DEF Top
      <4> QED BY <1>5, <4>1, HowMany DEF IInv, LinkInv, DeliveryType
    <3>5. Sits(elem, live, bound, Top.at, p)
      BY <1>5, <3>3, <3>4, SitsThere
    <3>6. /\ p < Len(bound) /\ next \in live /\ elem[next].e_who = bound[p + 1]
          /\ p + 1 \in 1..Len(bound)
      BY <2>0, <3>4, <3>5 DEF Sits, next
    <3>7. IsRest(DueAfter(Top), bound, p + 1)
      <4>1. Len(Top.due) = Len(bound) - p /\ Top.due # <<>>
        BY <3>3, <3>4, <3>6 DEF IsRest
      <4>2. DueAfter(Top) = Tail(Top.due)
        BY <4>1 DEF DueAfter
      <4> DEFINE t == Tail(Top.due)
      <4>3. /\ Len(t) = Len(Top.due) - 1
            /\ \A j \in 1..(Len(Top.due) - 1) : t[j] = Top.due[j + 1]
        BY <3>4, <4>1, TailInSeq
      <4> HIDE DEF t
      <4>4. Len(t) = Len(bound) - (p + 1)
        BY <3>4, <4>1, <4>3
      <4>5. ASSUME NEW j \in 1..(Len(bound) - (p + 1))
            PROVE  t[j] = bound[(p + 1) + j]
        <5>1. /\ j \in 1..(Len(Top.due) - 1) /\ j + 1 \in 1..(Len(bound) - p)
              /\ p + (j + 1) = (p + 1) + j
          BY <3>4, <4>1
        <5>2. Top.due[j + 1] = bound[p + (j + 1)]
          BY <3>3, <5>1 DEF IsRest
        <5> QED BY <4>3, <5>1, <5>2
      <4> QED BY <4>2, <4>4, <4>5 DEF IsRest, t
    <3> QED BY <2>1, <2>3, <3>6, <3>7 DEF Stands
  <2> QED BY <2>2, <2>3
<1> QED BY <1>1, <1>3, <1>4, <1>5, Zenon DEF ReadNext
-------------------------------------------------------------------------------

LEMMA InitIInv == Init => IInv
<1> HAVE Init
<1>1. Len(bound) = 0 /\ Len(stack) = 0 /\ thing = Null /\ live = {}
  BY DEF Init
<1>2. NoRepeat(bound) /\ DueInv
  BY <1>1 DEF NoRepeat, DueInv
<1>3. LinkInv
  BY <1>1, <1>2 DEF LinkInv
<1> QED BY <1>2, <1>3, InitType DEF IInv

LEMMA StepIInv == IInv /\ [Next]_vars => IInv'
<1> SUFFICES ASSUME IInv, [Next]_vars PROVE IInv'
  OBVIOUS
<1>0. TypeOK'
  BY TypeStep
<1>1. ASSUME NEW x \in Things, Bind(x) PROVE LinkInv' /\ DueInv'
  BY <1>0, <1>1, BindLinks, BindDue
<1>2. ASSUME NEW x \in Things, Unbind(x) PROVE LinkInv' /\ DueInv'
  BY <1>2, UnbindLinks, UnbindDue
<1>3. ASSUME UNCHANGED <<thing, b_list, elem, live, bound>> PROVE LinkInv'
  BY <1>3 DEF IInv, LinkInv
<1>4. ASSUME Send PROVE LinkInv' /\ DueInv'
  BY <1>3, <1>4, SendDue DEF Send
<1>5. ASSUME Return PROVE LinkInv' /\ DueInv'
  BY <1>3, <1>5, ReturnDue DEF Return
<1>6. ASSUME UNCHANGED vars PROVE LinkInv' /\ DueInv'
  BY <1>3, <1>6 DEF vars, IInv, DueInv, Stands
<1>7. LinkInv' /\ DueInv'
  BY <1>1, <1>2, <1>4, <1>5, <1>6 DEF Next
<1> QED BY <1>0, <1>7 DEF IInv

LEMMA AlwaysIInv == Spec => []IInv
BY InitIInv, StepIInv, PTL DEF Spec

(* Whatever is bound and unbound, at any time and to any number, and with  *)
(* elements that are allocated again at once: what m_pd.c keeps has the    *)
(* types of its fields.                                                    *)
THEOREM TypeCorrect == Spec => []TypeOK
<1>1. IInv => TypeOK
  BY DEF IInv
<1> QED BY <1>1, AlwaysIInv, PTL

(* The symbol has exactly what was bound and not unbound, the latest       *)
(* first, in a chain of elements of which none is lost or shared.          *)
THEOREM SymbolHasTheBound == Spec => []ListIsBound
<1>1. IInv => ListIsBound
  <2> SUFFICES ASSUME IInv PROVE ListIsBound
    OBVIOUS
  <2>1. /\ bound \in Seq(Things) /\ Len(bound) \in Nat /\ LinkInv
        /\ NoRepeat(bound) /\ DOMAIN bound = 1..Len(bound)
    BY HowMany, SeqFacts DEF IInv, LinkInv
  <2>2. Len(bound) < 2 => live = {}
    <3>1. \A n \in Nat : n < 2 => n = 0 \/ n = 1
      OBVIOUS
    <3> QED BY <2>1, <3>1 DEF LinkInv
  <2>3. Len(bound) >= 2 => thing = List /\ Chain(b_list, bound)
    <3>1. Len(bound) >= 2 => Len(bound) >= 1
      BY <2>1
    <3> QED BY <2>1, <3>1, ChainWhole DEF LinkInv
  <2>4. live # {} => Linked(elem, live, b_list, bound)
    BY HowMany
  <2>5. \A a \in live : IsBound(elem[a].e_who)
    <3> SUFFICES ASSUME NEW a \in live PROVE IsBound(elem[a].e_who)
      OBVIOUS
    <3>1. PICK p \in 1..Len(bound) : Sits(elem, live, bound, a, p)
      BY <2>4 DEF Linked
    <3>2. elem[a].e_who = bound[p]
      BY <3>1 DEF Sits
    <3> QED BY <2>1, <3>2 DEF IsBound
  <2>6. \A a, b \in live : elem[a].e_who = elem[b].e_who => a = b
    BY <2>4 DEF Linked
  <2>7. (Len(bound) = 0 => thing = Null) /\ (Len(bound) = 1 => thing = bound[1])
    BY <2>1 DEF LinkInv
  <2> QED BY <2>2, <2>3, <2>5, <2>6, <2>7 DEF ListIsBound
<1> QED BY <1>1, AlwaysIInv, PTL

(* A delivery whose element was not freed under it has still to call       *)
(* exactly those who were bound when it began and are bound still, however *)
(* deep the deliveries are nested and whatever the methods bind and unbind.*)
THEOREM CallsWhoIsLeft == Spec => []StillToCome
<1>1. IInv => StillToCome
  <2> SUFFICES ASSUME IInv, NEW i \in DOMAIN stack,
                      stack[i].at # Null /\ ~stack[i].freed
               PROVE  /\ stack[i].at \in live
                      /\ Chain(elem[stack[i].at].e_next, stack[i].due)
    BY DEF StillToCome
  <2>1. i \in 1..Len(stack) /\ stack[i] \in DeliveryType
    BY SeqFacts DEF IInv, TypeOK, DeliveryType
  <2> DEFINE d == stack[i]
  <2>2. Stands(d) /\ d.due \in Seq(Things)
    BY <2>1 DEF IInv, DueInv, DeliveryType
  <2> HIDE DEF d
  <2>3. PICK p \in 1..Len(bound) : /\ elem[d.at].e_who = bound[p]
                                   /\ IsRest(d.due, bound, p)
    BY <2>2 DEF Stands
  <2>4. /\ d.at \in live /\ bound \in Seq(Things) /\ NoRepeat(bound)
        /\ Linked(elem, live, b_list, bound)
    BY <2>2, HowMany DEF Stands, IInv, LinkInv
  <2>5. Chain(elem[d.at].e_next, d.due)
    BY <2>2, <2>3, <2>4, ChainRest
  <2> QED BY <2>4, <2>5 DEF d
<1> QED BY <1>1, AlwaysIInv, PTL
===============================================================================
