------------------------------ MODULE UndoProofs ------------------------------
(* Proofs about the undo queue, for every set of kinds of edits, every     *)
(* depth of sequences and every history of edits, undos, redos, typing and *)
(* saving.                                                                 *)
EXTENDS Undo, FiniteSetTheorems, SequenceTheorems, TLAPS

(* The edits that were made are numbered; n is the last number given.      *)
Actions == [type : {"init", "start", "end", "edit"},
            edit : [kind : Kinds \union {""}, n : Nat]]
Told(a, n) ==
  IF a.type = "edit" THEN a.edit.kind \in Kinds /\ a.edit.n \in 1..n
                     ELSE a.edit = NoEdit
InNumberOrder(q) ==
  \A i, j \in 1..Len(q) :
    i < j /\ q[i].type = "edit" /\ q[j].type = "edit" => q[i].edit.n < q[j].edit.n

Shaped(q, n) ==
  /\ q \in Seq(Actions) /\ Len(q) >= 1
  /\ q[1].type = "init"
  /\ \A k \in 2..Len(q) : q[k].type # "init"
  /\ \A k \in 1..Len(q) : Told(q[k], n)
  /\ InNumberOrder(q)
Placed(q, l, c) == l \in 1..Len(q) /\ c \in {Freed, Nowhere} \union 1..Len(q)

(* Sequences nest, and d of them are open at l and at the end.             *)
Nests(q, l, d) ==
  /\ \A k \in 1..Len(q) : Nested(q, 1, k) >= 0
  /\ Nested(q, 1, l) = d /\ Nested(q, 1, Len(q)) = d

(* What is kept up: the patch is the history, and so is what was saved.    *)
Kept(h, p, sv, d) ==
  /\ Nests(h.queue, h.last, d)
  /\ p = InTurn(h.queue, 1, h.last)
  /\ ~h.aliased /\ h.clean \in 1..Len(h.queue) => sv = InTurn(h.queue, 1, h.clean)

TypeInv ==
  /\ Shaped(queue, made) /\ Placed(queue, last, clean)
  /\ depth \in 0..MaxDepth /\ made \in 0..MaxEdits
KeptInv == ~strayed => Kept(Here(0), patch, saved, depth) /\ ~bug
IInv == TypeInv /\ KeptInv /\ CleanIsSaved

-------------------------------------------------------------------------------
(* The order the edits are applied in.                                     *)
LEMMA InTurnMember ==
  ASSUME NEW q, NEW i, NEW j, NEW x
  PROVE  x \in InTurn(q, i, j) <=>
           \E k \in EditPlaces(q, i, j) : \E m \in EditPlaces(q, k, j) :
             x = <<q[k].edit, q[m].edit>>
BY DEF InTurn

LEMMA AppliedInTurn ==
  ASSUME NEW q, NEW i \in Int, NEW j \in Int
  PROVE  Applied(InTurn(q, i, j)) = EditsAt(q, i, j)
<1>1. ASSUME NEW e \in Applied(InTurn(q, i, j))
      PROVE  e \in EditsAt(q, i, j)
  <2>1. PICK x \in InTurn(q, i, j) : e = x[1]
    BY <1>1 DEF Applied
  <2>2a. PICK k \in EditPlaces(q, i, j) : \E m \in EditPlaces(q, k, j) :
           x = <<q[k].edit, q[m].edit>>
    BY <2>1, InTurnMember
  <2>2. PICK m \in EditPlaces(q, k, j) : x = <<q[k].edit, q[m].edit>>
    BY <2>2a
  <2>3. e = q[k].edit  BY <2>1, <2>2
  <2> QED BY <2>2, <2>3 DEF EditsAt
<1>2. ASSUME NEW e \in EditsAt(q, i, j)
      PROVE  e \in Applied(InTurn(q, i, j))
  <2>1. PICK k \in EditPlaces(q, i, j) : e = q[k].edit
    BY <1>2 DEF EditsAt
  <2>2. k \in EditPlaces(q, k, j)
    BY <2>1 DEF EditPlaces
  <2>3. <<e, e>> \in InTurn(q, i, j)
    BY <2>1, <2>2, InTurnMember
  <2>4. <<e, e>>[1] = e
    OBVIOUS
  <2> QED BY <2>3, <2>4 DEF Applied
<1> QED BY <1>1, <1>2

(* What comes after i is applied on top of what comes up to i.             *)
LEMMA InTurnSplit ==
  ASSUME NEW q, NEW i \in Nat, NEW j \in Nat, i <= j
  PROVE  InTurn(q, 1, j) = AndThen(InTurn(q, 1, i), InTurn(q, i + 1, j))
<1> DEFINE A == InTurn(q, 1, i)
           B == InTurn(q, i + 1, j)
<1>1. Applied(A) = EditsAt(q, 1, i) /\ Applied(B) = EditsAt(q, i + 1, j)
  BY AppliedInTurn
<1>2. ASSUME NEW x \in InTurn(q, 1, j)
      PROVE  x \in AndThen(A, B)
  <2>1a. PICK k \in EditPlaces(q, 1, j) : \E m \in EditPlaces(q, k, j) :
           x = <<q[k].edit, q[m].edit>>
    BY <1>2, InTurnMember
  <2>1. PICK m \in EditPlaces(q, k, j) : x = <<q[k].edit, q[m].edit>>
    BY <2>1a
  <2>2. CASE m <= i
    <3>1. k \in EditPlaces(q, 1, i) /\ m \in EditPlaces(q, k, i)
      BY <2>1, <2>2 DEF EditPlaces
    <3>2. x \in A  BY <2>1, <3>1, InTurnMember
    <3> QED BY <3>2 DEF AndThen
  <2>3. CASE k > i
    <3>1. k \in EditPlaces(q, i + 1, j)
      BY <2>1, <2>3 DEF EditPlaces
    <3>2. x \in B  BY <2>1, <3>1, InTurnMember
    <3> QED BY <3>2 DEF AndThen
  <2>4. CASE k <= i /\ m > i
    <3>1. k \in EditPlaces(q, 1, i) /\ m \in EditPlaces(q, i + 1, j)
      BY <2>1, <2>4 DEF EditPlaces
    <3>2. q[k].edit \in Applied(A) /\ q[m].edit \in Applied(B)
      BY <1>1, <3>1 DEF EditsAt
    <3> HIDE DEF A, B
    <3> QED BY <2>1, <3>2 DEF AndThen
  <2>5. k \in Int /\ m \in Int
    BY <2>1 DEF EditPlaces
  <2> QED BY <2>2, <2>3, <2>4, <2>5
<1>3. ASSUME NEW x \in AndThen(A, B)
      PROVE  x \in InTurn(q, 1, j)
  <2>1. CASE x \in A
    <3>1a. PICK k \in EditPlaces(q, 1, i) : \E m \in EditPlaces(q, k, i) :
             x = <<q[k].edit, q[m].edit>>
      BY <2>1, InTurnMember
    <3>1. PICK m \in EditPlaces(q, k, i) : x = <<q[k].edit, q[m].edit>>
      BY <3>1a
    <3>2. k \in EditPlaces(q, 1, j) /\ m \in EditPlaces(q, k, j)
      BY <3>1 DEF EditPlaces
    <3> QED BY <3>1, <3>2, InTurnMember
  <2>2. CASE x \in B
    <3>1a. PICK k \in EditPlaces(q, i + 1, j) : \E m \in EditPlaces(q, k, j) :
             x = <<q[k].edit, q[m].edit>>
      BY <2>2, InTurnMember
    <3>1. PICK m \in EditPlaces(q, k, j) : x = <<q[k].edit, q[m].edit>>
      BY <3>1a
    <3>2. k \in EditPlaces(q, 1, j)
      BY <3>1 DEF EditPlaces
    <3> QED BY <3>1, <3>2, InTurnMember
  <2>3. CASE x \in Applied(A) \X Applied(B)
    <3>1. PICK e \in EditsAt(q, 1, i), f \in EditsAt(q, i + 1, j) : x = <<e, f>>
      BY <1>1, <2>3
    <3>2. PICK k \in EditPlaces(q, 1, i) : e = q[k].edit
      BY <3>1 DEF EditsAt
    <3>3. PICK m \in EditPlaces(q, i + 1, j) : f = q[m].edit
      BY <3>1 DEF EditsAt
    <3>4. k \in EditPlaces(q, 1, j) /\ m \in EditPlaces(q, k, j)
      BY <3>2, <3>3 DEF EditPlaces
    <3> QED BY <3>1, <3>2, <3>3, <3>4, InTurnMember
  <2> HIDE DEF A, B
  <2> QED BY <1>3, <2>1, <2>2, <2>3 DEF AndThen
<1> QED BY <1>2, <1>3

(* The order is told by the actions alone, wherever they are.              *)
Alike(q, r, i, m, j) == \A k \in 1..j : q[i + k] = r[m + k]

LEMMA InTurnAlikeIn ==
  ASSUME NEW q, NEW r, NEW i \in Nat, NEW m \in Nat, NEW j \in Nat,
         Alike(q, r, i, m, j)
  PROVE  InTurn(q, i + 1, i + j) \subseteq InTurn(r, m + 1, m + j)
<1>1. SUFFICES ASSUME NEW x \in InTurn(q, i + 1, i + j)
               PROVE  x \in InTurn(r, m + 1, m + j)
  OBVIOUS
<1>2a. PICK k \in EditPlaces(q, i + 1, i + j) : \E n \in EditPlaces(q, k, i + j) :
         x = <<q[k].edit, q[n].edit>>
  BY <1>1, InTurnMember
<1>2. PICK n \in EditPlaces(q, k, i + j) : x = <<q[k].edit, q[n].edit>>
  BY <1>2a
<1> DEFINE kk == k - i
           nn == n - i
<1>3. kk \in 1..j /\ nn \in 1..j /\ kk <= nn /\ i + kk = k /\ i + nn = n
  BY <1>2 DEF EditPlaces
<1>4. q[k].type = "edit" /\ q[n].type = "edit"
  BY <1>2 DEF EditPlaces
<1> HIDE DEF kk, nn
<1>5. q[k] = r[m + kk] /\ q[n] = r[m + nn]
  BY <1>3 DEF Alike
<1>6. m + kk \in EditPlaces(r, m + 1, m + j) /\ m + nn \in EditPlaces(r, m + kk, m + j)
  BY <1>3, <1>4, <1>5 DEF EditPlaces
<1> QED BY <1>2, <1>5, <1>6, InTurnMember

LEMMA InTurnAlike ==
  ASSUME NEW q, NEW r, NEW i \in Nat, NEW m \in Nat, NEW j \in Nat,
         Alike(q, r, i, m, j)
  PROVE  InTurn(q, i + 1, i + j) = InTurn(r, m + 1, m + j)
<1>1. Alike(r, q, m, i, j)  BY DEF Alike
<1>2. InTurn(q, i + 1, i + j) \subseteq InTurn(r, m + 1, m + j)
  BY InTurnAlikeIn
<1>3. InTurn(r, m + 1, m + j) \subseteq InTurn(q, i + 1, i + j)
  BY <1>1, InTurnAlikeIn
<1> QED BY <1>2, <1>3

(* The order of one action.                                                *)
LEMMA InTurnOfOne ==
  ASSUME NEW q, NEW i \in Nat
  PROVE  InTurn(q, i, i) =
           IF q[i].type = "edit" THEN {<<q[i].edit, q[i].edit>>} ELSE {}
<1>1. EditPlaces(q, i, i) = IF q[i].type = "edit" THEN {i} ELSE {}
  BY DEF EditPlaces
<1>2. CASE q[i].type = "edit"
  <2>1. ASSUME NEW x
        PROVE  x \in InTurn(q, i, i) <=> x = <<q[i].edit, q[i].edit>>
    BY <1>1, <1>2, InTurnMember
  <2> QED BY <1>2, <2>1
<1>3. CASE q[i].type # "edit"
  <2>1. ASSUME NEW x
        PROVE  x \notin InTurn(q, i, i)
    BY <1>1, <1>3, InTurnMember
  <2> QED BY <1>3, <2>1
<1> QED BY <1>2, <1>3

LEMMA AndThenNothing == ASSUME NEW p PROVE AndThen(p, {}) = p
<1>1. Applied({}) = {}  BY DEF Applied
<1>2. Applied(p) \X {} = {}  OBVIOUS
<1> QED BY <1>1, <1>2 DEF AndThen

(* To take the last edits back leaves the order of those before them.      *)
Apart(q, j) ==
  \A k, m \in 1..j :
    q[k].type = "edit" /\ q[m].type = "edit" /\ q[k].edit = q[m].edit => k = m

LEMMA WithoutTail ==
  ASSUME NEW q, NEW j \in Nat, NEW i \in 1..(j + 1), Apart(q, j)
  PROVE  Without(InTurn(q, 1, j), EditsAt(q, i, j)) = InTurn(q, 1, i - 1)
<1>1. ASSUME NEW x \in Without(InTurn(q, 1, j), EditsAt(q, i, j))
      PROVE  x \in InTurn(q, 1, i - 1)
  <2>1. x \in InTurn(q, 1, j) /\ x[1] \notin EditsAt(q, i, j)
                              /\ x[2] \notin EditsAt(q, i, j)
    BY <1>1 DEF Without
  <2>2a. PICK k \in EditPlaces(q, 1, j) : \E m \in EditPlaces(q, k, j) :
           x = <<q[k].edit, q[m].edit>>
    BY <2>1, InTurnMember
  <2>2. PICK m \in EditPlaces(q, k, j) : x = <<q[k].edit, q[m].edit>>
    BY <2>2a
  <2>3. x[1] = q[k].edit /\ x[2] = q[m].edit
    BY <2>2
  <2>4. k \notin EditPlaces(q, i, j) /\ m \notin EditPlaces(q, i, j)
    BY <2>1, <2>3 DEF EditsAt
  <2>5. k \in EditPlaces(q, 1, i - 1) /\ m \in EditPlaces(q, k, i - 1)
    BY <2>2, <2>4 DEF EditPlaces
  <2> QED BY <2>2, <2>5, InTurnMember
<1>2. ASSUME NEW x \in InTurn(q, 1, i - 1)
      PROVE  x \in Without(InTurn(q, 1, j), EditsAt(q, i, j))
  <2>1a. PICK k \in EditPlaces(q, 1, i - 1) : \E m \in EditPlaces(q, k, i - 1) :
           x = <<q[k].edit, q[m].edit>>
    BY <1>2, InTurnMember
  <2>1. PICK m \in EditPlaces(q, k, i - 1) : x = <<q[k].edit, q[m].edit>>
    BY <2>1a
  <2>2. k \in EditPlaces(q, 1, j) /\ m \in EditPlaces(q, k, j)
    BY <2>1 DEF EditPlaces
  <2>3. x \in InTurn(q, 1, j)
    BY <2>1, <2>2, InTurnMember
  <2>4. ASSUME NEW n \in EditPlaces(q, 1, i - 1)
        PROVE  q[n].edit \notin EditsAt(q, i, j)
    <3>1. SUFFICES ASSUME NEW o \in EditPlaces(q, i, j), q[n].edit = q[o].edit
                   PROVE  FALSE
      BY DEF EditsAt
    <3>2. n \in 1..j /\ o \in 1..j /\ n # o
          /\ q[n].type = "edit" /\ q[o].type = "edit"
      BY <2>4, <3>1 DEF EditPlaces
    <3> QED BY <3>1, <3>2 DEF Apart
  <2>5. m \in EditPlaces(q, 1, i - 1)
    BY <2>1 DEF EditPlaces
  <2>6. x[1] = q[k].edit /\ x[2] = q[m].edit
    BY <2>1
  <2> QED BY <2>1, <2>3, <2>4, <2>5, <2>6 DEF Without
<1> QED BY <1>1, <1>2

-------------------------------------------------------------------------------
(* How deep sequences nest.                                                *)
LEMMA CountSplit ==
  ASSUME NEW q, NEW type, NEW i \in Int, NEW m \in Int, NEW j \in Int, i <= m, m <= j + 1
  PROVE  /\ Count(q, type, i, j) \in Nat
         /\ Count(q, type, i, j) = Count(q, type, i, m - 1) + Count(q, type, m, j)
<1> DEFINE A == {k \in i..(m - 1) : q[k].type = type}
           B == {k \in m..j : q[k].type = type}
           C == {k \in i..j : q[k].type = type}
<1>1. IsFiniteSet(i..(m - 1)) /\ IsFiniteSet(m..j)
  BY FS_Interval
<1>2. IsFiniteSet(A) /\ IsFiniteSet(B)
  <2>1. A \subseteq i..(m - 1) /\ B \subseteq m..j  OBVIOUS
  <2> HIDE DEF A, B
  <2> QED BY <1>1, <2>1, FS_Subset
<1>3. C = A \union B
  OBVIOUS
<1>4. A \intersect B = {}
  OBVIOUS
<1>5. Count(q, type, i, j) = Cardinality(C)
      /\ Count(q, type, i, m - 1) = Cardinality(A)
      /\ Count(q, type, m, j) = Cardinality(B)
  BY DEF Count
<1> HIDE DEF A, B, C
<1>6. /\ IsFiniteSet(C)
      /\ Cardinality(C) = Cardinality(A) + Cardinality(B) - Cardinality(A \intersect B)
  BY <1>2, <1>3, FS_Union
<1>7. Cardinality(A \intersect B) = 0
  BY <1>4, FS_EmptySet
<1>8. Cardinality(A) \in Nat /\ Cardinality(B) \in Nat /\ Cardinality(C) \in Nat
  BY <1>2, <1>6, FS_CardinalityType
<1> QED BY <1>5, <1>6, <1>7, <1>8

LEMMA NestedSplit ==
  ASSUME NEW q, NEW i \in Nat, NEW j \in Nat, i <= j
  PROVE  /\ Nested(q, 1, i) \in Int /\ Nested(q, i + 1, j) \in Int
         /\ Nested(q, 1, j) = Nested(q, 1, i) + Nested(q, i + 1, j)
<1> DEFINE m == i + 1
<1>1. m \in Int /\ 1 <= m /\ m <= j + 1 /\ m - 1 = i
  OBVIOUS
<1> HIDE DEF m
<1>2. ASSUME NEW type
      PROVE  /\ Count(q, type, 1, i) \in Nat /\ Count(q, type, m, j) \in Nat
             /\ Count(q, type, 1, j) = Count(q, type, 1, i) + Count(q, type, m, j)
  <2>1. Count(q, type, 1, j) = Count(q, type, 1, m - 1) + Count(q, type, m, j)
    BY <1>1, CountSplit
  <2>2. Count(q, type, 1, i) \in Nat
    BY CountSplit
  <2>3. Count(q, type, m, j) \in Nat
    BY <1>1, CountSplit
  <2> QED BY <1>1, <2>1, <2>2, <2>3
<1>3. /\ Nested(q, 1, i) \in Int /\ Nested(q, m, j) \in Int
      /\ Nested(q, 1, j) = Nested(q, 1, i) + Nested(q, m, j)
  BY <1>2 DEF Nested
<1> QED BY <1>3 DEF m

LEMMA NestedOfOne ==
  ASSUME NEW q, NEW i \in Nat
  PROVE  Nested(q, i, i) = IF q[i].type = "start" THEN 1
                           ELSE IF q[i].type = "end" THEN -1 ELSE 0
<1>1. ASSUME NEW type
      PROVE  Count(q, type, i, i) = IF q[i].type = type THEN 1 ELSE 0
  <2>1. {k \in i..i : q[k].type = type} = IF q[i].type = type THEN {i} ELSE {}
    OBVIOUS
  <2>2. Cardinality({i}) = 1 /\ Cardinality({}) = 0
    BY FS_Singleton, FS_EmptySet
  <2> QED BY <2>1, <2>2 DEF Count
<1> QED BY <1>1 DEF Nested

LEMMA CountAlike ==
  ASSUME NEW q, NEW r, NEW i \in Nat, NEW m \in Nat, NEW j \in Nat,
         Alike(q, r, i, m, j)
  PROVE  \A type : Count(q, type, i + 1, i + j) = Count(r, type, m + 1, m + j)
<1> SUFFICES ASSUME NEW type
             PROVE  Count(q, type, i + 1, i + j) = Count(r, type, m + 1, m + j)
  OBVIOUS
<1> DEFINE A == {k \in (i + 1)..(i + j) : q[k].type = type}
           B == {k \in (m + 1)..(m + j) : r[k].type = type}
           f == [k \in A |-> k - i + m]
<1>1. ASSUME NEW k \in A
      PROVE  k - i + m \in B
  <2> DEFINE kk == k - i
  <2>1. kk \in 1..j /\ i + kk = k /\ kk + m = m + kk /\ q[k].type = type
    BY <1>1
  <2> HIDE DEF kk
  <2>2. q[k] = r[m + kk]
    BY <2>1 DEF Alike
  <2>3. m + kk \in B
    BY <2>1, <2>2
  <2>4. k - i + m = m + kk
    BY <2>1
  <2> QED BY <2>3, <2>4
<1>2. ASSUME NEW k \in B
      PROVE  k - m + i \in A /\ (k - m + i) - i + m = k
  <2> DEFINE kk == k - m
  <2>1. kk \in 1..j /\ m + kk = k /\ r[k].type = type
    BY <1>2
  <2> HIDE DEF kk
  <2>2. q[i + kk] = r[k]
    BY <2>1 DEF Alike
  <2>3. i + kk \in A
    BY <2>1, <2>2
  <2>4. k - m + i = i + kk
    BY <2>1
  <2> QED BY <2>1, <2>3, <2>4
<1>3. IsFiniteSet(A) /\ IsFiniteSet(B)
  <2>1. A \subseteq (i + 1)..(i + j) /\ B \subseteq (m + 1)..(m + j)  OBVIOUS
  <2>2. IsFiniteSet((i + 1)..(i + j)) /\ IsFiniteSet((m + 1)..(m + j))
    BY FS_Interval
  <2> HIDE DEF A, B
  <2> QED BY <2>1, <2>2, FS_Subset
<1>4. f \in [A -> B]
  BY <1>1
<1>5. \A k, n \in A : f[k] = f[n] => k = n
  <2>1. A \subseteq Int  OBVIOUS
  <2>2. \A k \in A : f[k] = k - i + m  OBVIOUS
  <2> HIDE DEF A, B, f
  <2> QED BY <2>1, <2>2
<1>6. \A n \in B : \E k \in A : f[k] = n
  <2>1. \A k \in A : f[k] = k - i + m  OBVIOUS
  <2> HIDE DEF A, B, f
  <2> QED BY <1>2, <2>1
<1> HIDE DEF A, B, f
<1>7. f \in Bijection(A, B)
  BY <1>4, <1>5, <1>6 DEF Bijection, Injection, Surjection, IsInjective
<1>8. Cardinality(A) = Cardinality(B)
  BY <1>3, <1>7, FS_Bijection DEF ExistsBijection
<1> QED BY <1>8 DEF Count, A, B

LEMMA NestedAlike ==
  ASSUME NEW q, NEW r, NEW i \in Nat, NEW m \in Nat, NEW j \in Nat,
         Alike(q, r, i, m, j)
  PROVE  Nested(q, i + 1, i + j) = Nested(r, m + 1, m + j)
<1>1. \A type : Count(q, type, i + 1, i + j) = Count(r, type, m + 1, m + j)
  BY CountAlike
<1> QED BY <1>1 DEF Nested

-------------------------------------------------------------------------------
(* The partner of an end and of a start.                                   *)
LEMMA Least == ASSUME NEW T \in SUBSET Nat, T # {}
               PROVE \E m \in T : \A k \in T : m <= k
<1> DEFINE R == {p \in Nat \X Nat : p[1] < p[2]}
<1>1. IsWellFoundedOn(R, Nat)
  BY NatLessThanWellFounded DEF OpToRel
<1>2. \E m \in T : \A k \in T : ~(<<k, m>> \in R)
  <2> HIDE DEF R
  <2> QED BY <1>1, WFMin
<1>3. ASSUME NEW m \in T, NEW k \in T, <<k, m>> \notin R
      PROVE  m <= k
  <2>1. ~(k < m)
    BY <1>3
  <2> QED BY <2>1
<1> HIDE DEF R
<1> QED BY <1>2, <1>3

LEMMA Greatest == ASSUME NEW l \in Nat, NEW T \in SUBSET (0..l), T # {}
                  PROVE \E m \in T : \A k \in T : k <= m
<1> DEFINE U == {l - k : k \in T}
<1>1. U \in SUBSET Nat /\ U # {}
  <2>1. \A k \in T : l - k \in Nat
    OBVIOUS
  <2> QED BY <2>1
<1>2. \A k \in T : l - k \in U
  OBVIOUS
<1>3. \A u \in U : \E k \in T : u = l - k
  OBVIOUS
<1> HIDE DEF U
<1>4. PICK u \in U : \A k \in U : u <= k
  BY <1>1, Least
<1>5. PICK m \in T : u = l - m
  BY <1>3
<1>6. ASSUME NEW k \in T
      PROVE  k <= m
  <2>1. l - m <= l - k
    BY <1>2, <1>4, <1>5
  <2> QED BY <2>1
<1> QED BY <1>6

LEMMA StartOfFacts ==
  ASSUME NEW q, NEW j \in Nat, j >= 2
  PROVE  /\ StartOf(q, j) \in 1..(j - 1)
         /\ (\E i \in 2..(j - 1) : Balanced(q, i, j)) =>
              StartOf(q, j) \in 2..(j - 1) /\ Balanced(q, StartOf(q, j), j)
<1> DEFINE starts == {i \in 2..(j - 1) : Balanced(q, i, j)}
<1>1. StartOf(q, j) = IF starts = {} THEN 1
                      ELSE CHOOSE i \in starts : \A k \in starts : k <= i
  BY DEF StartOf
<1>2. starts \subseteq 2..(j - 1) /\ \A i \in starts : Balanced(q, i, j)
  OBVIOUS
<1>3. \A i \in 2..(j - 1) : Balanced(q, i, j) => i \in starts
  OBVIOUS
<1> HIDE DEF starts
<1>4. CASE starts = {}
  <2>1. StartOf(q, j) = 1
    BY <1>1, <1>4
  <2> QED BY <1>3, <1>4, <2>1
<1>5. CASE starts # {}
  <2>1. starts \in SUBSET (0..j)
    BY <1>2
  <2>2. \E i \in starts : \A k \in starts : k <= i
    BY <1>5, <2>1, Greatest
  <2>3. StartOf(q, j) \in starts
    BY <1>1, <1>5, <2>2, Zenon
  <2>4. StartOf(q, j) \in 2..(j - 1) /\ Balanced(q, StartOf(q, j), j)
    BY <1>2, <2>3, Zenon
  <2> QED BY <2>4
<1> QED BY <1>4, <1>5

LEMMA EndOfFacts ==
  ASSUME NEW q, NEW i \in Nat, Len(q) \in Nat, i <= Len(q)
  PROVE  /\ EndOf(q, i) \in i..Len(q)
         /\ (\E j \in (i + 1)..Len(q) : Balanced(q, i, j)) =>
              EndOf(q, i) \in (i + 1)..Len(q) /\ Balanced(q, i, EndOf(q, i))
<1> DEFINE ends == {j \in (i + 1)..Len(q) : Balanced(q, i, j)}
<1>1. EndOf(q, i) = IF ends = {} THEN Len(q)
                    ELSE CHOOSE j \in ends : \A k \in ends : j <= k
  BY DEF EndOf
<1>2. ends \subseteq (i + 1)..Len(q) /\ \A j \in ends : Balanced(q, i, j)
  OBVIOUS
<1>3. \A j \in (i + 1)..Len(q) : Balanced(q, i, j) => j \in ends
  OBVIOUS
<1> HIDE DEF ends
<1>4. CASE ends = {}
  <2>1. EndOf(q, i) = Len(q)
    BY <1>1, <1>4
  <2> QED BY <1>3, <1>4, <2>1
<1>5. CASE ends # {}
  <2>1. ends \in SUBSET Nat
    BY <1>2
  <2>2. \E j \in ends : \A k \in ends : j <= k
    BY <1>5, <2>1, Least
  <2>3. EndOf(q, i) \in ends
    BY <1>1, <1>5, <2>2, Zenon
  <2>4. EndOf(q, i) \in (i + 1)..Len(q) /\ Balanced(q, i, EndOf(q, i))
    BY <1>2, <2>3, Zenon
  <2> QED BY <2>4
<1> QED BY <1>4, <1>5

-------------------------------------------------------------------------------
(* What is recorded comes behind the last action.                          *)
LEMMA FirstOfSeq ==
  ASSUME NEW S, NEW q \in Seq(S), NEW l \in 0..Len(q)
  PROVE  /\ SubSeq(q, 1, l) \in Seq(S) /\ Len(SubSeq(q, 1, l)) = l
         /\ \A k \in 1..l : SubSeq(q, 1, l)[k] = q[k]
<1>1. \A k \in 1..Len(q) : q[k] \in S
  BY ElementOfSeq
<1>2. Len(q) \in Nat
  BY LenProperties
<1>3. \A k \in 1..l : q[k] \in S
  BY <1>1, <1>2
<1>4. l \in Int
  BY <1>2
<1>5. /\ SubSeq(q, 1, l) \in Seq(S)
      /\ Len(SubSeq(q, 1, l)) = IF 1 <= l THEN l - 1 + 1 ELSE 0
      /\ \A k \in 1..(l - 1 + 1) : SubSeq(q, 1, l)[k] = q[1 + k - 1]
  BY <1>3, <1>4, SubSeqProperties
<1> QED BY <1>2, <1>5

LEMMA AddFacts ==
  ASSUME NEW S, NEW h, NEW new \in Seq(S), h.queue \in Seq(S),
         h.last \in 1..Len(h.queue)
  PROVE  /\ Add(h, new).queue \in Seq(S)
         /\ Add(h, new).last = h.last + Len(new)
         /\ Len(Add(h, new).queue) = h.last + Len(new)
         /\ Alike(Add(h, new).queue, h.queue, 0, 0, h.last)
         /\ Alike(Add(h, new).queue, new, h.last, 0, Len(new))
<1> DEFINE q == h.queue
           l == h.last
           b == SubSeq(q, 1, l)
<1>0. Len(new) \in Nat /\ Len(q) \in Nat /\ l \in Nat /\ l \in 0..Len(q)
  BY LenProperties
<1>1. b \in Seq(S) /\ Len(b) = l /\ \A k \in 1..l : b[k] = q[k]
  <2> HIDE DEF l, q
  <2>1. q \in Seq(S)  BY DEF q
  <2> QED BY <1>0, <2>1, FirstOfSeq
<1>2. Add(h, new).queue = b \o new /\ Add(h, new).last = l + Len(new)
  BY DEF Add
<1> HIDE DEF b, q, l
<1>3. /\ b \o new \in Seq(S) /\ Len(b \o new) = Len(b) + Len(new)
      /\ \A k \in 1..(Len(b) + Len(new)) :
           (b \o new)[k] = IF k <= Len(b) THEN b[k] ELSE new[k - Len(b)]
  BY <1>1, ConcatProperties
<1>4. \A k \in 1..l : (b \o new)[0 + k] = q[0 + k]
  BY <1>0, <1>1, <1>3
<1>5. ASSUME NEW k \in 1..Len(new)
      PROVE  (b \o new)[l + k] = new[0 + k]
  <2>1. l + k \in 1..(Len(b) + Len(new)) /\ ~(l + k <= Len(b)) /\ (l + k) - Len(b) = k
    BY <1>0, <1>1
  <2> QED BY <1>3, <2>1
<1>6. Alike(b \o new, q, 0, 0, l) /\ Alike(b \o new, new, l, 0, Len(new))
  BY <1>4, <1>5 DEF Alike
<1> QED BY <1>0, <1>1, <1>2, <1>3, <1>6 DEF q, l

(* What is alike up to a place, and what is the same further on.           *)
LEMMA AlikeAtFirst ==
  ASSUME NEW q, NEW r, NEW l \in Nat, Alike(q, r, 0, 0, l), NEW j \in 0..l
  PROVE  InTurn(q, 1, j) = InTurn(r, 1, j) /\ Nested(q, 1, j) = Nested(r, 1, j)
<1>1. j \in Nat /\ Alike(q, r, 0, 0, j)
  BY DEF Alike
<1>2. 0 \in Nat /\ 0 + 1 = 1 /\ 0 + j = j
  BY <1>1
<1>3. InTurn(q, 0 + 1, 0 + j) = InTurn(r, 0 + 1, 0 + j)
  BY <1>1, <1>2, InTurnAlike
<1>4. Nested(q, 0 + 1, 0 + j) = Nested(r, 0 + 1, 0 + j)
  BY <1>1, <1>2, NestedAlike
<1> QED BY <1>2, <1>3, <1>4

SameBehind(q, r, l, n) ==
  \A j \in 0..n : /\ InTurn(q, l + 1, l + j) = InTurn(r, 1, j)
                  /\ Nested(q, l + 1, l + j) = Nested(r, 1, j)

LEMMA AlikeBehind ==
  ASSUME NEW q, NEW r, NEW l \in Nat, NEW n \in Nat, Alike(q, r, l, 0, n)
  PROVE  SameBehind(q, r, l, n)
<1> SUFFICES ASSUME NEW j \in 0..n
             PROVE  /\ InTurn(q, l + 1, l + j) = InTurn(r, 1, j)
                    /\ Nested(q, l + 1, l + j) = Nested(r, 1, j)
  BY DEF SameBehind
<1>1. j \in Nat /\ Alike(q, r, l, 0, j)
  BY DEF Alike
<1>2. 0 \in Nat /\ 0 + 1 = 1 /\ 0 + j = j
  BY <1>1
<1>3. InTurn(q, l + 1, l + j) = InTurn(r, 0 + 1, 0 + j)
  BY <1>1, <1>2, InTurnAlike
<1>4. Nested(q, l + 1, l + j) = Nested(r, 0 + 1, 0 + j)
  BY <1>1, <1>2, NestedAlike
<1> QED BY <1>2, <1>3, <1>4

(* Actions that may be recorded behind those with the numbers up to n.     *)
Continues(new, n, m) ==
  /\ new \in Seq(Actions)
  /\ \A k \in 1..Len(new) :
       new[k].type # "init" /\ Told(new[k], m) /\ (new[k].type = "edit" => new[k].edit.n > n)
  /\ InNumberOrder(new)

LEMMA ToldLater == ASSUME NEW a, NEW n \in Nat, NEW m \in Nat, n <= m, Told(a, n)
                   PROVE  Told(a, m)
BY DEF Told

LEMMA AddShaped ==
  ASSUME NEW h, NEW new, NEW n \in Nat, NEW m \in Nat, n <= m,
         Shaped(h.queue, n), Placed(h.queue, h.last, h.clean),
         Continues(new, n, m), h.take \in 0..Len(new)
  PROVE  /\ Shaped(Add(h, new).queue, m)
         /\ Placed(Add(h, new).queue, Add(h, new).last, Add(h, new).clean)
<1> DEFINE q == h.queue
           l == h.last
           r == Add(h, new).queue
           L == Len(new)
<1>1. q \in Seq(Actions) /\ new \in Seq(Actions) /\ l \in 1..Len(q)
  BY DEF Shaped, Placed, Continues
<1>2. /\ r \in Seq(Actions) /\ Add(h, new).last = l + L /\ Len(r) = l + L
      /\ Alike(r, q, 0, 0, l) /\ Alike(r, new, l, 0, L)
  BY <1>1, AddFacts
<1>3. L \in Nat /\ Len(q) \in Nat /\ l \in Nat
  BY <1>1, LenProperties
<1>4. Placed(r, Add(h, new).last, Add(h, new).clean)
  <2>1. Add(h, new).clean = CleanAfter(h)
    BY DEF Add
  <2>2. h.clean \in {Freed, Nowhere} \union 1..Len(q) /\ h.take \in 0..L
    BY DEF Placed
  <2> DEFINE c == h.clean
             t == h.take
  <2>3. CleanAfter(h) = l + t \/ CleanAfter(h) = Freed \/ (CleanAfter(h) = c /\ ~(c > l))
    BY DEF CleanAfter
  <2> HIDE DEF c, t, l, q, r, L
  <2>4. c \in {Freed, Nowhere} \union 1..Len(q) /\ t \in 0..L
    BY <2>2 DEF c, t, q, L
  <2>5. l + L \in 1..Len(r)
    BY <1>1, <1>2, <1>3
  <2>6. CleanAfter(h) \in {Freed, Nowhere} \union 1..(l + L)
    BY <1>1, <1>3, <2>3, <2>4 DEF Freed, Nowhere
  <2> QED BY <1>2, <2>1, <2>5, <2>6 DEF Placed
<1> HIDE DEF q, l, r, L
<1>5. ASSUME NEW k \in 1..Len(r)
      PROVE  \/ k <= l /\ k \in 1..Len(q) /\ r[k] = q[k]
             \/ k > l /\ k - l \in 1..L /\ r[k] = new[k - l]
  <2>1. CASE k <= l
    <3>1. k \in 1..l /\ 0 + k = k
      BY <1>2, <1>3, <2>1
    <3> QED BY <1>1, <1>2, <1>3, <2>1, <3>1 DEF Alike
  <2>2. CASE k > l
    <3> DEFINE kk == k - l
    <3>1. kk \in 1..L /\ l + kk = k /\ 0 + kk = kk
      BY <1>2, <1>3, <2>2
    <3> HIDE DEF kk
    <3>2. r[k] = new[kk]
      BY <1>2, <3>1 DEF Alike
    <3> QED BY <2>2, <3>1, <3>2 DEF kk
  <2> QED BY <1>2, <1>3, <2>1, <2>2
<1>6. /\ q[1].type = "init" /\ Len(q) >= 1
      /\ \A k \in 2..Len(q) : q[k].type # "init"
      /\ \A k \in 1..Len(q) : Told(q[k], n)
      /\ InNumberOrder(q)
  BY DEF Shaped, q
<1>7. /\ \A k \in 1..L : new[k].type # "init" /\ Told(new[k], m)
      /\ \A k \in 1..L : new[k].type = "edit" => new[k].edit.n > n
      /\ InNumberOrder(new)
  BY DEF Continues, L
<1>8. Len(r) >= 1 /\ r[1].type = "init"
  <2>1. 1 \in 1..Len(r) /\ ~(1 > l)
    BY <1>1, <1>2, <1>3
  <2>2. r[1] = q[1]
    BY <1>5, <2>1
  <2> QED BY <1>6, <2>1, <2>2
<1>9. ASSUME NEW k \in 2..Len(r)
      PROVE  r[k].type # "init"
  <2>1. k \in 1..Len(r) /\ k # 1  OBVIOUS
  <2>2. CASE k <= l /\ k \in 1..Len(q) /\ r[k] = q[k]
    <3>1. k \in 2..Len(q)  BY <2>1, <2>2
    <3> QED BY <1>6, <2>2, <3>1
  <2>3. CASE k > l /\ k - l \in 1..L /\ r[k] = new[k - l]
    BY <1>7, <2>3
  <2> QED BY <1>5, <2>1, <2>2, <2>3
<1>10. ASSUME NEW k \in 1..Len(r)
       PROVE  Told(r[k], m)
  <2>1. CASE k <= l /\ k \in 1..Len(q) /\ r[k] = q[k]
    <3>1. Told(q[k], n)  BY <1>6, <2>1
    <3>2. Told(q[k], m)  BY <3>1, ToldLater
    <3> QED BY <2>1, <3>2
  <2>2. CASE k > l /\ k - l \in 1..L /\ r[k] = new[k - l]
    BY <1>7, <2>2
  <2> QED BY <1>5, <2>1, <2>2
<1>11. ASSUME NEW i \in 1..Len(r), NEW j \in 1..Len(r), i < j,
              r[i].type = "edit", r[j].type = "edit"
       PROVE  r[i].edit.n < r[j].edit.n
  <2>1. CASE j <= l
    <3>1. i \in 1..Len(q) /\ j \in 1..Len(q) /\ r[i] = q[i] /\ r[j] = q[j]
      BY <1>1, <1>3, <1>5, <1>11, <2>1, SMTT(20)
    <3> QED BY <1>6, <1>11, <3>1 DEF InNumberOrder
  <2>2. CASE i > l
    <3> DEFINE ii == i - l
               jj == j - l
    <3>1. ii \in 1..L /\ jj \in 1..L /\ ii < jj /\ r[i] = new[ii] /\ r[j] = new[jj]
      BY <1>3, <1>5, <1>11, <2>2, SMTT(20)
    <3> HIDE DEF ii, jj
    <3> QED BY <1>7, <1>11, <3>1 DEF InNumberOrder, L
  <2>3. CASE i <= l /\ j > l
    <3>1. i \in 1..Len(q) /\ r[i] = q[i] /\ j - l \in 1..L /\ r[j] = new[j - l]
      BY <1>3, <1>5, <2>3
    <3>2. Told(q[i], n) /\ q[i].type = "edit"
      BY <1>6, <1>11, <3>1
    <3>3. r[i].edit.n \in 1..n
      BY <3>1, <3>2 DEF Told
    <3>4. new[j - l].edit.n > n /\ Told(new[j - l], m) /\ new[j - l].type = "edit"
      BY <1>7, <1>11, <3>1
    <3>5. r[j].edit.n > n /\ r[j].edit.n \in 1..m
      BY <3>1, <3>4 DEF Told
    <3> QED BY <3>3, <3>5
  <2> QED BY <1>2, <1>3, <2>1, <2>2, <2>3
<1>12. Shaped(r, m)
  BY <1>2, <1>8, <1>9, <1>10, <1>11 DEF Shaped, InNumberOrder
<1> QED BY <1>4, <1>12 DEF r

LEMMA CutShaped ==
  ASSUME NEW q, NEW n \in Nat, Shaped(q, n), NEW l \in 1..Len(q)
  PROVE  Shaped(SubSeq(q, 1, l), n) /\ Len(SubSeq(q, 1, l)) = l
         /\ Alike(SubSeq(q, 1, l), q, 0, 0, l)
<1> DEFINE r == SubSeq(q, 1, l)
<1>1. q \in Seq(Actions) /\ Len(q) \in Nat
  BY LenProperties DEF Shaped
<1>2. l \in 0..Len(q)
  BY <1>1
<1>3. r \in Seq(Actions) /\ Len(r) = l /\ \A k \in 1..l : r[k] = q[k]
  BY <1>1, <1>2, FirstOfSeq
<1> HIDE DEF r
<1>4. \A k \in 1..Len(r) : k \in 1..Len(q) /\ r[k] = q[k]
  BY <1>1, <1>3
<1>5. Shaped(r, n)
  BY <1>1, <1>3, <1>4 DEF Shaped, InNumberOrder
<1>6. Alike(r, q, 0, 0, l)
  BY <1>1, <1>3 DEF Alike
<1> QED BY <1>3, <1>5, <1>6 DEF r

(* What is recorded is history: of the patch, and of nothing else.         *)
Bears(new, d) == \A k \in 1..Len(new) : d + Nested(new, 1, k) >= 0
Records(new, more, d, e) ==
  /\ Len(new) >= 1 /\ Bears(new, d)
  /\ more = InTurn(new, 1, Len(new)) /\ e = d + Nested(new, 1, Len(new))

LEMMA AddKept ==
  ASSUME NEW h, NEW p, NEW sv, NEW new \in Seq(Actions), NEW d \in Nat,
         h.queue \in Seq(Actions), Placed(h.queue, h.last, h.clean),
         Kept(h, p, sv, d), NEW more, NEW e, Records(new, more, d, e)
  PROVE  Kept(Add(h, new), AndThen(p, more), sv, e)
<1> DEFINE q == h.queue
           l == h.last
           r == Add(h, new).queue
           L == Len(new)
<1>0. L >= 1 /\ Bears(new, d) /\ more = InTurn(new, 1, L) /\ e = d + Nested(new, 1, L)
  BY DEF Records
<1>1. q \in Seq(Actions) /\ l \in 1..Len(q)
  BY DEF Placed
<1>2. /\ r \in Seq(Actions) /\ Add(h, new).last = l + L /\ Len(r) = l + L
      /\ Alike(r, q, 0, 0, l) /\ Alike(r, new, l, 0, L)
  BY <1>1, AddFacts
<1>3. L \in Nat /\ L >= 1 /\ Len(q) \in Nat /\ l \in Nat
  BY <1>0, <1>1, LenProperties
<1>4. /\ \A k \in 1..Len(q) : Nested(q, 1, k) >= 0
      /\ Nested(q, 1, l) = d
      /\ p = InTurn(q, 1, l)
      /\ ~h.aliased /\ h.clean \in 1..Len(q) => sv = InTurn(q, 1, h.clean)
  BY DEF Kept, Nests
<1>5. \A k \in 1..L : d + Nested(new, 1, k) >= 0
  BY <1>0 DEF Bears
<1>6. /\ Add(h, new).clean = CleanAfter(h)
      /\ Add(h, new).aliased = (h.aliased \/ Reused(h))
  BY DEF Add
<1>7. ~Reused(h) => CleanAfter(h) = IF h.clean > l THEN Freed ELSE h.clean
  BY DEF CleanAfter
<1> HIDE DEF q, l, r, L
<1>8. ASSUME NEW k \in 0..l
      PROVE  InTurn(r, 1, k) = InTurn(q, 1, k) /\ Nested(r, 1, k) = Nested(q, 1, k)
  BY <1>2, <1>3, AlikeAtFirst
<1>9. \A k \in 0..L : /\ InTurn(r, l + 1, l + k) = InTurn(new, 1, k)
                      /\ Nested(r, l + 1, l + k) = Nested(new, 1, k)
  <2>1. SameBehind(r, new, l, L)
    BY <1>2, <1>3, AlikeBehind
  <2> QED BY <2>1 DEF SameBehind
<1>10. ASSUME NEW k \in 1..L
       PROVE  /\ InTurn(r, 1, l + k) = AndThen(p, InTurn(new, 1, k))
              /\ Nested(r, 1, l + k) = d + Nested(new, 1, k)
  <2>1. k \in 0..L /\ l \in 0..l /\ l + k \in Nat /\ l <= l + k
    BY <1>3
  <2>2. InTurn(r, 1, l) = p /\ Nested(r, 1, l) = d
    BY <1>4, <1>8, <2>1
  <2> DEFINE j == l + k
  <2>3. j \in Nat /\ l <= j
    BY <2>1
  <2> HIDE DEF j
  <2>4. InTurn(r, 1, j) = AndThen(InTurn(r, 1, l), InTurn(r, l + 1, j))
    BY <1>3, <2>3, InTurnSplit
  <2>5. Nested(r, 1, j) = Nested(r, 1, l) + Nested(r, l + 1, j)
    BY <1>3, <2>3, NestedSplit
  <2>6. InTurn(r, l + 1, j) = InTurn(new, 1, k) /\ Nested(r, l + 1, j) = Nested(new, 1, k)
    BY <1>9, <2>1 DEF j
  <2>7. InTurn(r, 1, j) = AndThen(p, InTurn(new, 1, k))
    BY <2>2, <2>4, <2>6
  <2>8. Nested(r, 1, j) = d + Nested(new, 1, k)
    BY <2>2, <2>5, <2>6
  <2> QED BY <2>7, <2>8 DEF j
<1>11. L \in 1..L
  BY <1>3
<1>12. ASSUME NEW k \in 1..Len(r)
       PROVE  Nested(r, 1, k) >= 0
  <2>1. CASE k <= l
    <3>1. k \in 0..l /\ k \in 1..Len(q)
      BY <1>1, <1>2, <1>3, <2>1
    <3> QED BY <1>4, <1>8, <3>1
  <2>2. CASE k > l
    <3> DEFINE kk == k - l
    <3>1. kk \in 1..L /\ l + kk = k
      BY <1>2, <1>3, <2>2
    <3> HIDE DEF kk
    <3>2. Nested(r, 1, k) = d + Nested(new, 1, kk)
      BY <1>10, <3>1
    <3> QED BY <1>5, <3>1, <3>2
  <2> QED BY <1>2, <1>3, <2>1, <2>2
<1>13. InTurn(r, 1, l + L) = AndThen(p, InTurn(new, 1, L))
       /\ Nested(r, 1, l + L) = d + Nested(new, 1, L)
  BY <1>10, <1>11
<1>14. ASSUME ~Add(h, new).aliased, Add(h, new).clean \in 1..Len(r)
       PROVE  sv = InTurn(r, 1, Add(h, new).clean)
  <2> DEFINE c == h.clean
  <2>1. ~h.aliased /\ ~Reused(h)
    BY <1>6, <1>14
  <2>2. c \in {Freed, Nowhere} \union 1..Len(q)
    BY DEF Placed, q
  <2>3. ~h.aliased /\ c \in 1..Len(q) => sv = InTurn(q, 1, c)
    BY <1>4
  <2>4. Add(h, new).clean = IF c > l THEN Freed ELSE c
    BY <1>6, <1>7, <2>1
  <2> HIDE DEF c
  <2>5. c \in 1..Len(q) /\ c \in 0..l /\ Add(h, new).clean = c
    BY <1>3, <1>14, <2>2, <2>4 DEF Freed, Nowhere
  <2> QED BY <1>8, <2>1, <2>3, <2>5
<1> QED BY <1>0, <1>2, <1>12, <1>13, <1>14 DEF Kept, Nests, r, L

(* A single action: an edit, the start or the end of a sequence.           *)
LEMMA OneAction ==
  ASSUME NEW a \in Actions
  PROVE  /\ <<a>> \in Seq(Actions) /\ Len(<<a>>) = 1
         /\ InTurn(<<a>>, 1, 1) = IF a.type = "edit" THEN {<<a.edit, a.edit>>} ELSE {}
         /\ Nested(<<a>>, 1, 1) = IF a.type = "start" THEN 1
                                  ELSE IF a.type = "end" THEN -1 ELSE 0
<1> DEFINE q == <<a>>
<1>1. q \in Seq(Actions) /\ Len(q) = 1 /\ q[1] = a
  OBVIOUS
<1> HIDE DEF q
<1>2. 1 \in Nat
  OBVIOUS
<1>3. InTurn(q, 1, 1) = IF a.type = "edit" THEN {<<a.edit, a.edit>>} ELSE {}
  BY <1>1, <1>2, InTurnOfOne
<1>4. Nested(q, 1, 1) = IF a.type = "start" THEN 1
                        ELSE IF a.type = "end" THEN -1 ELSE 0
  BY <1>1, <1>2, NestedOfOne
<1> QED BY <1>1, <1>3, <1>4 DEF q

LEMMA EditAction ==
  ASSUME NEW kind \in Kinds, NEW n \in Nat
  PROVE  Action("edit", Edit(kind, n)) \in Actions
BY DEF Action, Edit, Actions

LEMMA OneContinues ==
  ASSUME NEW a \in Actions, NEW n \in Nat, NEW m \in Nat, a.type # "init",
         Told(a, m), a.type = "edit" => a.edit.n > n
  PROVE  Continues(<<a>>, n, m)
<1> DEFINE q == <<a>>
<1>1. q \in Seq(Actions) /\ Len(q) = 1 /\ q[1] = a
  OBVIOUS
<1> HIDE DEF q
<1>2. \A k \in 1..Len(q) : k = 1
  BY <1>1
<1>3. \A k \in 1..Len(q) : q[k].type # "init" /\ Told(q[k], m)
                           /\ (q[k].type = "edit" => q[k].edit.n > n)
  BY <1>1, <1>2
<1>4. InNumberOrder(q)
  BY <1>1 DEF InNumberOrder
<1> QED BY <1>1, <1>3, <1>4 DEF Continues, q

LEMMA StartEnd ==
  /\ Start \in Actions /\ Start.type = "start"
  /\ End \in Actions /\ End.type = "end"
  /\ \A n \in Nat : Continues(<<Start>>, n, n) /\ Continues(<<End>>, n, n)
<1>1. NoEdit \in [kind : Kinds \union {""}, n : Nat]
  BY DEF NoEdit
<1>2. /\ Start \in Actions /\ Start.type = "start" /\ Start.edit = NoEdit
      /\ End \in Actions /\ End.type = "end" /\ End.edit = NoEdit
  BY <1>1 DEF Start, End, Action, Actions
<1>3. ASSUME NEW n \in Nat
      PROVE  Continues(<<Start>>, n, n) /\ Continues(<<End>>, n, n)
  <2>1. Told(Start, n) /\ Told(End, n)
    BY <1>2 DEF Told
  <2> QED BY <1>2, <2>1, OneContinues
<1> QED BY <1>2, <1>3

-------------------------------------------------------------------------------
(* A typed text is a sequence of edits with the next numbers.              *)
LEMMA TypedFacts ==
  ASSUME made \in Nat
  PROVE  /\ TypedActions \in Seq(Actions) /\ Len(TypedActions) = Len(Typing) + 2
         /\ TypedActions[1] = Start /\ TypedActions[Len(Typing) + 2] = End
         /\ \A i \in 2..(Len(Typing) + 1) :
              TypedActions[i] = Action("edit", Edit(Typing[i - 1], made + i - 1))
<1> DEFINE n == Len(Typing)
           f(i) == CASE i = 1 -> Start
                     [] i \in 2..(n + 1) -> Action("edit", Edit(Typing[i - 1], made + i - 1))
                     [] i = n + 2 -> End
<1>1. n \in Nat /\ \A k \in 1..n : Typing[k] \in Kinds
  BY UndoAssumption, LenProperties, ElementOfSeq
<1>2. TypedActions = [i \in 1..(n + 2) |-> f(i)]
  BY DEF TypedActions
<1>3. f(1) = Start
  OBVIOUS
<1>4. ASSUME NEW i \in 2..(n + 1)
      PROVE  f(i) = Action("edit", Edit(Typing[i - 1], made + i - 1))
  <2>1. i # 1 /\ i # n + 2
    BY <1>1
  <2> QED BY <2>1
<1>5. f(n + 2) = End
  <2>1. n + 2 # 1 /\ ~(n + 2 \in 2..(n + 1))
    BY <1>1
  <2> QED BY <2>1
<1> HIDE DEF n, f
<1>6. \A i \in 1..(n + 2) : f(i) \in Actions
  <2>1. ASSUME NEW i \in 2..(n + 1)
        PROVE  f(i) \in Actions
    <3>1. i - 1 \in 1..n /\ made + i - 1 \in Nat
      BY <1>1
    <3> DEFINE t == Typing[i - 1]
               m == made + i - 1
    <3>2. t \in Kinds
      BY <1>1, <3>1
    <3>3. f(i) = Action("edit", Edit(t, m)) /\ m \in Nat
      BY <1>4, <3>1
    <3> HIDE DEF t, m
    <3> QED BY <3>2, <3>3, EditAction
  <2>2. ASSUME NEW i \in 1..(n + 2)
        PROVE  i = 1 \/ i = n + 2 \/ i \in 2..(n + 1)
    BY <1>1
  <2> QED BY <1>3, <1>5, <2>1, <2>2, StartEnd
<1>7. TypedActions \in Seq(Actions) /\ Len(TypedActions) = n + 2
      /\ \A i \in 1..(n + 2) : TypedActions[i] = f(i)
  <2> DEFINE ta == TypedActions
  <2>1. ta = [i \in 1..(n + 2) |-> f(i)]
    BY <1>2
  <2>2. n + 2 \in Nat
    BY <1>1
  <2> HIDE DEF ta
  <2>3. ta \in [1..(n + 2) -> Actions] /\ \A i \in 1..(n + 2) : ta[i] = f(i)
    BY <1>6, <2>1
  <2>4. ta \in Seq(Actions) /\ Len(ta) = n + 2
    BY <2>1, <2>2, <2>3, SeqDef, LenProperties
  <2> QED BY <2>3, <2>4 DEF ta
<1>8. 1 \in 1..(n + 2) /\ n + 2 \in 1..(n + 2) /\ 2..(n + 1) \subseteq 1..(n + 2)
  BY <1>1
<1> QED BY <1>3, <1>4, <1>5, <1>7, <1>8 DEF n

LEMMA TypedContinues ==
  ASSUME made \in Nat
  PROVE  Continues(TypedActions, made, made + Len(Typing))
<1> DEFINE q == TypedActions
           n == Len(Typing)
           m == made + n
<1>1. n \in Nat /\ \A k \in 1..n : Typing[k] \in Kinds
  BY UndoAssumption, LenProperties, ElementOfSeq
<1>2. /\ q \in Seq(Actions) /\ Len(q) = n + 2
      /\ q[1] = Start /\ q[n + 2] = End
      /\ \A i \in 2..(n + 1) : q[i] = Action("edit", Edit(Typing[i - 1], made + i - 1))
  BY TypedFacts
<1> HIDE DEF q, n
<1>3. ASSUME NEW i \in 2..(n + 1)
      PROVE  /\ q[i].type = "edit" /\ q[i].edit.n = made + i - 1
             /\ Told(q[i], m) /\ q[i].edit.n > made
  <2>1. i - 1 \in 1..n /\ made + i - 1 \in 1..m /\ made + i - 1 > made
    BY <1>1
  <2>2. q[i].type = "edit" /\ q[i].edit.n = made + i - 1 /\ q[i].edit.kind = Typing[i - 1]
    <3>1. q[i] = Action("edit", Edit(Typing[i - 1], made + i - 1))
      BY <1>2
    <3> QED BY <3>1 DEF Action, Edit
  <2> HIDE DEF m
  <2> QED BY <1>1, <2>1, <2>2 DEF Told
<1>4. m \in Nat
  BY <1>1
<1>5. /\ Told(Start, m) /\ Start.type = "start"
      /\ Told(End, m) /\ End.type = "end"
  BY DEF Start, End, Action, Told
<1>6. ASSUME NEW i \in 1..Len(q)
      PROVE  i = 1 \/ i = n + 2 \/ i \in 2..(n + 1)
  BY <1>1, <1>2
<1>7. ASSUME NEW i \in 1..Len(q)
      PROVE  q[i].type # "init" /\ Told(q[i], m) /\ (q[i].type = "edit" => q[i].edit.n > made)
  BY <1>2, <1>3, <1>5, <1>6
<1>8. ASSUME NEW i \in 1..Len(q), NEW j \in 1..Len(q), i < j,
             q[i].type = "edit", q[j].type = "edit"
      PROVE  q[i].edit.n < q[j].edit.n
  <2>1. i \in 2..(n + 1) /\ j \in 2..(n + 1)
    BY <1>2, <1>5, <1>6, <1>8
  <2>2. q[i].edit.n = made + i - 1 /\ q[j].edit.n = made + j - 1
    BY <1>3, <2>1
  <2> QED BY <1>8, <2>1, <2>2
<1> HIDE DEF m
<1>9. Continues(q, made, m)
  BY <1>2, <1>7, <1>8 DEF Continues, InNumberOrder
<1> QED BY <1>9 DEF q, m, n

LEMMA TypedNests ==
  ASSUME made \in Nat
  PROVE  /\ Bears(TypedActions, 0)
         /\ Nested(TypedActions, 1, Len(TypedActions)) = 0
<1> DEFINE q == TypedActions
           n == Len(Typing)
<1>1. n \in Nat
  BY UndoAssumption, LenProperties
<1>2. /\ q \in Seq(Actions) /\ Len(q) = n + 2
      /\ q[1] = Start /\ q[n + 2] = End
      /\ \A i \in 2..(n + 1) : q[i] = Action("edit", Edit(Typing[i - 1], made + i - 1))
  BY TypedFacts
<1> HIDE DEF q, n
<1>3. /\ q[1].type = "start" /\ q[n + 2].type = "end"
      /\ \A i \in 2..(n + 1) : q[i].type = "edit"
  <2>1. ASSUME NEW i \in 2..(n + 1)
        PROVE  q[i].type = "edit"
    <3>1. q[i] = Action("edit", Edit(Typing[i - 1], made + i - 1))
      BY <1>2
    <3> QED BY <3>1 DEF Action
  <2> QED BY <1>2, <2>1, StartEnd
<1>4. ASSUME NEW k \in 1..(n + 2)
      PROVE  Nested(q, 1, k) = IF k = n + 2 THEN 0 ELSE 1
  <2>1. {i \in 1..k : q[i].type = "start"} = {1}
    <3>1. \A i \in 1..k : i = 1 \/ i = n + 2 \/ i \in 2..(n + 1)
      BY <1>1
    <3>2. 1 \in 1..k
      BY <1>1
    <3> QED BY <1>3, <3>1, <3>2
  <2>2. {i \in 1..k : q[i].type = "end"} = IF k = n + 2 THEN {n + 2} ELSE {}
    <3>1. \A i \in 1..k : i = 1 \/ (i = n + 2 /\ k = n + 2) \/ i \in 2..(n + 1)
      BY <1>1
    <3>2. k = n + 2 => n + 2 \in 1..k
      BY <1>1
    <3> QED BY <1>3, <3>1, <3>2
  <2>3. Cardinality({1}) = 1 /\ Cardinality({n + 2}) = 1 /\ Cardinality({}) = 0
    BY FS_Singleton, FS_EmptySet
  <2>4. Count(q, "start", 1, k) = 1
    BY <2>1, <2>3 DEF Count
  <2>5. Count(q, "end", 1, k) = IF k = n + 2 THEN 1 ELSE 0
    BY <2>2, <2>3 DEF Count
  <2> QED BY <2>4, <2>5 DEF Nested
<1>5. \A k \in 1..Len(q) : 0 + Nested(q, 1, k) >= 0
  BY <1>2, <1>4
<1>6. Nested(q, 1, Len(q)) = 0
  BY <1>1, <1>2, <1>4
<1> QED BY <1>5, <1>6 DEF Bears, q

-------------------------------------------------------------------------------
(* The end of a sequence, which may take its start back.                   *)
LEMMA EndShaped ==
  ASSUME NEW h, NEW n \in Nat, Shaped(h.queue, n), Placed(h.queue, h.last, h.clean),
         h.take \in 0..1
  PROVE  /\ Shaped(EndSequence(h).queue, n)
         /\ Placed(EndSequence(h).queue, EndSequence(h).last, EndSequence(h).clean)
<1> DEFINE q == h.queue
           l == h.last
           c == h.clean
           g == EndSequence(h)
<1>1. /\ q \in Seq(Actions) /\ q[1].type = "init"
      /\ l \in 1..Len(q) /\ c \in {Freed, Nowhere} \union 1..Len(q)
  BY DEF Shaped, Placed
<1>2. Len(q) \in Nat
  BY <1>1, LenProperties
<1>3. CASE q[l].type = "start"
  <2>1. /\ g.queue = SubSeq(q, 1, l - 1) /\ g.last = l - 1
        /\ g.clean = IF c >= l THEN Freed ELSE c
    BY <1>3 DEF EndSequence
  <2>2. Shaped(q, n)
    OBVIOUS
  <2> HIDE DEF q, l, c, g
  <2>3. l - 1 \in 1..Len(q)
    BY <1>1, <1>2, <1>3
  <2>4. Shaped(g.queue, n) /\ Len(g.queue) = l - 1
    BY <2>1, <2>2, <2>3, CutShaped
  <2>5. g.last \in 1..Len(g.queue) /\ g.clean \in {Freed, Nowhere} \union 1..Len(g.queue)
    BY <1>1, <1>2, <2>1, <2>3, <2>4 DEF Freed, Nowhere
  <2> QED BY <2>4, <2>5 DEF Placed, g
<1>4. CASE q[l].type # "start"
  <2>1. g = Add(h, <<End>>)
    BY <1>4 DEF EndSequence
  <2>2. Continues(<<End>>, n, n) /\ n <= n /\ Len(<<End>>) = 1
    BY StartEnd
  <2>3. h.take \in 0..Len(<<End>>)
    BY <2>2
  <2> HIDE DEF q, l, c, g
  <2>4. /\ Shaped(Add(h, <<End>>).queue, n)
        /\ Placed(Add(h, <<End>>).queue, Add(h, <<End>>).last, Add(h, <<End>>).clean)
    BY <2>2, <2>3, AddShaped
  <2> QED BY <2>1, <2>4 DEF g
<1> QED BY <1>3, <1>4

LEMMA EndKept ==
  ASSUME NEW h, NEW p, NEW sv, NEW d \in Nat, d > 0, NEW n \in Nat,
         Shaped(h.queue, n), Placed(h.queue, h.last, h.clean), Kept(h, p, sv, d)
  PROVE  Kept(EndSequence(h), p, sv, d - 1)
<1> DEFINE q == h.queue
           l == h.last
           c == h.clean
           g == EndSequence(h)
<1>1. /\ q \in Seq(Actions) /\ q[1].type = "init"
      /\ l \in 1..Len(q) /\ c \in {Freed, Nowhere} \union 1..Len(q)
  BY DEF Shaped, Placed
<1>2. Len(q) \in Nat
  BY <1>1, LenProperties
<1>3. /\ \A k \in 1..Len(q) : Nested(q, 1, k) >= 0
      /\ Nested(q, 1, l) = d
      /\ p = InTurn(q, 1, l)
      /\ ~h.aliased /\ c \in 1..Len(q) => sv = InTurn(q, 1, c)
  BY DEF Kept, Nests
<1>4. CASE q[l].type = "start"
  <2>1. /\ g.queue = SubSeq(q, 1, l - 1) /\ g.last = l - 1
        /\ g.clean = IF c >= l THEN Freed ELSE c
        /\ g.aliased = h.aliased
    BY <1>4 DEF EndSequence
  <2>2. Shaped(q, n)
    OBVIOUS
  <2> DEFINE m == l - 1
             r == g.queue
  <2> HIDE DEF q, l, c, g
  <2>3. m \in 1..Len(q) /\ m \in Nat /\ l \in Nat /\ m <= l /\ m + 1 = l
    BY <1>1, <1>2, <1>4
  <2>4. r = SubSeq(q, 1, m)
    BY <2>1
  <2> HIDE DEF m, r
  <2>5. Len(r) = m /\ Alike(r, q, 0, 0, m)
    BY <2>2, <2>3, <2>4, CutShaped
  <2>6. ASSUME NEW k \in 0..m
        PROVE  InTurn(r, 1, k) = InTurn(q, 1, k) /\ Nested(r, 1, k) = Nested(q, 1, k)
    BY <2>3, <2>5, AlikeAtFirst
  <2>7. InTurn(q, l, l) = {} /\ Nested(q, l, l) = 1
    BY <1>4, <2>3, InTurnOfOne, NestedOfOne
  <2>8. InTurn(q, 1, l) = AndThen(InTurn(q, 1, m), InTurn(q, m + 1, l))
    BY <2>3, InTurnSplit
  <2>9. /\ Nested(q, 1, m) \in Int
        /\ Nested(q, 1, l) = Nested(q, 1, m) + Nested(q, m + 1, l)
    BY <2>3, NestedSplit
  <2>10. InTurn(q, 1, m) = p
    BY <1>3, <2>3, <2>7, <2>8, AndThenNothing
  <2>11. Nested(q, 1, m) = d - 1
    BY <1>3, <2>3, <2>7, <2>9
  <2>12. ASSUME NEW k \in 1..Len(r)
         PROVE  Nested(r, 1, k) >= 0
    <3>1. k \in 0..m /\ k \in 1..Len(q)
      BY <1>2, <2>3, <2>5
    <3> QED BY <1>3, <2>6, <3>1
  <2>13. m \in 0..m
    BY <2>3
  <2>14. InTurn(r, 1, m) = p /\ Nested(r, 1, m) = d - 1
    BY <2>6, <2>10, <2>11, <2>13
  <2>15. ASSUME ~g.aliased, g.clean \in 1..Len(r)
         PROVE  sv = InTurn(r, 1, g.clean)
    <3>1. g.clean = c /\ c \in 0..m /\ c \in 1..Len(q)
      BY <1>1, <1>2, <2>1, <2>3, <2>5, <2>15 DEF Freed, Nowhere
    <3> QED BY <1>3, <2>1, <2>6, <2>15, <3>1
  <2>16. g.last = m
    BY <2>1 DEF m
  <2> QED BY <2>5, <2>12, <2>14, <2>15, <2>16 DEF Kept, Nests, r, g
<1>5. CASE q[l].type # "start"
  <2> DEFINE new == <<End>>
  <2>1. g = Add(h, new)
    BY <1>5 DEF EndSequence
  <2>2. /\ new \in Seq(Actions) /\ Len(new) = 1
        /\ InTurn(new, 1, 1) = {} /\ Nested(new, 1, 1) = -1
    BY OneAction, StartEnd
  <2>3. h.queue \in Seq(Actions)
    BY <1>1
  <2> HIDE DEF q, l, c, g, new
  <2>4. Bears(new, d)
    BY <2>2 DEF Bears
  <2>5. Records(new, {}, d, d - 1)
    BY <2>2, <2>4 DEF Records
  <2>6. Kept(Add(h, new), AndThen(p, {}), sv, d - 1)
    BY <2>2, <2>3, <2>5, AddKept
  <2> QED BY <2>1, <2>6, AndThenNothing DEF g
<1> QED BY <1>4, <1>5

-------------------------------------------------------------------------------
(* Where whole sequences nest, an undo and a redo find whole ones.         *)
LEMMA UndoFinds ==
  ASSUME NEW q, NEW n \in Nat, Shaped(q, n), NEW l \in 2..Len(q), Nests(q, l, 0)
  PROVE  /\ q[l].type \in {"edit", "end"}
         /\ q[l].type = "edit" => Nested(q, 1, l - 1) = 0
         /\ q[l].type = "end" =>
              /\ StartOf(q, l) \in 2..(l - 1) /\ Balanced(q, StartOf(q, l), l)
              /\ Nested(q, 1, StartOf(q, l) - 1) = 0
<1>1. /\ q \in Seq(Actions) /\ q[1].type = "init" /\ q[l].type # "init"
      /\ \A k \in 1..Len(q) : Nested(q, 1, k) >= 0
      /\ Nested(q, 1, l) = 0
  BY DEF Shaped, Nests
<1>2. Len(q) \in Nat /\ l \in Nat
  BY <1>1, LenProperties
<1>3. q[l].type \in {"start", "end", "edit"}
  <2>1. q[l] \in Actions
    BY <1>1, <1>2, ElementOfSeq
  <2> QED BY <1>1, <2>1 DEF Actions
<1>4. ASSUME NEW i \in 2..l
      PROVE  /\ Nested(q, 1, i - 1) \in Int /\ Nested(q, 1, i - 1) >= 0
             /\ Nested(q, i, l) = 0 - Nested(q, 1, i - 1)
  <2> DEFINE m == i - 1
  <2>1. m \in 1..Len(q) /\ m \in Nat /\ m <= l /\ m + 1 = i
    BY <1>2
  <2> HIDE DEF m
  <2>2. /\ Nested(q, 1, m) \in Int /\ Nested(q, m + 1, l) \in Int
        /\ Nested(q, 1, l) = Nested(q, 1, m) + Nested(q, m + 1, l)
    BY <1>2, <2>1, NestedSplit
  <2>3. Nested(q, 1, m) \in Int /\ Nested(q, 1, m) >= 0
        /\ Nested(q, i, l) = 0 - Nested(q, 1, m)
    BY <1>1, <2>1, <2>2
  <2> QED BY <2>3 DEF m
<1>5. l \in 2..l
  BY <1>2
<1>6. /\ Nested(q, 1, l - 1) >= 0 /\ Nested(q, 1, l - 1) \in Int
      /\ Nested(q, 1, l - 1) = 0 - Nested(q, l, l)
  BY <1>4, <1>5
<1>7. Nested(q, l, l) = IF q[l].type = "start" THEN 1
                        ELSE IF q[l].type = "end" THEN -1 ELSE 0
  BY <1>2, NestedOfOne
<1>8. q[l].type # "start"
  BY <1>6, <1>7
<1>9. q[l].type = "edit" => Nested(q, 1, l - 1) = 0
  BY <1>6, <1>7
<1>10. ASSUME q[l].type = "end"
       PROVE  /\ StartOf(q, l) \in 2..(l - 1) /\ Balanced(q, StartOf(q, l), l)
              /\ Nested(q, 1, StartOf(q, l) - 1) = 0
  <2>1. Nested(q, 1, 1) = 0
    BY <1>1, NestedOfOne
  <2>2. l # 2
    BY <1>6, <1>7, <1>10, <2>1
  <2>3. 2 \in 2..(l - 1) /\ 2 \in 2..l /\ 2 - 1 = 1
    BY <1>2, <2>2
  <2>4. Nested(q, 2, l) = 0
    BY <1>4, <2>1, <2>3
  <2>5. Balanced(q, 2, l)
    BY <2>4 DEF Balanced
  <2>6. l >= 2
    BY <1>2
  <2>7. StartOf(q, l) \in 2..(l - 1) /\ Balanced(q, StartOf(q, l), l)
    BY <1>2, <2>3, <2>5, <2>6, StartOfFacts
  <2> DEFINE i == StartOf(q, l)
  <2>8. i \in 2..l /\ Nested(q, i, l) = 0
    BY <1>2, <2>7 DEF Balanced
  <2> HIDE DEF i
  <2>9. Nested(q, 1, i - 1) = 0
    BY <1>4, <2>8
  <2> QED BY <2>7, <2>9 DEF i
<1> QED BY <1>3, <1>8, <1>9, <1>10

LEMMA RedoFinds ==
  ASSUME NEW q, NEW n \in Nat, Shaped(q, n), NEW l \in 1..(Len(q) - 1), Nests(q, l, 0)
  PROVE  /\ q[l + 1].type \in {"edit", "start"}
         /\ q[l + 1].type = "edit" => Nested(q, 1, l + 1) = 0
         /\ q[l + 1].type = "start" =>
              /\ EndOf(q, l + 1) \in (l + 2)..Len(q) /\ Balanced(q, l + 1, EndOf(q, l + 1))
              /\ Nested(q, 1, EndOf(q, l + 1)) = 0
<1> DEFINE m == l + 1
<1>1. /\ q \in Seq(Actions) /\ Len(q) >= 1
      /\ \A k \in 2..Len(q) : q[k].type # "init"
      /\ \A k \in 1..Len(q) : Nested(q, 1, k) >= 0
      /\ Nested(q, 1, l) = 0 /\ Nested(q, 1, Len(q)) = 0
  BY DEF Shaped, Nests
<1>2. Len(q) \in Nat
  BY <1>1, LenProperties
<1>3. l \in Nat /\ m \in 2..Len(q) /\ m \in Nat /\ l <= m /\ m <= Len(q)
  BY <1>2
<1> HIDE DEF m
<1>4. q[m].type \in {"start", "end", "edit"}
  <2>1. q[m] \in Actions
    BY <1>1, <1>2, <1>3, ElementOfSeq
  <2> QED BY <1>1, <1>3, <2>1 DEF Actions
<1>5. ASSUME NEW j \in m..Len(q)
      PROVE  Nested(q, m, j) = Nested(q, 1, j)
  <2>1. j \in Nat /\ l <= j
    BY <1>2, <1>3 DEF m
  <2>2. /\ Nested(q, 1, l) \in Int /\ Nested(q, l + 1, j) \in Int
        /\ Nested(q, 1, j) = Nested(q, 1, l) + Nested(q, l + 1, j)
    BY <1>3, <2>1, NestedSplit
  <2> QED BY <1>1, <2>2 DEF m
<1>6. Nested(q, m, m) = IF q[m].type = "start" THEN 1
                        ELSE IF q[m].type = "end" THEN -1 ELSE 0
  BY <1>3, NestedOfOne
<1>7. Nested(q, m, m) = Nested(q, 1, m) /\ Nested(q, 1, m) >= 0
  <2>1. m \in m..Len(q) /\ m \in 1..Len(q)
    BY <1>2, <1>3
  <2> QED BY <1>1, <1>5, <2>1
<1>8. q[m].type # "end"
  BY <1>6, <1>7
<1>9. q[m].type = "edit" => Nested(q, 1, m) = 0
  BY <1>6, <1>7
<1>10. ASSUME q[m].type = "start"
       PROVE  /\ EndOf(q, m) \in (m + 1)..Len(q) /\ Balanced(q, m, EndOf(q, m))
              /\ Nested(q, 1, EndOf(q, m)) = 0
  <2>1. m # Len(q)
    BY <1>1, <1>6, <1>7, <1>10
  <2>2. Len(q) \in (m + 1)..Len(q) /\ Len(q) \in m..Len(q)
    BY <1>2, <1>3, <2>1
  <2>3. Balanced(q, m, Len(q))
    BY <1>1, <1>5, <2>2 DEF Balanced
  <2>4. EndOf(q, m) \in (m + 1)..Len(q) /\ Balanced(q, m, EndOf(q, m))
    BY <1>2, <1>3, <2>2, <2>3, EndOfFacts
  <2> DEFINE j == EndOf(q, m)
  <2>5. j \in m..Len(q) /\ Nested(q, m, j) = 0
    BY <1>2, <1>3, <2>4 DEF Balanced
  <2> HIDE DEF j
  <2>6. Nested(q, 1, j) = 0
    BY <1>5, <2>5
  <2> QED BY <2>4, <2>6 DEF j
<1>11. m + 1 = l + 2
  BY <1>3 DEF m
<1> QED BY <1>4, <1>8, <1>9, <1>10, <1>11 DEF m

-------------------------------------------------------------------------------
(* A typed text, taken wherever the queue stands.                          *)
LEMMA TypedAdds ==
  ASSUME NEW h, made \in Nat, Shaped(h.queue, made), Placed(h.queue, h.last, h.clean),
         h.take \in TypedTakes
  PROVE  /\ Shaped(Typed(h).queue, made + Len(Typing))
         /\ Placed(Typed(h).queue, Typed(h).last, Typed(h).clean)
         /\ Typed(h).last # 1
         /\ \A p, sv : Kept(h, p, sv, 0) => Kept(Typed(h), AndThen(p, TypedEdits), sv, 0)
<1> DEFINE new == TypedActions
           m == made + Len(Typing)
<1>1. m \in Nat /\ made <= m /\ Len(Typing) \in Nat
  BY UndoAssumption, LenProperties
<1>2. /\ new \in Seq(Actions) /\ Len(new) >= 1 /\ Len(new) \in Nat
      /\ Continues(new, made, m) /\ Bears(new, 0)
      /\ Nested(new, 1, Len(new)) = 0 /\ TypedEdits = InTurn(new, 1, Len(new))
  BY <1>1, TypedFacts, TypedContinues, TypedNests DEF TypedEdits
<1>3. Typed(h) = Add(h, new) /\ h.take \in 0..Len(new)
  BY DEF Typed, TypedTakes
<1>4. h.queue \in Seq(Actions) /\ h.last \in 1..Len(h.queue)
  BY DEF Shaped, Placed
<1> HIDE DEF new, m
<1>5. /\ Shaped(Add(h, new).queue, m)
      /\ Placed(Add(h, new).queue, Add(h, new).last, Add(h, new).clean)
  BY <1>1, <1>2, <1>3, AddShaped
<1>6. Add(h, new).last # 1
  <2>1. Add(h, new).last = h.last + Len(new) /\ Len(h.queue) \in Nat
    BY <1>2, <1>4, AddFacts, LenProperties
  <2> QED BY <1>2, <1>4, <2>1
<1>7. ASSUME NEW p, NEW sv, Kept(h, p, sv, 0)
      PROVE  Kept(Add(h, new), AndThen(p, TypedEdits), sv, 0)
  <2>1. Records(new, TypedEdits, 0, 0)
    BY <1>2 DEF Records
  <2>2. 0 \in Nat
    OBVIOUS
  <2> QED BY <1>2, <1>4, <1>7, <2>1, <2>2, AddKept
<1> QED BY <1>3, <1>5, <1>6, <1>7 DEF m

(* What a step has to show of the queue it puts in place.                  *)
LEMMA PutType ==
  ASSUME NEW h, Put(h), Shaped(h.queue, made'), Placed(h.queue, h.last, h.clean),
         depth' \in 0..MaxDepth, made' \in 0..MaxEdits
  PROVE  TypeInv'
BY DEF Put, TypeInv

LEMMA PutKept ==
  ASSUME NEW h, Put(h), strayed' \/ (Kept(h, patch', saved', depth') /\ ~bug')
  PROVE  KeptInv'
<1>1. /\ queue' = h.queue /\ last' = h.last /\ clean' = h.clean /\ aliased' = h.aliased
  BY DEF Put
<1>2. /\ Here(0)'.queue = queue' /\ Here(0)'.last = last'
      /\ Here(0)'.clean = clean' /\ Here(0)'.aliased = aliased'
  BY DEF Here
<1> HIDE DEF Here
<1>3. Kept(h, patch', saved', depth') => Kept(Here(0)', patch', saved', depth')
  BY <1>1, <1>2 DEF Kept
<1> QED BY <1>3 DEF KeptInv

LEMMA HereFacts ==
  ASSUME NEW take
  PROVE  /\ Here(take).queue = queue /\ Here(take).last = last
         /\ Here(take).clean = clean /\ Here(take).aliased = aliased
         /\ Here(take).take = take
BY DEF Here

LEMMA HereKept ==
  ASSUME NEW take, KeptInv, ~strayed
  PROVE  Kept(Here(take), patch, saved, depth) /\ ~bug
<1>1. Kept(Here(0), patch, saved, depth) /\ ~bug
  BY DEF KeptInv
<1>2. /\ Here(0).queue = Here(take).queue /\ Here(0).last = Here(take).last
      /\ Here(0).clean = Here(take).clean /\ Here(0).aliased = Here(take).aliased
  BY HereFacts
<1> QED BY <1>1, <1>2 DEF Kept

LEMMA TypeFacts ==
  ASSUME TypeInv
  PROVE  /\ made \in Nat /\ depth \in Nat /\ last \in Nat /\ Len(queue) \in Nat
         /\ MaxEdits \in Nat /\ MaxDepth \in Nat
         /\ Shaped(queue, made) /\ Placed(queue, last, clean)
         /\ queue \in Seq(Actions) /\ last \in 1..Len(queue)
         /\ clean \in {Freed, Nowhere} \union 1..Len(queue)
         /\ depth \in 0..MaxDepth /\ made \in 0..MaxEdits
<1>1. /\ Shaped(queue, made) /\ Placed(queue, last, clean)
      /\ depth \in 0..MaxDepth /\ made \in 0..MaxEdits
  BY DEF TypeInv
<1>2. /\ queue \in Seq(Actions) /\ last \in 1..Len(queue)
      /\ clean \in {Freed, Nowhere} \union 1..Len(queue)
  BY <1>1 DEF Shaped, Placed
<1>3. Len(queue) \in Nat
  BY <1>2, LenProperties
<1> QED BY <1>1, <1>2, <1>3, UndoAssumption

-------------------------------------------------------------------------------
(* Every step keeps the invariant.                                         *)
LEMMA StartInv == Init => IInv
<1> SUFFICES ASSUME Init
             PROVE  IInv
  OBVIOUS
<1> DEFINE q == <<Action("init", NoEdit)>>
<1>1. /\ queue = q /\ last = 1 /\ clean \in {1, Nowhere} /\ depth = 0 /\ made = 0
      /\ patch = {} /\ saved = {} /\ ~bug /\ ~aliased
  BY DEF Init
<1>2. Action("init", NoEdit) \in Actions
      /\ Action("init", NoEdit).type = "init" /\ Action("init", NoEdit).edit = NoEdit
  BY DEF Action, Actions, NoEdit
<1>3. q \in Seq(Actions) /\ Len(q) = 1 /\ q[1] = Action("init", NoEdit)
  BY <1>2
<1>4. InTurn(q, 1, 1) = {} /\ Nested(q, 1, 1) = 0
  BY <1>2, OneAction
<1> HIDE DEF q
<1>5. Shaped(q, 0)
  BY <1>2, <1>3 DEF Shaped, Told, InNumberOrder
<1>6. Placed(q, 1, clean)
  BY <1>1, <1>3 DEF Placed
<1>7. TypeInv
  BY <1>1, <1>5, <1>6, UndoAssumption DEF TypeInv
<1>8. Nests(q, 1, 0)
  BY <1>3, <1>4 DEF Nests
<1>9. clean \in 1..Len(q) => clean = 1
  BY <1>3
<1>10. Kept(Here(0), patch, saved, depth)
  BY <1>1, <1>4, <1>8, <1>9, HereFacts DEF Kept
<1>11. CleanIsSaved
  BY <1>1 DEF CleanIsSaved
<1> QED BY <1>1, <1>7, <1>10, <1>11 DEF IInv, KeptInv

LEMMA StepMakeEdit ==
  ASSUME IInv, NEW k \in Kinds, NEW marks \in BOOLEAN, MakeEdit(k, marks)
  PROVE  IInv'
<1> DEFINE n == made + 1
           e == Edit(k, n)
           a == Action("edit", e)
           more == {<<e, e>>}
<1>1. TypeInv /\ KeptInv
  BY DEF IInv
<1>2. /\ made < MaxEdits /\ made' = n /\ dirty' = (dirty \/ marks)
      /\ unmarked' = (unmarked \/ ~(dirty \/ marks))
      /\ depth' = depth /\ saved' = saved /\ bug' = bug
      /\ patch' = AndThen(patch, more)
  BY DEF MakeEdit
<1>3. /\ made \in Nat /\ n \in Nat /\ n > made /\ n \in 1..n /\ made <= n
      /\ n \in 0..MaxEdits /\ depth \in Nat /\ depth \in 0..MaxDepth
      /\ Shaped(queue, made) /\ Placed(queue, last, clean) /\ queue \in Seq(Actions)
  BY <1>1, <1>2, TypeFacts
<1>4. a \in Actions /\ a.type = "edit" /\ a.edit = e /\ e.kind = k /\ e.n = n
  <2>1. a.type = "edit" /\ a.edit = e /\ e.kind = k /\ e.n = n
    BY DEF Action, Edit
  <2> HIDE DEF n
  <2>2. a \in Actions
    BY <1>3, EditAction
  <2> QED BY <2>1, <2>2
<1>5. CleanIsSaved'
  BY <1>2 DEF CleanIsSaved
<1>6. CASE k \in Checked /\ doing
  <2>1. strayed' = TRUE /\ queue' = queue /\ last' = last /\ clean' = clean
    BY <1>6 DEF MakeEdit
  <2>2. Shaped(queue, n)
    <3>1. \A i \in 1..Len(queue) : Told(queue[i], made) => Told(queue[i], n)
      <4> HIDE DEF n
      <4> QED BY <1>3, ToldLater
    <3> HIDE DEF n
    <3> QED BY <1>3, <3>1 DEF Shaped
  <2>3. TypeInv'
    BY <1>2, <1>3, <2>1, <2>2 DEF TypeInv
  <2>4. KeptInv'
    BY <2>1 DEF KeptInv
  <2> QED BY <1>5, <2>3, <2>4 DEF IInv
<1>7. CASE ~(k \in Checked /\ doing)
  <2>1. strayed' = strayed /\ \E take \in 0..1 : Put(Add(Here(take), <<a>>))
    BY <1>7 DEF MakeEdit
  <2>2. PICK take \in 0..1 : Put(Add(Here(take), <<a>>))
    BY <2>1
  <2> DEFINE h == Here(take)
             new == <<a>>
  <2>3. /\ h.queue = queue /\ h.last = last /\ h.clean = clean /\ h.take = take
    BY HereFacts
  <2> HIDE DEF a, e, n
  <2>4. /\ new \in Seq(Actions) /\ Len(new) = 1
        /\ InTurn(new, 1, 1) = more /\ Nested(new, 1, 1) = 0
    BY <1>4, OneAction
  <2>5. Continues(new, made, n)
    <3>1. Told(a, n)
      BY <1>3, <1>4 DEF Told
    <3> QED BY <1>3, <1>4, <3>1, OneContinues
  <2> HIDE DEF h, new, more
  <2>6. h.take \in 0..Len(new)
    BY <2>3, <2>4
  <2>7. /\ Shaped(h.queue, made) /\ Placed(h.queue, h.last, h.clean)
        /\ h.queue \in Seq(Actions)
    BY <1>3, <2>3
  <2>8. /\ Shaped(Add(h, new).queue, n)
        /\ Placed(Add(h, new).queue, Add(h, new).last, Add(h, new).clean)
    BY <1>3, <2>5, <2>6, <2>7, AddShaped
  <2>9. Put(Add(h, new))
    BY <2>2 DEF h, new
  <2>10. TypeInv'
    BY <1>2, <1>3, <2>8, <2>9, PutType
  <2>11. ASSUME ~strayed
         PROVE  Kept(Add(h, new), patch', saved', depth') /\ ~bug'
    <3>1. Kept(h, patch, saved, depth) /\ ~bug
      BY <1>1, <2>11, HereKept DEF h
    <3>2. Records(new, more, depth, depth)
      <4>1. Bears(new, depth)
        BY <1>3, <2>4 DEF Bears
      <4> QED BY <1>3, <2>4, <4>1 DEF Records
    <3>3. Kept(Add(h, new), AndThen(patch, more), saved, depth)
      BY <1>3, <2>4, <2>7, <3>1, <3>2, AddKept
    <3> QED BY <1>2, <3>1, <3>3
  <2>12. KeptInv'
    BY <2>1, <2>9, <2>11, PutKept
  <2> QED BY <1>5, <2>10, <2>12 DEF IInv
<1> QED BY <1>6, <1>7

LEMMA StepBegin == ASSUME IInv, BeginSequence
                   PROVE  IInv'
<1> DEFINE new == <<Start>>
<1>1. TypeInv /\ KeptInv /\ CleanIsSaved
  BY DEF IInv
<1>2. /\ depth < MaxDepth /\ depth' = depth + 1 /\ made' = made /\ dirty' = dirty
      /\ patch' = patch /\ saved' = saved /\ strayed' = strayed
      /\ unmarked' = unmarked /\ bug' = bug
      /\ \E take \in 0..1 : Put(Add(Here(take), new))
  BY DEF BeginSequence
<1>3. /\ made \in Nat /\ depth \in Nat /\ depth + 1 \in 0..MaxDepth /\ made \in 0..MaxEdits
      /\ made <= made
      /\ Shaped(queue, made) /\ Placed(queue, last, clean) /\ queue \in Seq(Actions)
  BY <1>1, <1>2, TypeFacts
<1>4. PICK take \in 0..1 : Put(Add(Here(take), new))
  BY <1>2
<1> DEFINE h == Here(take)
<1>5. /\ h.queue = queue /\ h.last = last /\ h.clean = clean /\ h.take = take
      /\ h.aliased = aliased
  BY HereFacts
<1>6. /\ new \in Seq(Actions) /\ Len(new) = 1 /\ Continues(new, made, made)
      /\ InTurn(new, 1, 1) = {} /\ Nested(new, 1, 1) = 1
  BY <1>3, StartEnd, OneAction
<1> HIDE DEF h, new
<1>7. /\ Shaped(h.queue, made) /\ Placed(h.queue, h.last, h.clean)
      /\ h.queue \in Seq(Actions) /\ h.take \in 0..Len(new) /\ Put(Add(h, new))
  BY <1>3, <1>4, <1>5, <1>6 DEF h
<1>8. /\ Shaped(Add(h, new).queue, made)
      /\ Placed(Add(h, new).queue, Add(h, new).last, Add(h, new).clean)
  BY <1>3, <1>6, <1>7, AddShaped
<1>9. TypeInv'
  BY <1>2, <1>3, <1>7, <1>8, PutType
<1>10. ASSUME ~strayed
       PROVE  Kept(Add(h, new), patch', saved', depth') /\ ~bug'
  <2>1. Kept(h, patch, saved, depth) /\ ~bug
    BY <1>1, <1>10, HereKept DEF h
  <2>2. Bears(new, depth)
    BY <1>3, <1>6 DEF Bears
  <2>3. Records(new, {}, depth, depth')
    BY <1>2, <1>3, <1>6, <2>2 DEF Records
  <2>4. Kept(Add(h, new), AndThen(patch, {}), saved, depth')
    BY <1>3, <1>6, <1>7, <2>1, <2>3, AddKept
  <2> QED BY <1>2, <2>1, <2>4, AndThenNothing
<1>11. KeptInv'
  BY <1>2, <1>7, <1>10, PutKept
<1>12. aliased' = (aliased \/ Reused(h))
  BY <1>5, <1>7 DEF Put, Add
<1>13. CleanIsSaved'
  BY <1>1, <1>2, <1>12 DEF CleanIsSaved
<1> QED BY <1>9, <1>11, <1>13 DEF IInv

LEMMA StepFinish == ASSUME IInv, FinishSequence
                    PROVE  IInv'
<1>1. TypeInv /\ KeptInv /\ CleanIsSaved
  BY DEF IInv
<1>2. /\ depth > 0 /\ depth' = depth - 1 /\ made' = made /\ dirty' = dirty
      /\ patch' = patch /\ saved' = saved /\ strayed' = strayed
      /\ unmarked' = unmarked /\ bug' = bug
      /\ \E take \in 0..1 : Put(EndSequence(Here(take)))
  BY DEF FinishSequence
<1>3. /\ made \in Nat /\ depth \in Nat /\ depth - 1 \in 0..MaxDepth /\ made \in 0..MaxEdits
      /\ Shaped(queue, made) /\ Placed(queue, last, clean)
  BY <1>1, <1>2, TypeFacts
<1>4. PICK take \in 0..1 : Put(EndSequence(Here(take)))
  BY <1>2
<1> DEFINE h == Here(take)
           g == EndSequence(h)
<1>5. /\ h.queue = queue /\ h.last = last /\ h.clean = clean /\ h.take = take
      /\ h.aliased = aliased
  BY HereFacts
<1>6. g.aliased = aliased \/ g.aliased = (aliased \/ Reused(h))
  BY <1>5 DEF EndSequence, Add
<1> HIDE DEF h
<1>7. /\ Shaped(h.queue, made) /\ Placed(h.queue, h.last, h.clean)
      /\ h.take \in 0..1 /\ Put(g)
  BY <1>3, <1>4, <1>5 DEF h
<1>8. Shaped(g.queue, made) /\ Placed(g.queue, g.last, g.clean)
  BY <1>3, <1>7, EndShaped
<1>9. ASSUME ~strayed
      PROVE  Kept(g, patch', saved', depth') /\ ~bug'
  <2>1. Kept(h, patch, saved, depth) /\ ~bug
    BY <1>1, <1>9, HereKept DEF h
  <2>2. Kept(g, patch, saved, depth - 1)
    BY <1>2, <1>3, <1>7, <2>1, EndKept
  <2> QED BY <1>2, <2>1, <2>2
<1> HIDE DEF g
<1>10. TypeInv'
  BY <1>2, <1>3, <1>7, <1>8, PutType
<1>11. KeptInv'
  BY <1>2, <1>7, <1>9, PutKept
<1>12. aliased' = aliased \/ aliased' = (aliased \/ Reused(h))
  BY <1>6, <1>7 DEF Put
<1>13. CleanIsSaved'
  BY <1>1, <1>2, <1>12 DEF CleanIsSaved
<1> QED BY <1>10, <1>11, <1>13 DEF IInv

LEMMA StepType == ASSUME IInv, Type
                  PROVE  IInv'
<1>1. /\ dirty' = TRUE
      /\ queue' = queue /\ last' = last /\ clean' = clean /\ depth' = depth /\ made' = made
      /\ patch' = patch /\ saved' = saved /\ strayed' = strayed /\ aliased' = aliased
      /\ bug' = bug
  BY DEF Type
<1>2. TypeInv'
  BY <1>1 DEF IInv, TypeInv
<1>3. KeptInv'
  BY <1>1 DEF IInv, KeptInv, Here
<1>4. CleanIsSaved'
  BY <1>1 DEF CleanIsSaved
<1> QED BY <1>2, <1>3, <1>4 DEF IInv

LEMMA StepDeselect == ASSUME IInv, Deselect
                      PROVE  IInv'
<1> DEFINE m == made + Len(Typing)
<1>1. TypeInv /\ KeptInv
  BY DEF IInv
<1>2. /\ depth = 0 /\ depth' = depth /\ m <= MaxEdits /\ made' = m
      /\ patch' = AndThen(patch, TypedEdits) /\ saved' = saved
      /\ strayed' = strayed /\ bug' = bug
      /\ dirty' = dirty /\ unmarked' = (unmarked \/ ~dirty)
      /\ \E take \in TypedTakes : Put(Typed(Here(take)))
  BY DEF Deselect, MayType
<1>3. /\ made \in Nat /\ 0 \in 0..MaxDepth /\ m \in 0..MaxEdits
      /\ Shaped(queue, made) /\ Placed(queue, last, clean)
  BY <1>1, <1>2, TypeFacts, UndoAssumption, LenProperties
<1>4. PICK take \in TypedTakes : Put(Typed(Here(take)))
  BY <1>2
<1> DEFINE h == Here(take)
           g == Typed(h)
<1>5. /\ h.queue = queue /\ h.last = last /\ h.clean = clean /\ h.take = take
  BY HereFacts
<1> HIDE DEF h
<1>6. /\ Shaped(h.queue, made) /\ Placed(h.queue, h.last, h.clean)
      /\ h.take \in TypedTakes /\ Put(g)
  BY <1>3, <1>4, <1>5 DEF h
<1>7. /\ Shaped(g.queue, m) /\ Placed(g.queue, g.last, g.clean)
      /\ \A p, sv : Kept(h, p, sv, 0) => Kept(g, AndThen(p, TypedEdits), sv, 0)
  BY <1>3, <1>6, TypedAdds
<1> HIDE DEF g, m
<1>8. TypeInv'
  BY <1>2, <1>3, <1>6, <1>7, PutType
<1>9. ASSUME ~strayed
      PROVE  Kept(g, patch', saved', depth') /\ ~bug'
  <2>1. Kept(h, patch, saved, 0) /\ ~bug
    BY <1>1, <1>2, <1>9, HereKept DEF h
  <2> QED BY <1>2, <1>7, <2>1
<1>10. KeptInv'
  BY <1>2, <1>6, <1>9, PutKept
<1>11. CleanIsSaved'
  BY <1>2 DEF CleanIsSaved
<1> QED BY <1>8, <1>10, <1>11 DEF IInv

LEMMA StepSave == ASSUME IInv, Save
                  PROVE  IInv'
<1>1. /\ clean' = last /\ saved' = patch /\ ~aliased'
      /\ queue' = queue /\ last' = last /\ depth' = depth /\ made' = made
      /\ patch' = patch /\ strayed' = strayed /\ bug' = bug
  BY DEF Save
<1>2. TypeInv'
  BY <1>1 DEF IInv, TypeInv, Placed
<1>3. ASSUME ~strayed
      PROVE  Kept(Here(0)', patch', saved', depth') /\ ~bug'
  <2>1. Kept(Here(0), patch, saved, depth) /\ ~bug
    BY <1>3 DEF IInv, KeptInv
  <2>2. /\ Here(0)'.queue = queue /\ Here(0)'.last = last
        /\ Here(0)'.clean = last
        /\ Here(0).queue = queue /\ Here(0).last = last
    BY <1>1 DEF Here
  <2> QED BY <1>1, <2>1, <2>2 DEF Kept
<1>4. KeptInv'
  BY <1>1, <1>3 DEF KeptInv
<1>5. CleanIsSaved'
  BY <1>1 DEF CleanIsSaved
<1> QED BY <1>2, <1>4, <1>5 DEF IInv

(* One undo, of a queue h and a patch p a typed text may just be added to. *)
Whole(h) == h = [queue |-> h.queue, last |-> h.last, clean |-> h.clean,
                 aliased |-> h.aliased, take |-> h.take]

LEMMA MovedFacts ==
  ASSUME NEW h, Whole(h), NEW i
  PROVE  /\ [h EXCEPT !.last = i].queue = h.queue /\ [h EXCEPT !.last = i].last = i
         /\ [h EXCEPT !.last = i].clean = h.clean
         /\ [h EXCEPT !.last = i].aliased = h.aliased
<1> DEFINE q == h.queue
           l == h.last
           c == h.clean
           a == h.aliased
           t == h.take
           g == [queue |-> q, last |-> l, clean |-> c, aliased |-> a, take |-> t]
<1>1. h = g
  BY DEF Whole
<1> HIDE DEF q, l, c, a, t
<1>2. /\ [g EXCEPT !.last = i].queue = q /\ [g EXCEPT !.last = i].last = i
      /\ [g EXCEPT !.last = i].clean = c /\ [g EXCEPT !.last = i].aliased = a
  OBVIOUS
<1> HIDE DEF g
<1> QED BY <1>1, <1>2 DEF q, c, a

LEMMA ShapedApart == ASSUME NEW q, NEW n \in Nat, Shaped(q, n), NEW j \in 0..Len(q)
                     PROVE  Apart(q, j)
<1>1. /\ q \in Seq(Actions) /\ InNumberOrder(q)
      /\ \A k \in 1..Len(q) : Told(q[k], n)
  BY DEF Shaped
<1>2. Len(q) \in Nat
  BY <1>1, LenProperties
<1>3. SUFFICES ASSUME NEW k \in 1..j, NEW m \in 1..j, q[k].type = "edit",
                      q[m].type = "edit", q[k].edit = q[m].edit, k < m
               PROVE  FALSE
  <2>1. \A k, m \in 1..j : k < m \/ m < k \/ k = m
    BY <1>2
  <2> QED BY <1>3, <2>1 DEF Apart
<1>4. k \in 1..Len(q) /\ m \in 1..Len(q)
  BY <1>2
<1>5. q[k].edit.n < q[m].edit.n
  BY <1>1, <1>3, <1>4 DEF InNumberOrder
<1>6. q[k].edit.n \in 1..n /\ q[k].edit.n = q[m].edit.n
  BY <1>1, <1>3, <1>4 DEF Told
<1> QED BY <1>5, <1>6

(* To go back to before i takes back the edits from i on.                  *)
LEMMA BackKept ==
  ASSUME NEW h, NEW p, NEW sv, NEW n \in Nat, Shaped(h.queue, n),
         Placed(h.queue, h.last, h.clean), Kept(h, p, sv, 0),
         NEW i \in 2..h.last, Nested(h.queue, 1, i - 1) = 0,
         NEW g, g.queue = h.queue, g.last = i - 1, g.clean = h.clean,
         g.aliased = h.aliased
  PROVE  Kept(g, Without(p, EditsAt(h.queue, i, h.last)), sv, 0)
<1> DEFINE q == h.queue
           l == h.last
           c == h.clean
<1>1. q \in Seq(Actions) /\ l \in 1..Len(q) /\ Shaped(q, n)
  BY DEF Shaped, Placed
<1>2. Len(q) \in Nat /\ l \in Nat
  BY <1>1, LenProperties
<1>3. /\ \A k \in 1..Len(q) : Nested(q, 1, k) >= 0
      /\ Nested(q, 1, Len(q)) = 0
      /\ p = InTurn(q, 1, l)
      /\ ~h.aliased /\ c \in 1..Len(q) => sv = InTurn(q, 1, c)
  BY DEF Kept, Nests
<1>4. i \in 1..(l + 1) /\ Nested(q, 1, i - 1) = 0 /\ l \in 0..Len(q)
  BY <1>1, <1>2
<1> HIDE DEF q, l
<1>5. Apart(q, l)
  BY <1>1, <1>4, ShapedApart
<1>6. Without(InTurn(q, 1, l), EditsAt(q, i, l)) = InTurn(q, 1, i - 1)
  BY <1>2, <1>4, <1>5, WithoutTail
<1> QED BY <1>3, <1>4, <1>6 DEF Kept, Nests, q, l

(* It moves within the queue, keeps the history, and where it leaves the   *)
(* window unmarked the patch is the saved one, or nothing was done.        *)
LEMMA UndoneKeeps ==
  ASSUME NEW h, NEW p, NEW refused, NEW n \in Nat, Whole(h),
         Shaped(h.queue, n), Placed(h.queue, h.last, h.clean), h.last # 1,
         ~strayed => Kept(h, p, saved, 0) /\ ~bug,
         saved' = saved, UndoneWith(h, p, refused)
  PROVE  /\ queue' = h.queue /\ clean' = h.clean /\ aliased' = h.aliased
         /\ last' \in 1..Len(h.queue)
         /\ ~strayed' => Kept(Here(0)', patch', saved, 0) /\ ~bug'
         /\ \/ ~dirty' /\ ~strayed' /\ ~aliased' => patch' = saved
            \/ /\ patch' = p /\ strayed' = strayed /\ dirty' = dirty
               /\ unmarked' = (unmarked \/ (typing /\ ~dirty))
<1> DEFINE q == h.queue
           l == h.last
           a == q[l]
           i == IF a.type = "end" THEN StartOf(q, l) ELSE l
           back == [h EXCEPT !.last = i]
           before == [h EXCEPT !.last = i - 1]
           undone == EditsAt(q, i, l)
           kept == {e \in undone : e.kind \in Fallible /\ e \in refused}
           refuse == q[i].type = "init" \/ (a.type = "edit" /\ a.edit.kind \in Fallible
                                                            /\ a.edit \in refused)
<1>1. /\ q \in Seq(Actions) /\ q[1].type = "init" /\ l \in 1..Len(q)
      /\ h.clean \in {Freed, Nowhere} \union 1..Len(q)
  BY DEF Shaped, Placed
<1>2. Len(q) \in Nat /\ l \in 2..Len(q) /\ l \in Nat /\ l >= 2
  BY <1>1, LenProperties
<1>3. i \in 1..l
  <2>1. StartOf(q, l) \in 1..(l - 1)
    BY <1>2, StartOfFacts
  <2> QED BY <1>2, <2>1
<1>4. /\ bug' = (bug \/ (a.type = "end" /\ ~Balanced(q, i, l)))
      /\ refuse => GiveUp(back, p)
      /\ ~refuse => UndoTo(h, p, i, refused)
  BY DEF UndoneWith
<1>5. /\ back.queue = q /\ back.last = i /\ back.clean = h.clean
      /\ back.aliased = h.aliased
      /\ before.queue = q /\ before.last = i - 1 /\ before.clean = h.clean
      /\ before.aliased = h.aliased
  <2> HIDE DEF i
  <2> QED BY MovedFacts
<1>6. ASSUME ~strayed
      PROVE  /\ i >= 2 /\ Nested(q, 1, i - 1) = 0
             /\ ~(a.type = "end" /\ ~Balanced(q, i, l))
             /\ refuse => i = l
  <2>1. Nests(q, l, 0) /\ Shaped(q, n)
    BY <1>6 DEF Kept
  <2>2. /\ a.type \in {"edit", "end"}
        /\ a.type = "edit" => Nested(q, 1, l - 1) = 0
        /\ a.type = "end" =>
             /\ StartOf(q, l) \in 2..(l - 1) /\ Balanced(q, StartOf(q, l), l)
             /\ Nested(q, 1, StartOf(q, l) - 1) = 0
    <3> HIDE DEF q, l
    <3> QED BY <1>2, <2>1, UndoFinds DEF a
  <2>3. i >= 2 /\ Nested(q, 1, i - 1) = 0 /\ ~(a.type = "end" /\ ~Balanced(q, i, l))
    BY <1>2, <2>2
  <2>4. q[i].type # "init"
    <3>1. \A k \in 2..Len(q) : q[k].type # "init"
      BY DEF Shaped
    <3>2. i \in 2..Len(q)
      BY <1>2, <1>3, <2>3
    <3> QED BY <3>1, <3>2
  <2>5. refuse => i = l
    BY <2>4
  <2> QED BY <2>3, <2>5
<1>7. CASE refuse
  <2>1. /\ patch' = p /\ Put(back)
        /\ strayed' = strayed /\ dirty' = dirty
        /\ unmarked' = (unmarked \/ (typing /\ ~dirty))
    BY <1>4, <1>7 DEF GiveUp
  <2>2. queue' = q /\ last' = i /\ clean' = h.clean /\ aliased' = h.aliased
    <3> HIDE DEF back, q, i
    <3> QED BY <1>5, <2>1 DEF Put
  <2>3. ASSUME ~strayed
        PROVE  Kept(Here(0)', patch', saved, 0) /\ ~bug'
    <3>1. i = l /\ ~bug'
      BY <1>4, <1>6, <1>7, <2>3
    <3>2. /\ Here(0)'.queue = h.queue /\ Here(0)'.last = h.last
          /\ Here(0)'.clean = h.clean /\ Here(0)'.aliased = h.aliased
      BY <2>2, <3>1 DEF Here
    <3>3. Kept(h, p, saved, 0)
      BY <2>3
    <3> HIDE DEF q, l, i
    <3> QED BY <2>1, <3>1, <3>2, <3>3 DEF Kept
  <2>4. last' \in 1..Len(q)
    <3> HIDE DEF i, q, l
    <3> QED BY <1>2, <1>3, <2>2
  <2> HIDE DEF i
  <2> QED BY <2>1, <2>2, <2>3, <2>4
<1>8. CASE ~refuse
  <2>1. /\ patch' = Without(p, undone \ kept)
        /\ strayed' = (strayed \/ kept # {})
        /\ Put(before)
        /\ dirty' = IsDirty(before)
    BY <1>4, <1>8 DEF UndoTo
  <2>2. queue' = q /\ last' = i - 1 /\ clean' = h.clean /\ aliased' = h.aliased
        /\ dirty' = (last' # clean')
    <3> HIDE DEF before, q, i
    <3> QED BY <1>5, <2>1 DEF Put, IsDirty
  <2>3. last' \in 1..Len(q)
    <3>1. i # 1
      BY <1>1, <1>8
    <3> HIDE DEF i, q, l
    <3> QED BY <1>2, <1>3, <2>2, <3>1
  <2>4. ASSUME ~strayed'
        PROVE  Kept(Here(0)', patch', saved, 0) /\ ~bug'
    <3>1. ~strayed /\ kept = {}
      BY <2>1, <2>4
    <3>2. undone \ kept = undone
      BY <3>1
    <3>3. patch' = Without(p, EditsAt(h.queue, i, h.last))
      BY <2>1, <3>2
    <3>4. Kept(h, p, saved, 0) /\ ~bug
      BY <3>1
    <3>5. i >= 2 /\ Nested(q, 1, i - 1) = 0 /\ ~bug'
      BY <1>4, <1>6, <3>1, <3>4
    <3> DEFINE g == Here(0)'
    <3>6. /\ g.queue = h.queue /\ g.last = i - 1
          /\ g.clean = h.clean /\ g.aliased = h.aliased
      BY <2>2 DEF Here
    <3>7. i \in 2..h.last
      BY <1>2, <1>3, <3>5
    <3>8. Nested(h.queue, 1, i - 1) = 0
      BY <3>5
    <3> HIDE DEF g, i, q, l, kept, undone
    <3>9. Kept(g, Without(p, EditsAt(h.queue, i, h.last)), saved, 0)
      BY <3>4, <3>6, <3>7, <3>8, BackKept
    <3> QED BY <3>3, <3>5, <3>9 DEF g
  <2>5. ASSUME ~dirty', ~strayed', ~aliased'
        PROVE  patch' = saved
    <3>1. Kept(Here(0)', patch', saved, 0)
      BY <2>4, <2>5
    <3>2. /\ Here(0)'.queue = queue' /\ Here(0)'.last = last'
          /\ Here(0)'.clean = clean' /\ Here(0)'.aliased = aliased'
      BY DEF Here
    <3>3. last' = clean' /\ clean' \in 1..Len(queue')
      BY <2>2, <2>3, <2>5
    <3> HIDE DEF q, l, i
    <3> QED BY <2>5, <3>1, <3>2, <3>3 DEF Kept
  <2> HIDE DEF i
  <2> QED BY <2>2, <2>3, <2>4, <2>5
<1> QED BY <1>7, <1>8

LEMMA StepUndo == ASSUME IInv, Undo
                  PROVE  IInv'
<1> DEFINE H(take) == IF typing THEN Typed(Here(take)) ELSE Here(take)
           p == IF typing THEN AndThen(patch, TypedEdits) ELSE patch
           n == IF typing THEN made + Len(Typing) ELSE made
<1>1. TypeInv /\ KeptInv /\ CleanIsSaved
  BY DEF IInv
<1>2. /\ depth = 0 /\ depth' = depth /\ last # 1 /\ saved' = saved
      /\ made' = n /\ (typing => MayType)
      /\ \E take \in IF typing THEN TypedTakes ELSE {0} :
           \E refused : UndoneWith(H(take), p, refused)
  <2>1. \E take \in IF typing THEN TypedTakes ELSE {0} :
          \E refused \in SUBSET {e \in EditsAt(H(take).queue, 1, H(take).last) :
                                   e.kind \in Fallible} :
            UndoneWith(H(take), p, refused)
    BY DEF Undo
  <2> HIDE DEF H, p
  <2> QED BY <2>1 DEF Undo
<1>3. /\ made \in Nat /\ depth \in 0..MaxDepth /\ made \in 0..MaxEdits /\ MaxEdits \in Nat
      /\ Shaped(queue, made) /\ Placed(queue, last, clean)
  BY <1>1, TypeFacts
<1>4. Len(Typing) \in Nat
  BY UndoAssumption, LenProperties
<1>5. n \in Nat /\ n \in 0..MaxEdits
  <2>1. MayType => made + Len(Typing) <= MaxEdits
    BY DEF MayType
  <2> QED BY <1>2, <1>3, <1>4, <2>1
<1>6. PICK take \in IF typing THEN TypedTakes ELSE {0} :
        \E refused : UndoneWith(H(take), p, refused)
  BY <1>2
<1>7. PICK refused : UndoneWith(H(take), p, refused)
  BY <1>6
<1> DEFINE h == H(take)
<1>8. /\ Here(take).queue = queue /\ Here(take).last = last
      /\ Here(take).clean = clean /\ Here(take).take = take
      /\ Here(take).aliased = aliased
  BY HereFacts
<1>9. Whole(h)
  <2>1. Whole(Here(take))
    BY DEF Whole, Here
  <2>2. Whole(Typed(Here(take)))
    BY DEF Whole, Typed, Add
  <2> QED BY <2>1, <2>2
<1>10. /\ Shaped(h.queue, n) /\ Placed(h.queue, h.last, h.clean) /\ h.last # 1
       /\ Kept(Here(take), patch, saved, 0) => Kept(h, p, saved, 0)
  <2>1. CASE typing
    <3>1. take \in TypedTakes
      BY <2>1
    <3> DEFINE f == Here(take)
    <3>2. Shaped(f.queue, made) /\ Placed(f.queue, f.last, f.clean) /\ f.take \in TypedTakes
      BY <1>3, <1>8, <3>1
    <3> HIDE DEF f
    <3>3. /\ Shaped(Typed(f).queue, made + Len(Typing))
          /\ Placed(Typed(f).queue, Typed(f).last, Typed(f).clean)
          /\ Typed(f).last # 1
          /\ \A o, sv : Kept(f, o, sv, 0) => Kept(Typed(f), AndThen(o, TypedEdits), sv, 0)
      BY <1>3, <3>2, TypedAdds
    <3>4. h = Typed(f) /\ p = AndThen(patch, TypedEdits) /\ n = made + Len(Typing)
      BY <2>1 DEF f
    <3> HIDE DEF h, p, n
    <3> QED BY <3>3, <3>4 DEF f
  <2>2. CASE ~typing
    <3>1. h = Here(take) /\ p = patch /\ n = made
      BY <2>2
    <3> HIDE DEF h, p, n
    <3> QED BY <1>2, <1>3, <1>8, <3>1
  <2> QED BY <2>1, <2>2
<1>11. ~strayed => Kept(h, p, saved, 0) /\ ~bug
  <2>1. ASSUME ~strayed
        PROVE  Kept(Here(take), patch, saved, 0) /\ ~bug
    <3>1. Kept(Here(take), patch, saved, depth) /\ ~bug
      BY <1>1, <2>1, HereKept
    <3> QED BY <1>2, <3>1
  <2> HIDE DEF h, p
  <2> QED BY <1>10, <2>1
<1>12. UndoneWith(h, p, refused)
  BY <1>7
<1>13. ~typing => p = patch /\ h.aliased = aliased
  BY <1>8
<1> HIDE DEF h, p, n, H
<1>14. /\ queue' = h.queue /\ clean' = h.clean /\ aliased' = h.aliased
       /\ last' \in 1..Len(h.queue)
       /\ ~strayed' => Kept(Here(0)', patch', saved, 0) /\ ~bug'
       /\ \/ ~dirty' /\ ~strayed' /\ ~aliased' => patch' = saved
          \/ /\ patch' = p /\ strayed' = strayed /\ dirty' = dirty
             /\ unmarked' = (unmarked \/ (typing /\ ~dirty))
  BY <1>2, <1>5, <1>9, <1>10, <1>11, <1>12, UndoneKeeps
<1>15. TypeInv'
  BY <1>2, <1>3, <1>5, <1>10, <1>14 DEF TypeInv, Placed
<1>16. KeptInv'
  BY <1>2, <1>14 DEF KeptInv
<1>17. CleanIsSaved'
  <2>1. CASE ~dirty' /\ ~strayed' /\ ~aliased' => patch' = saved
    BY <1>2, <2>1 DEF CleanIsSaved
  <2>2. CASE /\ patch' = p /\ strayed' = strayed /\ dirty' = dirty
             /\ unmarked' = (unmarked \/ (typing /\ ~dirty))
    <3>1. SUFFICES ASSUME ~dirty', ~strayed', ~aliased', ~unmarked'
                   PROVE  patch' = saved'
      BY DEF CleanIsSaved
    <3>2. ~dirty /\ ~strayed /\ ~unmarked /\ ~typing
      BY <2>2, <3>1
    <3>3. ~aliased /\ patch' = patch
      BY <1>13, <1>14, <2>2, <3>1, <3>2
    <3> QED BY <1>1, <1>2, <3>2, <3>3 DEF CleanIsSaved
  <2> QED BY <1>14, <2>1, <2>2
<1> QED BY <1>15, <1>16, <1>17 DEF IInv

(* What is redone is applied on top of what was.                           *)
LEMMA RedoneKeeps == ASSUME IInv, depth = 0, last < Len(queue), RedoNext,
                            saved' = saved, depth' = depth
                     PROVE  IInv'
<1> DEFINE start == queue[last + 1].type = "start"
           j == IF start THEN EndOf(queue, last + 1) ELSE last + 1
           h == [Here(0) EXCEPT !.last = j]
           paired == ~(start /\ ~Balanced(queue, last + 1, j))
<1>1. TypeInv /\ KeptInv
  BY DEF IInv
<1>2. /\ made \in Nat /\ last \in Nat /\ Len(queue) \in Nat /\ last \in 1..Len(queue)
      /\ depth \in 0..MaxDepth /\ made \in 0..MaxEdits
      /\ Shaped(queue, made) /\ Placed(queue, last, clean)
  BY <1>1, TypeFacts
<1>3. last + 1 \in Nat /\ last + 1 <= Len(queue) /\ last \in 1..(Len(queue) - 1)
  BY <1>2
<1>4. j \in (last + 1)..Len(queue)
  <2>1. EndOf(queue, last + 1) \in (last + 1)..Len(queue)
    BY <1>2, <1>3, EndOfFacts
  <2> QED BY <1>3, <2>1
<1>5. /\ patch' = AndThen(patch, InTurn(queue, last + 1, j)) /\ Put(h)
      /\ dirty' = IsDirty(h)
      /\ bug' = (bug \/ ~paired) /\ strayed' = (strayed \/ ~paired) /\ made' = made
  BY DEF RedoNext, RedoTo
<1>6. h.queue = queue /\ h.last = j /\ h.clean = clean /\ h.aliased = aliased
  <2> HIDE DEF j
  <2> QED BY DEF Here
<1>7. queue' = queue /\ last' = j /\ clean' = clean /\ aliased' = aliased
      /\ dirty' = (last' # clean')
  <2> HIDE DEF h, j
  <2> QED BY <1>5, <1>6 DEF Put, IsDirty
<1>8. TypeInv'
  <2> HIDE DEF j, h, paired
  <2> QED BY <1>2, <1>4, <1>5, <1>7 DEF TypeInv, Placed
<1>9. ASSUME ~strayed'
      PROVE  Kept(Here(0)', patch', saved, 0) /\ ~bug'
  <2>1. ~strayed /\ paired
    BY <1>5, <1>9
  <2>2. Kept(Here(0), patch, saved, 0) /\ ~bug
    BY <1>1, <2>1 DEF KeptInv
  <2>3. Nests(queue, last, 0) /\ patch = InTurn(queue, 1, last)
        /\ (~aliased /\ clean \in 1..Len(queue) => saved = InTurn(queue, 1, clean))
    BY <2>2, HereFacts DEF Kept
  <2>4. /\ queue[last + 1].type \in {"edit", "start"}
        /\ queue[last + 1].type = "edit" => Nested(queue, 1, last + 1) = 0
        /\ queue[last + 1].type = "start" => Nested(queue, 1, EndOf(queue, last + 1)) = 0
    BY <1>2, <1>3, <2>3, RedoFinds
  <2>5. Nested(queue, 1, j) = 0
    BY <2>4
  <2> HIDE DEF j, h, start
  <2>6. j \in Nat /\ last <= j
    BY <1>2, <1>4
  <2>7. InTurn(queue, 1, j) = AndThen(InTurn(queue, 1, last), InTurn(queue, last + 1, j))
    BY <1>2, <2>6, InTurnSplit
  <2>8. patch' = InTurn(queue, 1, j)
    BY <1>5, <2>3, <2>7
  <2>9. /\ Here(0)'.queue = queue /\ Here(0)'.last = j
        /\ Here(0)'.clean = clean /\ Here(0)'.aliased = aliased
    BY <1>7 DEF Here
  <2>10. Nests(queue, j, 0)
    BY <2>3, <2>5 DEF Nests
  <2>11. ~bug'
    BY <1>5, <2>1, <2>2
  <2> QED BY <2>3, <2>8, <2>9, <2>10, <2>11 DEF Kept
<1>10. ASSUME ~dirty', ~strayed', ~aliased'
       PROVE  patch' = saved
  <2>1. Kept(Here(0)', patch', saved, 0)
    BY <1>9, <1>10
  <2>2. /\ Here(0)'.queue = queue' /\ Here(0)'.last = last'
        /\ Here(0)'.clean = clean' /\ Here(0)'.aliased = aliased'
    BY DEF Here
  <2> HIDE DEF j
  <2>3. j \in 1..Len(queue)
    BY <1>2, <1>4
  <2>4. last' = clean'
    BY <1>7, <1>10
  <2>5. clean' \in 1..Len(queue')
    BY <1>7, <2>3, <2>4
  <2> QED BY <1>10, <2>1, <2>2, <2>4, <2>5 DEF Kept
<1>11. KeptInv'
  BY <1>9 DEF KeptInv
<1>12. CleanIsSaved'
  BY <1>10 DEF CleanIsSaved
<1> QED BY <1>8, <1>11, <1>12 DEF IInv

LEMMA StepRedo == ASSUME IInv, Redo
                  PROVE  IInv'
<1>1. TypeInv /\ KeptInv
  BY DEF IInv
<1>2. depth = 0 /\ last < Len(queue) /\ depth' = depth /\ saved' = saved
  BY DEF Redo
<1>3. CASE ~typing
  <2>1. RedoNext
    BY <1>3 DEF Redo
  <2> QED BY <1>2, <2>1, RedoneKeeps
<1>4. CASE typing
  <2> DEFINE m == made + Len(Typing)
  <2>1. PICK take \in TypedTakes :
          /\ m <= MaxEdits /\ Put(Typed([Here(take) EXCEPT !.last = last + 1]))
          /\ strayed' = TRUE /\ made' = m
    BY <1>4 DEF Redo, RedoTyped, MayType
  <2> DEFINE h == [Here(take) EXCEPT !.last = last + 1]
             g == Typed(h)
  <2>2. h.queue = queue /\ h.last = last + 1 /\ h.clean = clean /\ h.take = take
    BY DEF Here
  <2>3. /\ made \in Nat /\ Len(queue) \in Nat /\ last \in 1..Len(queue)
        /\ depth \in 0..MaxDepth /\ MaxEdits \in Nat
        /\ Shaped(queue, made) /\ clean \in {Freed, Nowhere} \union 1..Len(queue)
    BY <1>1, TypeFacts
  <2>4. last + 1 \in 1..Len(queue)
    BY <1>2, <2>3
  <2> HIDE DEF h
  <2>5. Shaped(h.queue, made) /\ Placed(h.queue, h.last, h.clean) /\ h.take \in TypedTakes
    BY <2>2, <2>3, <2>4 DEF Placed
  <2>6. Shaped(g.queue, m) /\ Placed(g.queue, g.last, g.clean)
    BY <2>3, <2>5, TypedAdds
  <2>7. m \in 0..MaxEdits /\ Put(g)
    BY <2>1, <2>3, UndoAssumption, LenProperties DEF h
  <2> HIDE DEF g, m
  <2>8. TypeInv'
    BY <1>2, <2>1, <2>3, <2>6, <2>7, PutType
  <2>9. KeptInv' /\ CleanIsSaved'
    BY <2>1 DEF KeptInv, CleanIsSaved
  <2> QED BY <2>8, <2>9 DEF IInv
<1> QED BY <1>3, <1>4

LEMMA StepStutter == ASSUME IInv, UNCHANGED vars
                     PROVE  IInv'
BY DEF vars, IInv, TypeInv, KeptInv, CleanIsSaved, Here

LEMMA StepInv == ASSUME IInv, [Next]_vars
                 PROVE  IInv'
BY StepMakeEdit, StepBegin, StepFinish, StepType, StepDeselect, StepSave, StepUndo,
   StepRedo, StepStutter DEF Next

LEMMA Invariance == Spec => []IInv
<1>1. Init => IInv
  BY StartInv
<1>2. IInv /\ [Next]_vars => IInv'
  BY StepInv
<1> QED BY <1>1, <1>2, PTL DEF Spec

-------------------------------------------------------------------------------
(* The queue begins with its only init action, u_last and u_cleanstate are *)
(* in it, and no edit is recorded twice, whatever is called in what order  *)
(* (canvas_undo_add, _undo, _redo, _rebranch).                             *)
THEOREM TypeCorrect == Spec => []TypeOK
<1>1. ASSUME TypeInv
      PROVE  TypeOK
  <2>1. /\ made \in Nat /\ Len(queue) \in Nat /\ queue \in Seq(Actions)
        /\ last \in 1..Len(queue) /\ clean \in {Freed, Nowhere} \union 1..Len(queue)
        /\ depth \in 0..MaxDepth /\ made \in 0..MaxEdits
    BY <1>1, TypeFacts
  <2>2. /\ queue[1].type = "init" /\ InNumberOrder(queue)
        /\ \A k \in 2..Len(queue) : queue[k].type # "init"
        /\ \A k \in 1..Len(queue) : Told(queue[k], made)
    BY <1>1 DEF TypeInv, Shaped
  <2>3. DOMAIN queue = 1..Len(queue)
    BY <2>1, LenProperties
  <2>4. ASSUME NEW i \in 2..Len(queue)
        PROVE  queue[i].type \in {"start", "end", "edit"}
    <3>1. queue[i] \in Actions
      BY <2>1, ElementOfSeq
    <3> QED BY <2>2, <3>1 DEF Actions
  <2>5. ASSUME NEW i \in 1..Len(queue), NEW j \in 1..Len(queue), i # j,
               queue[i].edit = queue[j].edit, queue[i].edit # NoEdit
        PROVE  FALSE
    <3>1. queue[i].type = "edit" /\ queue[j].type = "edit"
      BY <2>2, <2>5 DEF Told
    <3>2. queue[i].edit.n \in 1..made /\ queue[i].edit.n = queue[j].edit.n
      BY <2>2, <2>5, <3>1 DEF Told
    <3>3. i < j \/ j < i
      BY <2>1, <2>5
    <3>4. queue[i].edit.n < queue[j].edit.n \/ queue[j].edit.n < queue[i].edit.n
      BY <2>2, <3>1, <3>3 DEF InNumberOrder
    <3> QED BY <3>2, <3>4
  <2> QED BY <2>1, <2>2, <2>3, <2>4, <2>5 DEF TypeOK
<1>2. IInv => TypeOK
  BY <1>1 DEF IInv
<1> QED BY <1>2, Invariance, PTL

(* As long as nothing is done behind the queue's back, the patch holds the *)
(* edits the queue tells of up to u_last, applied in that order: undo takes*)
(* back what was applied last, a new edit throws away what was undone, and *)
(* no nesting, typing or saving comes in between.                          *)
THEOREM PatchFollowsQueue == Spec => []PatchIsHistory
<1>1. ASSUME IInv
      PROVE  PatchIsHistory
  <2>1. ASSUME ~strayed
        PROVE  patch = InTurn(queue, 1, last)
    <3>1. Kept(Here(0), patch, saved, depth)
      BY <1>1, <2>1 DEF IInv, KeptInv
    <3> QED BY <3>1, HereFacts DEF Kept
  <2> QED BY <2>1 DEF PatchIsHistory
<1> QED BY <1>1, Invariance, PTL

(* And between the editor's operations neither u_last nor the end of the   *)
(* queue is inside a sequence, so an undo or a redo takes whole ones.      *)
THEOREM NoSequenceCutApart == Spec => []WholeSequences
<1>1. ASSUME IInv
      PROVE  WholeSequences
  <2>1. ASSUME ~strayed, depth = 0
        PROVE  /\ \A k \in 1..Len(queue) : Nested(queue, 1, k) >= 0
               /\ Balanced(queue, 1, last) /\ Balanced(queue, 1, Len(queue))
    <3>1. Kept(Here(0), patch, saved, depth)
      BY <1>1, <2>1 DEF IInv, KeptInv
    <3>2. Nests(queue, last, 0)
      BY <2>1, <3>1, HereFacts DEF Kept
    <3> QED BY <3>2 DEF Nests, Balanced
  <2> QED BY <2>1 DEF WholeSequences
<1> QED BY <1>1, Invariance, PTL

(* A window that is not marked as changed holds the patch that was saved,  *)
(* u_cleanstate being the place of it in the queue, but for the three cases*)
(* the property names.                                                     *)
THEOREM UnmarkedIsSaved == Spec => []CleanIsSaved
<1>1. IInv => CleanIsSaved
  BY DEF IInv
<1> QED BY <1>1, Invariance, PTL

(* canvas_undo_undo and canvas_undo_redo report an unpaired sequence       *)
(* (g_undo.c, the four calls of bug()) only of a queue that something was  *)
(* done behind the back of.                                                *)
THEOREM UnpairedOnlyAstray == Spec => [](~strayed => ~bug)
<1>1. IInv => (~strayed => ~bug)
  BY DEF IInv, KeptInv
<1> QED BY <1>1, Invariance, PTL
===============================================================================
