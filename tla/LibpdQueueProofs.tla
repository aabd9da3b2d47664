--------------------------- MODULE LibpdQueueProofs ---------------------------
(* Proofs about a queue of libpd for every size of the ring, every number  *)
(* of arguments and every interleaving of the two threads: messages come   *)
(* out whole and in order, and the safety part of the promise is kept.     *)
EXTENDS LibpdQueue, FiniteSetTheorems, TLAPS

(* The ring as the words between its indices.                              *)
Place(r, i) == IF r + i >= Size THEN r + i - Size ELSE r + i
Used == IF write_idx >= read_idx THEN write_idx - read_idx
                                 ELSE Size + write_idx - read_idx
Cells == [i \in 0..(Used - 1) |-> buf[Place(read_idx, i)]]

(* What of temp_buffer is still to be handed over.                         *)
Left == IF rpc = "dispatch" THEN available - pos ELSE 0
Rest == [i \in 0..(Left - 1) |-> temp[pos + 1 + i]]

(* Every one of the first L words stands in the middle of its message, and *)
(* messages follow each other in the order of their numbers.               *)
WholeWords(f, L) ==
  \A i \in 0..(L - 1) :
    /\ f[i] \in Words /\ f[i].part <= i /\ f[i].part <= f[i].args
    /\ i - f[i].part + f[i].args < L
    /\ \A j \in 0..f[i].args :
         f[i - f[i].part + j] = Word(f[i].n, j, f[i].args)
Ordered(f, L) ==
  \A i, j \in 0..(L - 1) :
    i < j => \/ f[i].n < f[j].n
             \/ f[i].n = f[j].n /\ f[j].part = f[i].part + (j - i)

Published == IF wpc = "idle" THEN made ELSE made - 1

RingInv ==
  /\ WholeWords(Cells, Used) /\ Ordered(Cells, Used)
  /\ \A i \in 0..(Used - 1) : Cells[i].n <= Published

WriterInv ==
  /\ wpc # "idle" => made >= 1
  /\ wpc \in {"begin", "copy", "publish"} => Used + 1 + args < Size
  /\ wpc = "copy" => put <= args
  /\ wpc = "publish" => put = args + 1
  /\ wpc \in {"copy", "publish"} =>
       /\ at = Place(write_idx, put)
       /\ \A j \in 0..(put - 1) : buf[Place(write_idx, j)] = Word(made, j, args)

ReaderInv ==
  /\ rpc \in {"check", "copy", "free"} =>
       available >= 1 /\ available <= Used /\ WholeWords(Cells, available)
  /\ rpc \in {"copy", "free"} => pos = 0
  /\ rpc = "copy" => Len(temp) < available
  /\ rpc = "free" => Len(temp) = available
  /\ rpc \in {"copy", "free"} => \A i \in 1..Len(temp) : temp[i] = Cells[i - 1]
  /\ rpc = "dispatch" => Len(temp) = available /\ pos < available

RestInv ==
  /\ WholeWords(Rest, Left) /\ Ordered(Rest, Left)
  /\ \A i \in 0..(Left - 1) :
       /\ Rest[i].n <= Published
       /\ \A j \in 0..(Used - 1) : Rest[i].n < Cells[j].n

DeliveredInv ==
  \A d \in 1..Len(delivered) :
    /\ delivered[d][1].n \in Nat /\ delivered[d][1].n <= Published
    /\ \A j \in 0..(Used - 1) : delivered[d][1].n < Cells[j].n
    /\ \A i \in 0..(Left - 1) : delivered[d][1].n < Rest[i].n

IInv ==
  /\ TypeOK /\ RingInv /\ WriterInv /\ ReaderInv /\ RestInv /\ DeliveredInv
  /\ DeliveredWhole /\ DeliveredInOrder
-------------------------------------------------------------------------------
(* The arithmetic of the indices.                                          *)
LEMMA Modulo ==
  ASSUME NEW x \in Nat, x < 2 * Size
  PROVE  x % Size = IF x >= Size THEN x - Size ELSE x
<1>1. Size \in Nat /\ Size > 0
  BY QueueAssumption
<1>2. CASE x < Size
  BY <1>1, <1>2
<1>3. CASE x >= Size
  BY <1>1, <1>3
<1> QED BY <1>1, <1>2, <1>3

LEMMA PlaceIs ==
  ASSUME NEW r \in 0..(Size - 1), NEW i \in 0..Size
  PROVE  (r + i) % Size = Place(r, i) /\ Place(r, i) \in 0..(Size - 1)
<1>1. Size \in Nat /\ Size > 0
  BY QueueAssumption
<1>2. r + i \in Nat /\ r + i < 2 * Size
  BY <1>1
<1> QED BY <1>1, <1>2, Modulo DEF Place

LEMMA UsedIs ==
  ASSUME TypeOK
  PROVE  /\ Used \in 0..(Size - 1)
         /\ AvailableToRead = Used
         /\ AvailableToWrite = Size - 1 - Used
<1>1. Size \in Nat /\ Size > 0 /\ write_idx \in 0..(Size - 1)
      /\ read_idx \in 0..(Size - 1)
  BY QueueAssumption DEF TypeOK
<1>2. /\ Size + write_idx - read_idx \in Nat
      /\ Size + write_idx - read_idx < 2 * Size
      /\ Size + read_idx - write_idx - 1 \in Nat
      /\ Size + read_idx - write_idx - 1 < 2 * Size
  BY <1>1
<1>3. AvailableToRead = Used
  BY <1>1, <1>2, Modulo DEF AvailableToRead, Used
<1>4. AvailableToWrite = Size - 1 - Used
  BY <1>1, <1>2, Modulo DEF AvailableToWrite, Used
<1> QED BY <1>1, <1>3, <1>4 DEF Used

(* Different words of the ring have different places, and places add up.   *)
LEMMA PlacesDiffer ==
  ASSUME NEW r \in 0..(Size - 1), NEW i \in 0..(Size - 1),
         NEW j \in 0..(Size - 1), i # j
  PROVE  Place(r, i) # Place(r, j)
BY QueueAssumption DEF Place

LEMMA PlacesAdd ==
  ASSUME NEW r \in 0..(Size - 1), NEW i \in Nat, NEW j \in Nat, i + j < Size
  PROVE  Place(Place(r, i), j) = Place(r, i + j)
BY QueueAssumption DEF Place

LEMMA WriteIndexIs ==
  ASSUME TypeOK
  PROVE  write_idx = Place(read_idx, Used)
BY QueueAssumption DEF TypeOK, Used, Place

-------------------------------------------------------------------------------
(* Words of whole messages: one more message behind them, some of the      *)
(* first taken away, and no difference made.                               *)
LEMMA SameWords ==
  ASSUME NEW L \in Nat, NEW f, NEW g, \A i \in 0..(L - 1) : g[i] = f[i],
         WholeWords(f, L)
  PROVE  WholeWords(g, L)
<1> SUFFICES ASSUME NEW i \in 0..(L - 1)
             PROVE  /\ g[i] \in Words /\ g[i].part <= i /\ g[i].part <= g[i].args
                    /\ i - g[i].part + g[i].args < L
                    /\ \A j \in 0..g[i].args :
                         g[i - g[i].part + j] = Word(g[i].n, j, g[i].args)
  BY DEF WholeWords
<1>1. /\ f[i] \in Words /\ f[i].part <= i /\ f[i].part <= f[i].args
      /\ i - f[i].part + f[i].args < L
      /\ \A j \in 0..f[i].args :
           f[i - f[i].part + j] = Word(f[i].n, j, f[i].args)
  BY DEF WholeWords
<1>2. f[i].part \in Nat /\ f[i].args \in Nat
  BY <1>1 DEF Words
<1>3. ASSUME NEW j \in 0..f[i].args
      PROVE  g[i - f[i].part + j] = Word(f[i].n, j, f[i].args)
  <2>1. i - f[i].part + j \in 0..(L - 1)
    BY <1>1, <1>2
  <2> QED BY <2>1, <1>1
<1> QED BY <1>1, <1>3

LEMMA OneMoreMessage ==
  ASSUME NEW L \in Nat, NEW f, NEW g, NEW n \in 1..MaxMessages, NEW k \in Nat,
         WholeWords(f, L), Ordered(f, L),
         \A i \in 0..(L - 1) : f[i].n < n,
         \A i \in 0..(L - 1) : g[i] = f[i],
         \A j \in 0..k : g[L + j] = Word(n, j, k)
  PROVE  WholeWords(g, L + k + 1) /\ Ordered(g, L + k + 1)
<1> DEFINE M == L + k + 1
<1>1. ASSUME NEW i \in 0..(M - 1)
      PROVE  i \in 0..(L - 1) \/ (i - L \in 0..k /\ g[i] = Word(n, i - L, k))
  <2>1. CASE i < L
    BY <2>1
  <2>2. CASE i >= L
    <3>1. i - L \in 0..k /\ L + (i - L) = i
      BY <2>2
    <3> QED BY <3>1
  <2> QED BY <2>1, <2>2
<1>2. WholeWords(g, L)
  BY SameWords
<1>3. WholeWords(g, M)
  <2> SUFFICES ASSUME NEW i \in 0..(M - 1)
               PROVE  /\ g[i] \in Words /\ g[i].part <= i /\ g[i].part <= g[i].args
                      /\ i - g[i].part + g[i].args < M
                      /\ \A j \in 0..g[i].args :
                           g[i - g[i].part + j] = Word(g[i].n, j, g[i].args)
    BY DEF WholeWords
  <2>1. CASE i \in 0..(L - 1)
    <3>1. /\ g[i] \in Words /\ g[i].part <= i /\ g[i].part <= g[i].args
          /\ i - g[i].part + g[i].args < L
          /\ \A j \in 0..g[i].args :
               g[i - g[i].part + j] = Word(g[i].n, j, g[i].args)
      BY <2>1, <1>2 DEF WholeWords
    <3>2. g[i].part \in Nat /\ g[i].args \in Nat
      BY <3>1 DEF Words
    <3> QED BY <3>1, <3>2
  <2>2. CASE i - L \in 0..k /\ g[i] = Word(n, i - L, k)
    <3>1. g[i].n = n /\ g[i].part = i - L /\ g[i].args = k
      BY <2>2 DEF Word
    <3>2. g[i] \in Words
      BY <2>2, QueueAssumption DEF Words, Word
    <3>3. i - g[i].part = L
      BY <3>1
    <3> QED BY <2>2, <3>1, <3>2, <3>3
  <2> QED BY <1>1, <2>1, <2>2
<1>4. Ordered(g, M)
  <2> SUFFICES ASSUME NEW i \in 0..(M - 1), NEW j \in 0..(M - 1), i < j
               PROVE  \/ g[i].n < g[j].n
                      \/ g[i].n = g[j].n /\ g[j].part = g[i].part + (j - i)
    BY DEF Ordered
  <2>1. CASE i \in 0..(L - 1) /\ j \in 0..(L - 1)
    BY <2>1 DEF Ordered
  <2>2. CASE i \in 0..(L - 1) /\ j - L \in 0..k /\ g[j] = Word(n, j - L, k)
    BY <2>2 DEF Word
  <2>3. CASE /\ i - L \in 0..k /\ g[i] = Word(n, i - L, k)
             /\ j - L \in 0..k /\ g[j] = Word(n, j - L, k)
    BY <2>3 DEF Word
  <2> QED BY <1>1, <2>1, <2>2, <2>3
<1> QED BY <1>3, <1>4

LEMMA StartsBehind ==
  ASSUME NEW L \in Nat, NEW c \in 0..L, NEW f,
         WholeWords(f, L), WholeWords(f, c), NEW i \in c..(L - 1)
  PROVE  i - f[i].part >= c
<1> DEFINE s == i - f[i].part
<1>1. /\ f[i] \in Words /\ f[i].part <= i /\ f[i].part <= f[i].args
      /\ f[i].part \in Nat /\ f[i].args \in Nat
      /\ \A j \in 0..f[i].args : f[s + j] = Word(f[i].n, j, f[i].args)
  BY DEF WholeWords, Words
<1>2. SUFFICES ASSUME s < c PROVE FALSE
  BY <1>1
<1>3. s \in 0..(c - 1)
  BY <1>1, <1>2
<1>4. f[s] = Word(f[i].n, 0, f[i].args)
  BY <1>1
<1>5. s - f[s].part + f[s].args < c
  BY <1>3 DEF WholeWords
<1>6. f[s].part = 0 /\ f[s].args = f[i].args
  BY <1>4 DEF Word
<1> QED BY <1>1, <1>5, <1>6

LEMMA RestIsNewer ==
  ASSUME NEW L \in Nat, NEW c \in 0..L, NEW f,
         WholeWords(f, L), Ordered(f, L), WholeWords(f, c),
         NEW i \in 0..(c - 1), NEW j \in c..(L - 1)
  PROVE  f[i].n < f[j].n
<1>1. i \in 0..(L - 1) /\ j \in 0..(L - 1) /\ i < j
  OBVIOUS
<1>2. \/ f[i].n < f[j].n
      \/ f[i].n = f[j].n /\ f[j].part = f[i].part + (j - i)
  BY <1>1 DEF Ordered
<1>3. f[j].part \in Nat /\ f[i].part \in Nat
  BY <1>1 DEF WholeWords, Words
<1>4. j - f[j].part >= c
  BY StartsBehind
<1> QED BY <1>2, <1>3, <1>4

LEMMA TheRest ==
  ASSUME NEW L \in Nat, NEW c \in 0..L, NEW f, NEW g,
         WholeWords(f, L), Ordered(f, L), WholeWords(f, c),
         \A i \in 0..(L - c - 1) : g[i] = f[c + i]
  PROVE  WholeWords(g, L - c) /\ Ordered(g, L - c)
<1>1. WholeWords(g, L - c)
  <2> SUFFICES ASSUME NEW i \in 0..(L - c - 1)
               PROVE  /\ g[i] \in Words /\ g[i].part <= i /\ g[i].part <= g[i].args
                      /\ i - g[i].part + g[i].args < L - c
                      /\ \A j \in 0..g[i].args :
                           g[i - g[i].part + j] = Word(g[i].n, j, g[i].args)
    BY DEF WholeWords
  <2> DEFINE m == c + i
  <2>1. m \in c..(L - 1) /\ m \in 0..(L - 1) /\ g[i] = f[m]
    OBVIOUS
  <2> HIDE DEF m
  <2>2. /\ f[m] \in Words /\ f[m].part <= f[m].args
        /\ m - f[m].part + f[m].args < L
        /\ \A j \in 0..f[m].args :
             f[m - f[m].part + j] = Word(f[m].n, j, f[m].args)
    BY <2>1 DEF WholeWords
  <2>3. /\ g[i] \in Words /\ g[i].part <= g[i].args
        /\ g[i].part \in Nat /\ g[i].args \in Nat
        /\ m - g[i].part + g[i].args < L /\ m - g[i].part >= c
        /\ \A j \in 0..g[i].args :
             f[m - g[i].part + j] = Word(g[i].n, j, g[i].args)
    <3>1. m - f[m].part >= c
      BY <2>1, StartsBehind
    <3> QED BY <2>1, <2>2, <3>1 DEF Words
  <2>4. g[i].part <= i /\ i - g[i].part + g[i].args < L - c
    BY <2>3 DEF m
  <2>5. ASSUME NEW j \in 0..g[i].args
        PROVE  g[i - g[i].part + j] = Word(g[i].n, j, g[i].args)
    <3>1. i - g[i].part + j \in 0..(L - c - 1)
      BY <2>3, <2>4
    <3>2. g[i - g[i].part + j] = f[c + (i - g[i].part + j)]
      BY <3>1
    <3>3. c + (i - g[i].part + j) = m - g[i].part + j
      BY <2>3 DEF m
    <3> QED BY <2>3, <3>2, <3>3
  <2> QED BY <2>3, <2>4, <2>5
<1>2. Ordered(g, L - c)
  <2> SUFFICES ASSUME NEW i \in 0..(L - c - 1), NEW j \in 0..(L - c - 1), i < j
               PROVE  \/ g[i].n < g[j].n
                      \/ g[i].n = g[j].n /\ g[j].part = g[i].part + (j - i)
    BY DEF Ordered
  <2>1. /\ c + i \in 0..(L - 1) /\ c + j \in 0..(L - 1) /\ c + i < c + j
        /\ (c + j) - (c + i) = j - i
    OBVIOUS
  <2> QED BY <2>1 DEF Ordered
<1> QED BY <1>1, <1>2

-------------------------------------------------------------------------------
(* Steps that leave the ring, or temp_buffer, as it is.                    *)
LEMMA SameRing ==
  ASSUME UNCHANGED ring
  PROVE  Used' = Used /\ Cells' = Cells
BY DEF ring, Used, Cells, Place

LEMMA SameRest ==
  ASSUME UNCHANGED <<rpc, available, temp, pos>>
  PROVE  Left' = Left /\ Rest' = Rest
BY DEF Left, Rest

LEMMA LeftIs ==
  ASSUME TypeOK, ReaderInv
  PROVE  Left \in Nat /\ Left <= Len(temp)
BY DEF TypeOK, ReaderInv, Left

(* What the two threads hold, when more messages may be published.         *)
LEMMA RestStays ==
  ASSUME IInv, Used' = Used, Cells' = Cells, UNCHANGED reader, Published' >= Published,
         Published' \in Nat, Published \in Nat
  PROVE  RingInv' /\ ReaderInv' /\ RestInv' /\ DeliveredInv' /\ DeliveredWhole'
         /\ DeliveredInOrder'
<1>1. Used' = Used /\ Cells' = Cells /\ Left' = Left /\ Rest' = Rest
  BY SameRest DEF reader
<1>2. Used \in Nat /\ Left \in Nat
  BY UsedIs, LeftIs, QueueAssumption DEF IInv
<1>3. WholeWords(Cells, Used) /\ WholeWords(Rest, Left)
  BY DEF IInv, RingInv, RestInv
<1>4. /\ \A i \in 0..(Used - 1) : Cells[i].n \in Nat
      /\ \A i \in 0..(Left - 1) : Rest[i].n \in Nat
  BY <1>3 DEF WholeWords, Words
<1>5. RingInv'
  BY <1>1, <1>2, <1>4 DEF IInv, RingInv
<1>6. ReaderInv'
  BY <1>1 DEF IInv, ReaderInv, reader
<1>7. RestInv'
  BY <1>1, <1>2, <1>4 DEF IInv, RestInv
<1>8. DeliveredInv'
  BY <1>1 DEF IInv, DeliveredInv, reader
<1>9. DeliveredWhole' /\ DeliveredInOrder'
  BY DEF IInv, DeliveredWhole, DeliveredInOrder, reader
<1> QED BY <1>5, <1>6, <1>7, <1>8, <1>9

LEMMA InitIInv == Init => IInv
<1> SUFFICES ASSUME Init PROVE IInv
  OBVIOUS
<1>1. Used = 0 /\ Left = 0
  BY DEF Init, Used, Left
<1>2. TypeOK
  BY QueueAssumption DEF Init, TypeOK, Words, Blank, Word
<1>3. RingInv /\ RestInv
  BY <1>1 DEF RingInv, RestInv, WholeWords, Ordered
<1>4. WriterInv /\ ReaderInv
  BY DEF Init, WriterInv, ReaderInv
<1>5. DeliveredInv /\ DeliveredWhole /\ DeliveredInOrder
  BY DEF Init, DeliveredInv, DeliveredWhole, DeliveredInOrder
<1> QED BY <1>2, <1>3, <1>4, <1>5 DEF IInv

-------------------------------------------------------------------------------
(* Pd's thread.                                                            *)
LEMMA HookStep ==
  ASSUME IInv, NEW k \in ArgCounts, Hook(k)
  PROVE  IInv'
<1>1. UNCHANGED ring /\ UNCHANGED reader
  BY DEF Hook
<1>2. TypeOK'
  BY QueueAssumption DEF IInv, TypeOK, Hook, ring, reader
<1>3. made \in Nat /\ Published = made /\ Published' \in {made, made + 1}
  BY DEF IInv, TypeOK, Hook, Published
<1>4. WriterInv'
  <2>1. Used' = Used /\ AvailableToWrite = Size - 1 - Used /\ Used \in 0..(Size - 1)
    BY <1>1, SameRing, UsedIs DEF IInv
  <2>2. k \in Nat /\ Size \in Nat
    BY QueueAssumption
  <2> QED BY <1>3, <2>1, <2>2 DEF WriterInv, Hook
<1> QED BY <1>1, <1>2, <1>3, <1>4, RestStays, SameRing DEF IInv

LEMMA BeginStep ==
  ASSUME IInv, Begin
  PROVE  IInv'
<1>1. UNCHANGED ring /\ UNCHANGED reader
  BY DEF Begin
<1>2. TypeOK'
  BY DEF IInv, TypeOK, Begin, ring, reader
<1>3. made \in Nat /\ made >= 1 /\ Published = made - 1 /\ Published' \in {made - 1, made}
  BY DEF IInv, TypeOK, WriterInv, Begin, Published
<1>4. WriterInv'
  <2>1. Used' = Used /\ Used \in 0..(Size - 1)
    BY <1>1, SameRing, UsedIs DEF IInv
  <2>2. write_idx \in 0..(Size - 1) /\ args \in Nat
    BY DEF IInv, TypeOK
  <2>3. write_idx = Place(write_idx, 0)
    BY <2>2, QueueAssumption DEF Place
  <2> QED BY <1>1, <1>3, <2>1, <2>2, <2>3 DEF IInv, WriterInv, Begin, ring, Place
<1> QED BY <1>1, <1>2, <1>3, <1>4, RestStays, SameRing DEF IInv

LEMMA CopyInStep ==
  ASSUME IInv, CopyIn
  PROVE  IInv' /\ Used' = Used /\ Cells' = Cells
<1>1. /\ Size \in Nat /\ Size > 0 /\ read_idx \in 0..(Size - 1)
      /\ write_idx \in 0..(Size - 1) /\ at \in 0..(Size - 1)
      /\ Used \in 0..(Size - 1) /\ put \in 0..args /\ args \in Nat
      /\ Used + 1 + args < Size /\ at = Place(write_idx, put)
      /\ made \in 1..MaxMessages
  <2>1. TypeOK /\ wpc = "copy"
    BY DEF IInv, CopyIn
  <2>2. Used \in 0..(Size - 1)
    BY <2>1, UsedIs
  <2> HIDE DEF Used
  <2> QED BY <2>1, <2>2, QueueAssumption DEF IInv, TypeOK, WriterInv, CopyIn
<1>2. /\ UNCHANGED reader /\ write_idx' = write_idx /\ read_idx' = read_idx
      /\ buf' = [buf EXCEPT ![at] = Word(made, put, args)]
      /\ put' = put + 1 /\ args' = args /\ made' = made
      /\ buf \in [0..(Size - 1) -> Words]
  BY DEF CopyIn, IInv, TypeOK
<1>3. at = Place(read_idx, Used + put)
  BY <1>1, WriteIndexIs, PlacesAdd DEF IInv
<1>4. Used' = Used
  BY <1>2 DEF Used
<1>5. Cells' = Cells
  <2>1. ASSUME NEW i \in 0..(Used - 1)
        PROVE  buf'[Place(read_idx, i)] = buf[Place(read_idx, i)]
    <3>1. Place(read_idx, i) # at
      BY <1>1, <1>3, PlacesDiffer
    <3>2. Place(read_idx, i) \in 0..(Size - 1)
      BY <1>1, PlaceIs
    <3> QED BY <1>2, <3>1, <3>2
  <2> QED BY <1>2, <1>4, <2>1 DEF Cells, Place
<1>6. at' = Place(write_idx, put + 1) /\ at' \in 0..(Size - 1)
  <2>1. at' = Place(at, 1) /\ at' \in 0..(Size - 1)
    BY <1>1, PlaceIs DEF CopyIn
  <2>2. Place(at, 1) = Place(write_idx, put + 1)
    BY <1>1, PlacesAdd
  <2> QED BY <2>1, <2>2
<1>7. TypeOK'
  <2>1. Word(made, put, args) \in Words
    BY <1>1, QueueAssumption DEF Word, Words
  <2>2. buf' \in [0..(Size - 1) -> Words]
    BY <1>2, <2>1
  <2> QED BY <1>1, <1>2, <1>6, <2>2 DEF IInv, TypeOK, CopyIn, reader
<1>8. WriterInv'
  <2>1. ASSUME NEW j \in 0..put
        PROVE  buf'[Place(write_idx, j)] = Word(made, j, args)
    <3>1. Place(write_idx, j) \in 0..(Size - 1)
      BY <1>1, PlaceIs
    <3>2. CASE j = put
      BY <1>1, <1>2, <3>1, <3>2
    <3>3. CASE j \in 0..(put - 1)
      <4>1. Place(write_idx, j) # at
        BY <1>1, <3>3, PlacesDiffer
      <4>2. buf[Place(write_idx, j)] = Word(made, j, args)
        BY <3>3 DEF IInv, WriterInv, CopyIn
      <4> QED BY <1>2, <3>1, <4>1, <4>2
    <3> QED BY <1>1, <3>2, <3>3
  <2>2. \A j \in 0..(put' - 1) : buf'[Place(write_idx', j)] = Word(made', j, args')
    BY <1>1, <1>2, <2>1
  <2>3. at' = Place(write_idx', put')
    BY <1>2, <1>6
  <2>4. wpc' \in {"copy", "publish"}
    BY <1>1, <1>2 DEF CopyIn
  <2>5. wpc' = "publish" => put' = args' + 1
    BY <1>1, <1>2 DEF CopyIn
  <2>6. wpc' = "copy" => put' <= args'
    BY <1>1, <1>2 DEF CopyIn
  <2> QED BY <1>1, <1>2, <1>4, <2>2, <2>3, <2>4, <2>5, <2>6 DEF WriterInv, Place
<1>9. Published' = Published /\ Published \in Nat
  BY <1>1, <1>2 DEF Published, CopyIn
<1> QED BY <1>2, <1>4, <1>5, <1>7, <1>8, <1>9, RestStays DEF IInv

(* The words written are words of a message newer than all others.         *)
ShowsMessage ==
  /\ Used' = Used + args + 1
  /\ \A i \in 0..(Used - 1) : Cells'[i] = Cells[i]
  /\ \A j \in 0..args : Cells'[Used + j] = Word(made, j, args)

LEMMA PublishStep ==
  ASSUME IInv, Publish
  PROVE  IInv' /\ ShowsMessage
<1>1. /\ Size \in Nat /\ Size > 0 /\ read_idx \in 0..(Size - 1)
      /\ write_idx \in 0..(Size - 1) /\ at \in 0..(Size - 1)
      /\ Used \in 0..(Size - 1) /\ put = args + 1 /\ args \in Nat
      /\ Used + 1 + args < Size /\ at = Place(write_idx, put)
      /\ made \in 1..MaxMessages
  BY QueueAssumption, UsedIs DEF IInv, TypeOK, WriterInv, Publish
<1>2. /\ UNCHANGED reader /\ write_idx' = at /\ read_idx' = read_idx
      /\ buf' = buf /\ made' = made
  BY DEF Publish
<1>3. Used' = Used + args + 1
  <2>1. at = Place(read_idx, Used + put)
    BY <1>1, WriteIndexIs, PlacesAdd DEF IInv
  <2> QED BY <1>1, <1>2, <2>1 DEF Used, Place
<1>4. /\ \A i \in 0..(Used - 1) : Cells'[i] = Cells[i]
      /\ \A j \in 0..args : Cells'[Used + j] = Word(made, j, args)
  <2>1. ASSUME NEW i \in 0..(Used + args)
        PROVE  Cells'[i] = buf[Place(read_idx, i)]
    BY <1>1, <1>2, <1>3 DEF Cells, Place
  <2>2. ASSUME NEW j \in 0..args
        PROVE  Cells'[Used + j] = Word(made, j, args)
    <3>1. Place(write_idx, j) = Place(read_idx, Used + j)
      BY <1>1, WriteIndexIs, PlacesAdd DEF IInv
    <3>2. buf[Place(write_idx, j)] = Word(made, j, args)
      BY <1>1 DEF IInv, WriterInv, Publish
    <3> QED BY <1>1, <2>1, <3>1, <3>2
  <2>3. ASSUME NEW i \in 0..(Used - 1)
        PROVE  Cells'[i] = Cells[i]
    <3>1. i \in 0..(Used + args)
      BY <1>1
    <3>2. Cells'[i] = buf[Place(read_idx, i)]
      BY <2>1, <3>1
    <3>3. Cells[i] = buf[Place(read_idx, i)]
      BY DEF Cells
    <3> QED BY <3>2, <3>3
  <2> QED BY <2>2, <2>3
<1>5. Published = made - 1 /\ Published' = made
  BY <1>2 DEF Publish, Published
<1>6. TypeOK'
  BY <1>1, <1>2 DEF IInv, TypeOK, Publish, reader
<1>7. \A i \in 0..(Used' - 1) :
        \/ i \in 0..(Used - 1) /\ Cells'[i] = Cells[i]
        \/ Cells'[i].n = made
  <2> SUFFICES ASSUME NEW i \in 0..(Used' - 1), i >= Used
               PROVE  Cells'[i].n = made
    BY <1>1, <1>3, <1>4
  <2>1. i - Used \in 0..args /\ Used + (i - Used) = i
    BY <1>1, <1>3
  <2>2. Cells'[Used + (i - Used)] = Word(made, i - Used, args)
    BY <1>4, <2>1
  <2>3. Cells'[i] = Word(made, i - Used, args)
    BY <2>1, <2>2
  <2> QED BY <2>3 DEF Word
<1>8. \A i \in 0..(Used - 1) : Cells[i].n <= made - 1 /\ Cells[i].n \in Nat
  BY <1>5 DEF IInv, RingInv, WholeWords, Words
<1>9. RingInv'
  <2>1. WholeWords(Cells', Used') /\ Ordered(Cells', Used')
    <3>1. WholeWords(Cells, Used) /\ Ordered(Cells, Used)
      BY DEF IInv, RingInv
    <3>2. \A i \in 0..(Used - 1) : Cells[i].n < made
      BY <1>1, <1>8
    <3>3. Used \in Nat
      BY <1>1
    <3>4. WholeWords(Cells', Used + args + 1) /\ Ordered(Cells', Used + args + 1)
      BY <1>1, <1>4, <3>1, <3>2, <3>3, OneMoreMessage
    <3> QED BY <1>3, <3>4
  <2>2. \A i \in 0..(Used' - 1) : Cells'[i].n <= made
    BY <1>1, <1>7, <1>8
  <2> QED BY <1>5, <2>1, <2>2 DEF RingInv
<1>10. WriterInv'
  BY DEF WriterInv, Publish
<1>11. ReaderInv'
  <2>1. ASSUME rpc \in {"check", "copy", "free"}
        PROVE  /\ available >= 1 /\ available <= Used' /\ WholeWords(Cells', available)
               /\ available \in Nat
    <3>1. available >= 1 /\ available <= Used /\ WholeWords(Cells, available)
          /\ available \in Nat
      BY <2>1 DEF IInv, ReaderInv, TypeOK
    <3>2. WholeWords(Cells', available)
      BY <1>1, <1>4, <3>1, SameWords
    <3> QED BY <1>1, <1>3, <3>1, <3>2
  <2>2. ASSUME rpc \in {"copy", "free"}, NEW i \in 1..Len(temp)
        PROVE  temp[i] = Cells'[i - 1]
    <3>1. temp[i] = Cells[i - 1] /\ Len(temp) <= available /\ available <= Used
          /\ available \in Nat /\ Len(temp) \in Nat
      BY <2>2 DEF IInv, ReaderInv, TypeOK
    <3>2. i - 1 \in 0..(Used - 1)
      BY <1>1, <3>1
    <3> QED BY <1>4, <3>1, <3>2
  <2>3. rpc' = rpc /\ available' = available /\ temp' = temp /\ pos' = pos
    BY <1>2 DEF reader
  <2> QED BY <2>1, <2>2, <2>3 DEF IInv, ReaderInv
<1>12. Left' = Left /\ Rest' = Rest
  BY <1>2, SameRest DEF reader
<1>13. Left \in Nat /\ \A i \in 0..(Left - 1) : Rest[i].n \in Nat
  BY LeftIs DEF IInv, RestInv, WholeWords, Words
<1>14. RestInv'
  <2>1. ASSUME NEW i \in 0..(Left - 1), NEW j \in 0..(Used' - 1)
        PROVE  Rest[i].n < Cells'[j].n
    <3>1. Rest[i].n <= made - 1
      BY <1>5 DEF IInv, RestInv
    <3>2. CASE j \in 0..(Used - 1) /\ Cells'[j] = Cells[j]
      BY <3>2 DEF IInv, RestInv
    <3> QED BY <1>1, <1>7, <1>13, <3>1, <3>2
  <2> QED BY <1>1, <1>5, <1>12, <1>13, <2>1 DEF IInv, RestInv
<1>15. DeliveredInv'
  <2>1. ASSUME NEW d \in 1..Len(delivered), NEW j \in 0..(Used' - 1)
        PROVE  delivered[d][1].n < Cells'[j].n
    <3>1. delivered[d][1].n \in Nat /\ delivered[d][1].n <= made - 1
      BY <1>5 DEF IInv, DeliveredInv
    <3>2. CASE j \in 0..(Used - 1) /\ Cells'[j] = Cells[j]
      BY <3>2 DEF IInv, DeliveredInv
    <3> QED BY <1>1, <1>7, <3>1, <3>2
  <2>2. delivered' = delivered
    BY <1>2 DEF reader
  <2> QED BY <1>1, <1>5, <1>12, <2>1, <2>2 DEF IInv, DeliveredInv
<1>16. DeliveredWhole' /\ DeliveredInOrder'
  BY <1>2 DEF IInv, DeliveredWhole, DeliveredInOrder, reader
<1>17. ShowsMessage
  BY <1>3, <1>4 DEF ShowsMessage
<1> QED BY <1>6, <1>9, <1>10, <1>11, <1>14, <1>15, <1>16, <1>17 DEF IInv

-------------------------------------------------------------------------------
(* The receiver.  Until it frees them, the words it takes stay in the ring.*)
LEMMA ReaderMoves ==
  ASSUME IInv, UNCHANGED ring, UNCHANGED writer, delivered' = delivered,
         rpc # "dispatch", rpc' # "dispatch", TypeOK', ReaderInv'
  PROVE  IInv'
<1>1. Used' = Used /\ Cells' = Cells /\ Published' = Published
  BY SameRing DEF writer, Published
<1>2. Left' = 0
  BY DEF Left
<1>3. RingInv'
  BY <1>1 DEF IInv, RingInv
<1>4. WriterInv'
  BY <1>1 DEF IInv, WriterInv, ring, writer, Place
<1>5. RestInv'
  BY <1>2 DEF RestInv, WholeWords, Ordered
<1>6. DeliveredInv'
  BY <1>1, <1>2 DEF IInv, DeliveredInv
<1>7. DeliveredWhole' /\ DeliveredInOrder'
  BY DEF IInv, DeliveredWhole, DeliveredInOrder
<1> QED BY <1>3, <1>4, <1>5, <1>6, <1>7 DEF IInv

LEMMA CountStep ==
  ASSUME IInv, Count
  PROVE  IInv'
<1>1. UNCHANGED ring /\ UNCHANGED writer /\ delivered' = delivered
  BY DEF Count
<1>2. Used \in 0..(Size - 1) /\ AvailableToRead = Used
  BY UsedIs DEF IInv
<1>3. TypeOK'
  BY <1>2, QueueAssumption DEF IInv, TypeOK, Count, ring, writer
<1>4. Used' = Used /\ Cells' = Cells
  BY <1>1, SameRing
<1>5. available' = Used /\ Used >= 1 /\ rpc = "idle" /\ rpc' = "check"
  BY <1>2, QueueAssumption DEF Count
<1>6. WholeWords(Cells, Used)
  BY DEF IInv, RingInv
<1>7. ReaderInv'
  BY <1>2, <1>4, <1>5, <1>6 DEF ReaderInv
<1> QED BY <1>1, <1>3, <1>5, <1>7, ReaderMoves

LEMMA CheckStep ==
  ASSUME IInv, Check
  PROVE  IInv'
<1>1. UNCHANGED ring /\ UNCHANGED writer /\ delivered' = delivered
      /\ available' = available /\ rpc = "check"
  BY DEF Check
<1>2. available <= AvailableToRead /\ available \in Nat /\ available >= 1
      /\ AvailableToRead \in Nat
  BY <1>1, UsedIs, QueueAssumption DEF IInv, ReaderInv, TypeOK
<1>3. rpc' = "copy" /\ temp' = <<>> /\ pos' = 0
  BY <1>2 DEF Check
<1>4. TypeOK'
  BY <1>1, <1>3 DEF IInv, TypeOK, ring, writer
<1>5. Used' = Used /\ Cells' = Cells
  BY <1>1, SameRing
<1>6. ReaderInv'
  BY <1>1, <1>2, <1>3, <1>5 DEF IInv, ReaderInv
<1> QED BY <1>1, <1>3, <1>4, <1>6, ReaderMoves

LEMMA CopyOutStep ==
  ASSUME IInv, CopyOut
  PROVE  IInv'
<1>1. UNCHANGED ring /\ UNCHANGED writer /\ delivered' = delivered
      /\ available' = available /\ pos' = pos /\ rpc = "copy"
      /\ rpc' \in {"copy", "free"}
  BY DEF CopyOut
<1>2. /\ Size \in Nat /\ Used \in 0..(Size - 1) /\ available <= Used
      /\ available \in Nat /\ temp \in Seq(Words) /\ Len(temp) < available
      /\ Len(temp) \in Nat /\ read_idx \in 0..(Size - 1)
      /\ buf \in [0..(Size - 1) -> Words]
  BY <1>1, UsedIs, QueueAssumption DEF IInv, TypeOK, ReaderInv
<1>3. Cells[Len(temp)] = buf[Place(read_idx, Len(temp))]
      /\ Cells[Len(temp)] \in Words
  <2>1. Len(temp) \in 0..(Used - 1) /\ Len(temp) \in 0..Size
    BY <1>2
  <2>2. Place(read_idx, Len(temp)) \in 0..(Size - 1)
    BY <1>2, <2>1, PlaceIs
  <2> QED BY <1>2, <2>1, <2>2 DEF Cells
<1>4. temp' = Append(temp, Cells[Len(temp)])
  <2>1. (read_idx + Len(temp)) % Size = Place(read_idx, Len(temp))
    BY <1>2, PlaceIs
  <2> QED BY <1>3, <2>1 DEF CopyOut
<1>5. /\ temp' \in Seq(Words) /\ Len(temp') = Len(temp) + 1
      /\ \A i \in 1..Len(temp) : temp'[i] = temp[i]
      /\ temp'[Len(temp) + 1] = Cells[Len(temp)]
  BY <1>2, <1>3, <1>4
<1>6. TypeOK'
  BY <1>1, <1>5 DEF IInv, TypeOK, ring, writer
<1>7. Used' = Used /\ Cells' = Cells
  BY <1>1, SameRing
<1>8. ReaderInv'
  <2>1. /\ rpc' = "copy" => Len(temp') < available
        /\ rpc' = "free" => Len(temp') = available
    BY <1>2, <1>5 DEF CopyOut
  <2>2. ASSUME NEW i \in 1..Len(temp')
        PROVE  temp'[i] = Cells[i - 1]
    <3>1. CASE i \in 1..Len(temp)
      BY <1>1, <1>5, <3>1 DEF IInv, ReaderInv
    <3>2. CASE i = Len(temp) + 1
      BY <1>2, <1>5, <3>2
    <3> QED BY <1>2, <1>5, <3>1, <3>2
  <2>3. available >= 1 /\ WholeWords(Cells, available) /\ pos = 0
    BY <1>1 DEF IInv, ReaderInv
  <2> QED BY <1>1, <1>2, <1>7, <2>1, <2>2, <2>3 DEF ReaderInv
<1> QED BY <1>1, <1>6, <1>8, ReaderMoves

(* The words that are freed are in temp_buffer, the others follow them.    *)
TakesWords ==
  /\ Used' = Used - available /\ Left' = available
  /\ \A i \in 0..(Used - available - 1) : Cells'[i] = Cells[available + i]
  /\ \A i \in 0..(available - 1) : Rest'[i] = Cells[i]

LEMMA FreeStep ==
  ASSUME IInv, Free
  PROVE  IInv' /\ TakesWords
<1>1. UNCHANGED writer /\ delivered' = delivered /\ buf' = buf
      /\ write_idx' = write_idx /\ available' = available /\ temp' = temp
      /\ pos' = pos /\ rpc = "free" /\ rpc' = "dispatch"
  BY DEF Free
<1>2. /\ Size \in Nat /\ Size > 0 /\ Used \in 0..(Size - 1) /\ available <= Used
      /\ available \in Nat /\ available >= 1 /\ Len(temp) = available /\ pos = 0
      /\ read_idx \in 0..(Size - 1) /\ write_idx \in 0..(Size - 1)
      /\ WholeWords(Cells, available) /\ WholeWords(Cells, Used)
      /\ Ordered(Cells, Used)
  BY <1>1, UsedIs, QueueAssumption DEF IInv, TypeOK, ReaderInv, RingInv
<1>3. read_idx' = Place(read_idx, available) /\ read_idx' \in 0..(Size - 1)
  <2>1. available \in 0..Size
    BY <1>2
  <2> QED BY <1>2, <2>1, PlaceIs DEF Free
<1>4. Used' = Used - available
  BY <1>1, <1>2, <1>3 DEF Used, Place
<1>5. ASSUME NEW i \in 0..(Used - available - 1)
      PROVE  Cells'[i] = Cells[available + i]
  <2>1. Place(Place(read_idx, available), i) = Place(read_idx, available + i)
    BY <1>2, PlacesAdd
  <2>2. available + i \in 0..(Used - 1)
    BY <1>2
  <2>3. Cells[available + i] = buf[Place(read_idx, available + i)]
    BY <2>2 DEF Cells
  <2>4. Cells'[i] = buf[Place(Place(read_idx, available), i)]
    BY <1>1, <1>2, <1>3, <1>4 DEF Cells, Place
  <2> QED BY <2>1, <2>3, <2>4
<1>6. Left' = available
  BY <1>1, <1>2 DEF Left
<1>7. ASSUME NEW i \in 0..(available - 1)
      PROVE  Rest'[i] = Cells[i]
  <2>1. Rest'[i] = temp[0 + 1 + i]
    BY <1>1, <1>2, <1>6 DEF Rest
  <2>2. 0 + 1 + i \in 1..Len(temp) /\ (0 + 1 + i) - 1 = i
    BY <1>2
  <2>3. temp[0 + 1 + i] = Cells[i]
    BY <1>1, <2>2 DEF IInv, ReaderInv
  <2> QED BY <2>1, <2>3
<1>8. /\ WholeWords(Cells', Used - available) /\ Ordered(Cells', Used - available)
      /\ \A i \in 0..(available - 1), j \in available..(Used - 1) :
           Cells[i].n < Cells[j].n
  <2>1. available \in 0..Used /\ Used \in Nat
    BY <1>2
  <2>2. WholeWords(Cells', Used - available) /\ Ordered(Cells', Used - available)
    BY <1>2, <1>5, <2>1, TheRest
  <2>3. \A i \in 0..(available - 1), j \in available..(Used - 1) :
          Cells[i].n < Cells[j].n
    BY <1>2, <2>1, RestIsNewer
  <2> QED BY <2>2, <2>3
<1>9. WholeWords(Rest', available) /\ Ordered(Rest', available)
  <2>1. WholeWords(Rest', available)
    BY <1>2, <1>7, SameWords
  <2>2. Ordered(Cells, available)
    BY <1>2 DEF Ordered
  <2> QED BY <1>7, <2>1, <2>2 DEF Ordered
<1>10. \A i \in 0..(Used - 1) : Cells[i].n <= Published
  BY DEF IInv, RingInv
<1>11. Published' = Published
  BY <1>1 DEF Published, writer
<1>12. ASSUME NEW i \in 0..(Used - available - 1)
       PROVE  available + i \in available..(Used - 1) /\ available + i \in 0..(Used - 1)
  BY <1>2
<1>13. TypeOK'
  BY <1>1, <1>3 DEF IInv, TypeOK, writer
<1>14. RingInv'
  BY <1>4, <1>5, <1>8, <1>10, <1>11, <1>12 DEF RingInv
<1>15. WriterInv'
  BY <1>1, <1>2, <1>4, QueueAssumption DEF IInv, TypeOK, WriterInv, writer, Place
<1>16. ReaderInv'
  BY <1>1, <1>2 DEF ReaderInv
<1>17. RestInv'
  <2>1. ASSUME NEW i \in 0..(available - 1)
        PROVE  /\ Rest'[i].n <= Published
               /\ \A j \in 0..(Used - available - 1) : Rest'[i].n < Cells'[j].n
    <3>1. i \in 0..(Used - 1)
      BY <1>2
    <3> QED BY <1>5, <1>7, <1>8, <1>10, <1>12, <3>1
  <2> QED BY <1>4, <1>6, <1>9, <1>11, <2>1 DEF RestInv
<1>18. DeliveredInv'
  <2>1. ASSUME NEW d \in 1..Len(delivered)
        PROVE  /\ delivered[d][1].n \in Nat /\ delivered[d][1].n <= Published
               /\ \A j \in 0..(Used - available - 1) : delivered[d][1].n < Cells'[j].n
               /\ \A i \in 0..(available - 1) : delivered[d][1].n < Rest'[i].n
    <3>1. /\ delivered[d][1].n \in Nat /\ delivered[d][1].n <= Published
          /\ \A j \in 0..(Used - 1) : delivered[d][1].n < Cells[j].n
      BY DEF IInv, DeliveredInv
    <3>2. \A i \in 0..(available - 1) : i \in 0..(Used - 1)
      BY <1>2
    <3> QED BY <1>5, <1>7, <1>12, <3>1, <3>2
  <2> QED BY <1>1, <1>4, <1>6, <1>11, <2>1 DEF DeliveredInv
<1>19. DeliveredWhole' /\ DeliveredInOrder'
  BY <1>1 DEF IInv, DeliveredWhole, DeliveredInOrder
<1>20. TakesWords
  BY <1>4, <1>5, <1>6, <1>7 DEF TakesWords
<1> QED BY <1>13, <1>14, <1>15, <1>16, <1>17, <1>18, <1>19, <1>20 DEF IInv

(* The first of the words left is a header, and with as many words as it   *)
(* says a whole message is handed over.                                    *)
HandsWords(m, k) ==
  /\ k \in Nat /\ k < Left /\ WholeWords(Rest, k + 1)
  /\ \A j \in 0..k : Rest[j] = Word(m, j, k)
  /\ delivered' = Append(delivered, WordsOf(m, k))
  /\ Left' = Left - (k + 1)
  /\ \A i \in 0..(Left - (k + 1) - 1) : Rest'[i] = Rest[(k + 1) + i]

LEMMA DispatchStep ==
  ASSUME IInv, Dispatch
  PROVE  IInv' /\ \E m, k : HandsWords(m, k)
<1> DEFINE k == Rest[0].args
           m == Rest[0].n
<1>1. UNCHANGED ring /\ UNCHANGED writer /\ available' = available /\ temp' = temp
      /\ rpc = "dispatch" /\ rpc' \in {"dispatch", "idle"}
  BY DEF Dispatch
<1>2. /\ Left = available - pos /\ Len(temp) = available /\ pos \in Nat
      /\ available \in Nat /\ Left \in Nat /\ Left >= 1
      /\ temp \in Seq(Words) /\ delivered \in Seq(Seq(Words))
  BY <1>1 DEF IInv, TypeOK, ReaderInv, Left
<1>3. \A i \in 0..(Left - 1) : TempAt(pos + 1 + i) = Rest[i] /\ Rest[i] \in Words
  <2> SUFFICES ASSUME NEW i \in 0..(Left - 1)
               PROVE  TempAt(pos + 1 + i) = Rest[i] /\ Rest[i] \in Words
    OBVIOUS
  <2>1. pos + 1 + i \in 1..Len(temp)
    BY <1>2
  <2>2. TempAt(pos + 1 + i) = temp[pos + 1 + i]
    BY <1>2, <2>1 DEF TempAt
  <2>3. Rest[i] = temp[pos + 1 + i]
    BY DEF Rest
  <2> QED BY <1>2, <2>1, <2>2, <2>3
<1>4. WholeWords(Rest, Left) /\ Ordered(Rest, Left)
  BY DEF IInv, RestInv
<1>5. /\ k \in Nat /\ m \in 0..MaxMessages /\ k < Left
      /\ \A j \in 0..k : Rest[j] = Word(m, j, k)
  <2>1. 0 \in 0..(Left - 1)
    BY <1>2
  <2>2. /\ Rest[0] \in Words /\ Rest[0].part <= 0 /\ 0 - Rest[0].part + k < Left
        /\ \A j \in 0..k : Rest[0 - Rest[0].part + j] = Word(m, j, k)
    BY <1>4, <2>1 DEF WholeWords
  <2>3. Rest[0].part = 0 /\ k \in Nat /\ m \in 0..MaxMessages
    BY <2>2 DEF Words
  <2>4. \A j \in 0..k : 0 - Rest[0].part + j = j
    BY <2>3
  <2> QED BY <1>2, <2>2, <2>3, <2>4
<1> HIDE DEF k, m
<1>6. TempAt(pos + 1).args = k
  <2>1. 0 \in 0..(Left - 1) /\ pos + 1 + 0 = pos + 1
    BY <1>2
  <2> QED BY <1>3, <2>1 DEF k
<1>7. delivered' = Append(delivered, WordsOf(m, k)) /\ pos' = pos + 1 + k
  <2>1. ASSUME NEW i \in 1..(k + 1)
        PROVE  TempAt(pos + i) = Word(m, i - 1, k)
    <3>1. i - 1 \in 0..(Left - 1) /\ i - 1 \in 0..k /\ pos + 1 + (i - 1) = pos + i
      BY <1>2, <1>5
    <3> QED BY <1>3, <1>5, <3>1
  <2> QED BY <1>6, <2>1 DEF Dispatch, WordsOf
<1>8. WordsOf(m, k) \in Seq(Words) /\ WordsOf(m, k)[1] = Word(m, 0, k)
  BY <1>5 DEF WordsOf, Word, Words
<1>9. /\ delivered' \in Seq(Seq(Words)) /\ Len(delivered') = Len(delivered) + 1
      /\ \A d \in 1..Len(delivered) : delivered'[d] = delivered[d]
      /\ delivered'[Len(delivered) + 1] = WordsOf(m, k)
      /\ Len(delivered) \in Nat
  BY <1>2, <1>7, <1>8
<1>10. Used' = Used /\ Cells' = Cells /\ Published' = Published
  BY <1>1, SameRing DEF writer, Published
<1>11. Left' = Left - (k + 1)
  <2>1. rpc' = IF pos' < available THEN "dispatch" ELSE "idle"
    BY DEF Dispatch
  <2> QED BY <1>1, <1>2, <1>5, <1>7, <2>1 DEF Left
<1>12. ASSUME NEW i \in 0..(Left - (k + 1) - 1)
       PROVE  Rest'[i] = Rest[(k + 1) + i]
  <2>1. (k + 1) + i \in 0..(Left - 1) /\ pos + 1 + k + 1 + i = pos + 1 + ((k + 1) + i)
    BY <1>2, <1>5
  <2>2. Rest'[i] = temp[pos + 1 + k + 1 + i]
    BY <1>1, <1>7, <1>11 DEF Rest
  <2>3. Rest[(k + 1) + i] = temp[pos + 1 + ((k + 1) + i)]
    BY <2>1 DEF Rest
  <2> QED BY <2>1, <2>2, <2>3
<1>13. WholeWords(Rest, k + 1)
  <2> SUFFICES ASSUME NEW i \in 0..k
               PROVE  /\ Rest[i] \in Words /\ Rest[i].part <= i
                      /\ Rest[i].part <= Rest[i].args
                      /\ i - Rest[i].part + Rest[i].args < k + 1
                      /\ \A j \in 0..Rest[i].args :
                           Rest[i - Rest[i].part + j] = Word(Rest[i].n, j, Rest[i].args)
    BY <1>5 DEF WholeWords
  <2>1. Rest[i] = Word(m, i, k)
    BY <1>5
  <2>2. Rest[i].n = m /\ Rest[i].part = i /\ Rest[i].args = k
    BY <2>1 DEF Word
  <2>3. i \in 0..(Left - 1)
    BY <1>2, <1>5
  <2>4. \A j \in 0..k : i - i + j = j
    OBVIOUS
  <2> QED BY <1>3, <1>5, <2>2, <2>3, <2>4
<1>14. /\ WholeWords(Rest', Left - (k + 1)) /\ Ordered(Rest', Left - (k + 1))
       /\ \A i \in 0..(k + 1 - 1), j \in (k + 1)..(Left - 1) : Rest[i].n < Rest[j].n
  <2>1. PICK c \in 0..Left : c = k + 1
    BY <1>2, <1>5
  <2>2. WholeWords(Rest, c) /\ \A i \in 0..(Left - c - 1) : Rest'[i] = Rest[c + i]
    BY <1>12, <1>13, <2>1
  <2>3. WholeWords(Rest', Left - c) /\ Ordered(Rest', Left - c)
    BY <1>2, <1>4, <2>2, TheRest
  <2>4. \A i \in 0..(c - 1), j \in c..(Left - 1) : Rest[i].n < Rest[j].n
    BY <1>2, <1>4, <2>2, RestIsNewer
  <2>5. WholeWords(Rest', Left - (k + 1)) /\ Ordered(Rest', Left - (k + 1))
    BY <2>1, <2>3
  <2> QED BY <1>5, <2>1, <2>4, <2>5
<1>15. ASSUME NEW i \in 0..(Left' - 1)
       PROVE  (k + 1) + i \in (k + 1)..(Left - 1) /\ (k + 1) + i \in 0..(Left - 1)
              /\ Rest'[i] = Rest[(k + 1) + i]
  <2>1. i \in 0..(Left - (k + 1) - 1)
    BY <1>11
  <2>2. Rest'[i] = Rest[(k + 1) + i]
    BY <1>12, <2>1
  <2>3. (k + 1) + i \in (k + 1)..(Left - 1) /\ (k + 1) + i \in 0..(Left - 1)
    BY <1>2, <1>5, <2>1
  <2> QED BY <2>2, <2>3
<1>16. TypeOK'
  BY <1>1, <1>2, <1>5, <1>7, <1>9 DEF IInv, TypeOK, ring, writer
<1>17. RingInv'
  BY <1>10 DEF IInv, RingInv
<1>18. WriterInv'
  BY <1>1, <1>10 DEF IInv, WriterInv, ring, writer, Place
<1>19. ReaderInv'
  BY <1>1, <1>2 DEF ReaderInv, Dispatch
<1>20. RestInv'
  <2>1. \A i \in 0..(Left - 1) :
          /\ Rest[i].n <= Published
          /\ \A j \in 0..(Used - 1) : Rest[i].n < Cells[j].n
    BY DEF IInv, RestInv
  <2> QED BY <1>10, <1>11, <1>14, <1>15, <2>1 DEF RestInv
<1>21. /\ Rest[0].n = m /\ m <= Published
       /\ \A j \in 0..(Used - 1) : m < Cells[j].n
       /\ \A i \in 0..(Left' - 1) : m < Rest'[i].n
       /\ \A d \in 1..Len(delivered) : delivered[d][1].n < m
  <2>1. 0 \in 0..(Left - 1) /\ 0 \in 0..(k + 1 - 1)
    BY <1>2, <1>5
  <2> QED BY <1>14, <1>15, <2>1 DEF m, IInv, RestInv, DeliveredInv
<1>22. \A d \in 1..Len(delivered') :
         \/ d \in 1..Len(delivered) /\ delivered'[d] = delivered[d]
         \/ d = Len(delivered) + 1 /\ delivered'[d] = WordsOf(m, k)
  BY <1>9
<1>23. WordsOf(m, k)[1].n = m /\ WordsOf(m, k)[1].args = k
  BY <1>8 DEF Word
<1>24. DeliveredInv'
  <2>1. ASSUME NEW d \in 1..Len(delivered)
        PROVE  /\ delivered[d][1].n \in Nat /\ delivered[d][1].n <= Published
               /\ \A j \in 0..(Used - 1) : delivered[d][1].n < Cells[j].n
               /\ \A i \in 0..(Left' - 1) : delivered[d][1].n < Rest'[i].n
    BY <1>15 DEF IInv, DeliveredInv
  <2> QED BY <1>5, <1>10, <1>21, <1>22, <1>23, <2>1 DEF DeliveredInv
<1>25. DeliveredWhole'
  <2>1. ASSUME NEW d \in 1..Len(delivered)
        PROVE  delivered[d] = WordsOf(delivered[d][1].n, delivered[d][1].args)
    BY DEF IInv, DeliveredWhole
  <2> QED BY <1>22, <1>23, <2>1 DEF DeliveredWhole
<1>26. DeliveredInOrder'
  <2> SUFFICES ASSUME NEW i \in 1..Len(delivered'), NEW j \in 1..Len(delivered'), i < j
               PROVE  delivered'[i][1].n < delivered'[j][1].n
    BY DEF DeliveredInOrder
  <2>1. i \in 1..Len(delivered) /\ delivered'[i] = delivered[i]
    BY <1>9
  <2>2. CASE j \in 1..Len(delivered) /\ delivered'[j] = delivered[j]
    BY <2>1, <2>2 DEF IInv, DeliveredInOrder
  <2>3. CASE delivered'[j] = WordsOf(m, k)
    BY <1>21, <1>23, <2>1, <2>3
  <2> QED BY <1>22, <2>2, <2>3
<1>27. HandsWords(m, k)
  BY <1>5, <1>7, <1>11, <1>12, <1>13 DEF HandsWords
<1> QED BY <1>16, <1>17, <1>18, <1>19, <1>20, <1>24, <1>25, <1>26, <1>27 DEF IInv

-------------------------------------------------------------------------------
LEMMA Inductive == IInv /\ [Next]_vars => IInv'
<1> SUFFICES ASSUME IInv, [Next]_vars PROVE IInv'
  OBVIOUS
<1>1. CASE UNCHANGED vars
  <2>1. UNCHANGED ring /\ UNCHANGED writer /\ UNCHANGED reader
    BY <1>1 DEF vars
  <2>2. TypeOK' /\ WriterInv' /\ Published' = Published /\ Published \in Nat
    BY <2>1, SameRing DEF IInv, TypeOK, WriterInv, ring, writer, reader, Place, Published
  <2> QED BY <2>1, <2>2, SameRing, RestStays DEF IInv
<1>2. ASSUME NEW k \in ArgCounts, Hook(k) PROVE IInv'
  BY <1>2, HookStep
<1>3. CASE Begin
  BY <1>3, BeginStep
<1>4. CASE CopyIn
  BY <1>4, CopyInStep
<1>5. CASE Publish
  BY <1>5, PublishStep
<1>6. CASE Count
  BY <1>6, CountStep
<1>7. CASE Check
  BY <1>7, CheckStep
<1>8. CASE CopyOut
  BY <1>8, CopyOutStep
<1>9. CASE Free
  BY <1>9, FreeStep
<1>10. CASE Dispatch
  BY <1>10, DispatchStep
<1> QED
  BY <1>1, <1>2, <1>3, <1>4, <1>5, <1>6, <1>7, <1>8, <1>9, <1>10
  DEF Next, Writing, Receiving

THEOREM Invariance == Spec => []IInv
<1> QED BY InitIInv, Inductive, PTL DEF Spec

(* The indices stay in the ring and the counters in their ranges, for      *)
(* every size.                                                             *)
THEOREM TypeCorrect == Spec => []TypeOK
<1>1. IInv => TypeOK
  BY DEF IInv
<1> QED BY <1>1, Invariance, PTL

(* A hook is given whole messages only (libpd_queued_receive_pd_messages). *)
THEOREM MessagesWhole == Spec => []DeliveredWhole
<1>1. IInv => DeliveredWhole
  BY DEF IInv
<1> QED BY <1>1, Invariance, PTL

(* Messages keep their order and none is handed over twice.                *)
THEOREM MessagesInOrder == Spec => []DeliveredInOrder
<1>1. IInv => DeliveredInOrder
  BY DEF IInv
<1> QED BY <1>1, Invariance, PTL

(* rb_write_to_buffer and rb_read_from_buffer never refuse: the hook and   *)
(* the receiver looked before, and what they saw only gets better.         *)
NeverRefused ==
  /\ wpc = "begin" => AvailableToWrite >= 1 + args
  /\ rpc = "check" => available <= AvailableToRead
THEOREM CopiesNotRefused == Spec => []NeverRefused
<1>1. IInv => NeverRefused
  <2> SUFFICES ASSUME IInv PROVE NeverRefused
    OBVIOUS
  <2>1. /\ AvailableToRead = Used /\ AvailableToWrite = Size - 1 - Used
        /\ Used \in 0..(Size - 1) /\ Size \in Nat /\ args \in Nat
    BY UsedIs, QueueAssumption DEF IInv, TypeOK
  <2> QED BY <2>1 DEF IInv, WriterInv, ReaderInv, NeverRefused
<1> QED BY <1>1, Invariance, PTL

-------------------------------------------------------------------------------
(* The messages of the first L words of f, by their headers.               *)
MessageOf(w) == [n |-> w.n, args |-> w.args]
Heads(f, L) == {MessageOf(f[i]) : i \in {j \in 0..(L - 1) : f[j].part = 0}}

(* g begins like f; a message lies in g at a; and g is what follows f's     *)
(* first c words.                                                          *)
BeginsLike(g, f, L) == \A i \in 0..(L - 1) : g[i] = f[i]
LiesAt(g, a, n, k) == \A j \in 0..k : g[a + j] = Word(n, j, k)
Follows(g, f, c, L) == \A i \in 0..(L - 1) : g[i] = f[c + i]

LEMMA SameHeads ==
  ASSUME NEW L \in Nat, NEW f, NEW g, \A i \in 0..(L - 1) : g[i] = f[i]
  PROVE  Heads(g, L) = Heads(f, L)
BY DEF Heads

(* One more message behind them.                                           *)
LEMMA HeadsMore ==
  ASSUME NEW L \in Nat, NEW n, NEW k \in Nat, NEW f, NEW g,
         BeginsLike(g, f, L), LiesAt(g, L, n, k), NEW M, M = L + k + 1
  PROVE  Heads(g, M) = Heads(f, L) \cup {[n |-> n, args |-> k]}
<1> DEFINE m == [n |-> n, args |-> k]
<1> USE DEF BeginsLike, LiesAt
<1>1. g[L].part = 0 /\ MessageOf(g[L]) = m
  <2>1. 0 \in 0..k /\ L + 0 = L
    OBVIOUS
  <2>2. g[L] = Word(n, 0, k)
    BY <2>1
  <2> QED BY <2>2 DEF Word, MessageOf
<1>2. ASSUME NEW i \in 0..(L + k)
      PROVE  \/ i \in 0..(L - 1) /\ g[i] = f[i]
             \/ i = L
             \/ i > L /\ g[i].part # 0
  <2> SUFFICES ASSUME i > L PROVE g[i].part # 0
    OBVIOUS
  <2>1. i - L \in 0..k /\ L + (i - L) = i /\ i - L # 0
    OBVIOUS
  <2>2. g[L + (i - L)] = Word(n, i - L, k)
    BY <2>1
  <2>3. g[i] = Word(n, i - L, k)
    BY <2>1, <2>2
  <2> QED BY <2>1, <2>3 DEF Word
<1>3. \A i : i \in 0..(L + k + 1 - 1) <=> i \in 0..(L + k)
  OBVIOUS
<1>4. 0..(L - 1) \subseteq 0..(L + k) /\ L \in 0..(L + k)
  OBVIOUS
<1> HIDE DEF m
<1>5. ASSUME NEW x \in Heads(g, L + k + 1) PROVE x \in Heads(f, L) \cup {m}
  <2>1. PICK i \in 0..(L + k) : g[i].part = 0 /\ x = MessageOf(g[i])
    BY <1>3 DEF Heads
  <2> QED BY <1>1, <1>2, <2>1 DEF Heads
<1>6. ASSUME NEW x \in Heads(f, L) \cup {m} PROVE x \in Heads(g, L + k + 1)
  <2>1. CASE x = m
    BY <1>1, <1>3, <1>4, <2>1 DEF Heads
  <2>2. CASE x \in Heads(f, L)
    <3>1. PICK i \in 0..(L - 1) : f[i].part = 0 /\ x = MessageOf(f[i])
      BY <2>2 DEF Heads
    <3>2. g[i] = f[i] /\ i \in 0..(L + k)
      BY <1>4, <3>1
    <3> QED BY <1>3, <3>1, <3>2 DEF Heads
  <2> QED BY <2>1, <2>2
<1> QED BY <1>5, <1>6 DEF m

(* The first c words, and the others.                                      *)
LEMMA HeadsParted ==
  ASSUME NEW L \in Nat, NEW c \in 0..L, NEW f, NEW g, Follows(g, f, c, L - c)
  PROVE  Heads(f, L) = Heads(f, c) \cup Heads(g, L - c)
<1> USE DEF Follows
<1>1. ASSUME NEW x \in Heads(f, L) PROVE x \in Heads(f, c) \cup Heads(g, L - c)
  <2>1. PICK i \in 0..(L - 1) : f[i].part = 0 /\ x = MessageOf(f[i])
    BY DEF Heads
  <2>2. CASE i < c
    <3>1. i \in 0..(c - 1)
      BY <2>2
    <3> QED BY <2>1, <3>1 DEF Heads
  <2>3. CASE i >= c
    <3>1. i - c \in 0..(L - c - 1) /\ c + (i - c) = i
      BY <2>3
    <3>2. g[i - c] = f[i]
      BY <3>1
    <3> QED BY <2>1, <3>1, <3>2 DEF Heads
  <2> QED BY <2>2, <2>3
<1>2. ASSUME NEW x \in Heads(f, c) PROVE x \in Heads(f, L)
  <2>1. PICK i \in 0..(c - 1) : f[i].part = 0 /\ x = MessageOf(f[i])
    BY DEF Heads
  <2>2. i \in 0..(L - 1)
    OBVIOUS
  <2> QED BY <2>1, <2>2 DEF Heads
<1>3. ASSUME NEW x \in Heads(g, L - c) PROVE x \in Heads(f, L)
  <2>1. PICK i \in 0..(L - c - 1) : g[i].part = 0 /\ x = MessageOf(g[i])
    BY DEF Heads
  <2>2. g[i] = f[c + i] /\ c + i \in 0..(L - 1)
    OBVIOUS
  <2> QED BY <2>1, <2>2 DEF Heads
<1> QED BY <1>1, <1>2, <1>3

LEMMA HeadsOlder ==
  ASSUME NEW L \in Nat, NEW c \in 0..L, NEW f, NEW g,
         WholeWords(f, L), Ordered(f, L), WholeWords(f, c),
         Follows(g, f, c, L - c), NEW x \in Heads(f, c), NEW y \in Heads(g, L - c)
  PROVE  x.n \in Nat /\ y.n \in Nat /\ x.n < y.n
<1>1. PICK i \in 0..(c - 1) : x = MessageOf(f[i])
  BY DEF Heads
<1>2. PICK j \in 0..(L - c - 1) : y = MessageOf(g[j])
  BY DEF Heads
<1>3. /\ i \in 0..(L - 1) /\ c + j \in 0..(L - 1) /\ c + j \in c..(L - 1)
      /\ g[j] = f[c + j]
  BY DEF Follows
<1>4. f[i].n < f[c + j].n
  BY <1>3, RestIsNewer
<1>5. f[i].n \in Nat /\ f[c + j].n \in Nat
  BY <1>3 DEF WholeWords, Words
<1> QED BY <1>1, <1>2, <1>3, <1>4, <1>5 DEF MessageOf

LEMMA HeadsAreNumbered ==
  ASSUME NEW L \in Nat, NEW f, WholeWords(f, L), NEW x \in Heads(f, L)
  PROVE  x.n \in Nat
BY DEF Heads, MessageOf, WholeWords, Words

(* The last message is the newest, the first one the oldest.               *)
LEMMA LastHead ==
  ASSUME NEW c \in Nat, c >= 1, NEW f, WholeWords(f, c), Ordered(f, c)
  PROVE  \E m \in Heads(f, c) : \A x \in Heads(f, c) : x.n <= m.n
<1> DEFINE i == c - 1
           h == i - f[i].part
<1>1. /\ i \in 0..(c - 1) /\ f[i] \in Words /\ f[i].part <= i
      /\ \A j \in 0..f[i].args : f[i - f[i].part + j] = Word(f[i].n, j, f[i].args)
  BY DEF WholeWords
<1>2. f[i].part \in Nat /\ f[i].args \in Nat /\ f[i].n \in Nat
  BY <1>1 DEF Words
<1>3. h \in 0..(c - 1) /\ f[h] = Word(f[i].n, 0, f[i].args)
  <2>1. 0 \in 0..f[i].args /\ i - f[i].part + 0 = h
    BY <1>1, <1>2
  <2> QED BY <1>1, <1>2, <2>1
<1> HIDE DEF h
<1>4. MessageOf(f[h]) \in Heads(f, c) /\ MessageOf(f[h]).n = f[i].n
  BY <1>3 DEF Heads, MessageOf, Word
<1>5. ASSUME NEW x \in Heads(f, c) PROVE x.n <= f[i].n
  <2>1. PICK j \in 0..(c - 1) : x = MessageOf(f[j])
    BY DEF Heads
  <2>2. x.n = f[j].n /\ f[j].n \in Nat
    BY <2>1 DEF MessageOf, WholeWords, Words
  <2>3. CASE j = i
    BY <1>2, <2>2, <2>3
  <2>4. CASE j < i
    <3>1. f[j].n < f[i].n \/ f[j].n = f[i].n
      BY <1>1, <2>4 DEF Ordered
    <3> QED BY <1>2, <2>2, <3>1
  <2> QED BY <2>3, <2>4
<1> QED BY <1>4, <1>5

LEMMA FirstHead ==
  ASSUME NEW L \in Nat, L >= 1, NEW f, Ordered(f, L), WholeWords(f, L),
         NEW x \in Heads(f, L)
  PROVE  f[0].n <= x.n
<1>1. PICK j \in 0..(L - 1) : x = MessageOf(f[j])
  BY DEF Heads
<1>2. x.n = f[j].n /\ 0 \in 0..(L - 1)
  BY <1>1 DEF MessageOf
<1>3. f[j].n \in Nat /\ f[0].n \in Nat
  BY <1>2 DEF WholeWords, Words
<1>4. CASE j = 0
  BY <1>2, <1>3, <1>4
<1>5. CASE 0 < j
  <2>1. f[0].n < f[j].n \/ f[0].n = f[j].n
    BY <1>2, <1>5 DEF Ordered
  <2> QED BY <1>2, <1>3, <2>1
<1> QED BY <1>4, <1>5

(* The messages of L words have L words: each is known by its message and  *)
(* its part.                                                               *)
LEMMA WordsCounted ==
  ASSUME NEW L \in Nat, NEW f, WholeWords(f, L), Ordered(f, L)
  PROVE  Cardinality(Promised!WordsIn(Heads(f, L))) = L
<1> DEFINE S == Promised!WordsIn(Heads(f, L))
           I == 0..(L - 1)
           g == [i \in I |-> <<f[i].n, f[i].part>>]
<1>1. ASSUME NEW i \in I
      PROVE  /\ f[i].n \in Nat /\ f[i].part \in Nat /\ f[i].args \in Nat
             /\ f[i].part <= i /\ f[i].part <= f[i].args
             /\ i - f[i].part + f[i].args < L
             /\ \A j \in 0..f[i].args :
                  f[i - f[i].part + j] = Word(f[i].n, j, f[i].args)
  BY DEF WholeWords, Words
<1>2. ASSUME NEW y
      PROVE  y \in S <=> \E m \in Heads(f, L) : y \in {m.n} \X (0..m.args)
  BY DEF Promised!WordsIn
<1> HIDE DEF S
<1>3. ASSUME NEW i \in I PROVE g[i] \in S
  <2> DEFINE h == i - f[i].part
  <2>1. h \in I /\ 0 \in 0..f[i].args /\ i - f[i].part + 0 = h
    BY <1>1
  <2>2. f[h] = Word(f[i].n, 0, f[i].args)
    BY <1>1, <2>1
  <2> HIDE DEF h
  <2>3. MessageOf(f[h]) \in Heads(f, L)
    BY <2>1, <2>2 DEF Heads, Word
  <2>4. MessageOf(f[h]).n = f[i].n /\ MessageOf(f[h]).args = f[i].args
    BY <2>2 DEF MessageOf, Word
  <2>5. f[i].part \in 0..f[i].args
    BY <1>1
  <2>6. g[i] \in {MessageOf(f[h]).n} \X (0..MessageOf(f[h]).args)
    BY <2>4, <2>5
  <2> QED BY <1>2, <2>3, <2>6
<1>4. ASSUME NEW y \in S PROVE \E i \in I : g[i] = y
  <2>1. PICK m \in Heads(f, L) : y \in {m.n} \X (0..m.args)
    BY <1>2
  <2>2. PICK h \in I : f[h].part = 0 /\ m = MessageOf(f[h])
    BY DEF Heads
  <2>3. PICK p \in 0..m.args : y = <<m.n, p>>
    BY <2>1
  <2>4. m.n = f[h].n /\ m.args = f[h].args
    BY <2>2 DEF MessageOf
  <2>5. h + p \in I /\ h - f[h].part + p = h + p
    BY <1>1, <2>2, <2>3, <2>4
  <2>6. f[h - f[h].part + p] = Word(f[h].n, p, f[h].args)
    BY <1>1, <2>3, <2>4
  <2>7. f[h + p] = Word(f[h].n, p, f[h].args)
    BY <2>5, <2>6
  <2>8. g[h + p] = y
    BY <2>3, <2>4, <2>5, <2>7 DEF Word
  <2> QED BY <2>5, <2>8
<1>5. ASSUME NEW i \in I, NEW j \in I, i < j PROVE g[i] # g[j]
  <2>1. \/ f[i].n < f[j].n
        \/ f[i].n = f[j].n /\ f[j].part = f[i].part + (j - i)
    BY <1>5 DEF Ordered
  <2>2. f[i].n # f[j].n \/ f[i].part # f[j].part
    BY <1>1, <1>5, <2>1
  <2>3. g[i] = <<f[i].n, f[i].part>> /\ g[j] = <<f[j].n, f[j].part>>
    OBVIOUS
  <2> HIDE DEF g
  <2> QED BY <2>2, <2>3
<1>6. g \in [I -> S]
  BY <1>3
<1>7. \A i, j \in I : g[i] = g[j] => i = j
  <2> SUFFICES ASSUME NEW i \in I, NEW j \in I, g[i] = g[j], i # j PROVE FALSE
    OBVIOUS
  <2>1. i < j \/ j < i
    OBVIOUS
  <2> HIDE DEF g
  <2> QED BY <1>5, <2>1
<1> HIDE DEF g
<1>8. g \in Injection(I, S) /\ g \in Surjection(I, S)
  BY <1>4, <1>6, <1>7 DEF Injection, IsInjective, Surjection
<1>9. IsFiniteSet(I) /\ Cardinality(I) = L
  BY FS_Interval
<1> QED BY <1>8, <1>9, FS_Surjection DEF S

LEMMA SameCardinality ==
  ASSUME NEW S
  PROVE  Promised!Cardinality(S) = Cardinality(S)
BY DEF Promised!Cardinality, Cardinality

-------------------------------------------------------------------------------
(* The mapping, in terms of the words of the ring and of temp_buffer.      *)
LEMMA MappedIs ==
  IInv => /\ Waiting = Heads(Cells, Used) /\ Batch = Heads(Rest, Left)
          /\ Offered = Published
<1> SUFFICES ASSUME IInv
             PROVE  /\ Waiting = Heads(Cells, Used) /\ Batch = Heads(Rest, Left)
                    /\ Offered = Published
  OBVIOUS
<1>1. /\ Used \in 0..(Size - 1) /\ AvailableToRead = Used /\ Size \in Nat
      /\ read_idx \in 0..(Size - 1)
  BY UsedIs, QueueAssumption DEF IInv, TypeOK
<1>2. ASSUME NEW i \in 0..(Used - 1)
      PROVE  buf[(read_idx + i) % Size] = Cells[i]
  <2>1. i \in 0..Size
    BY <1>1
  <2>2. (read_idx + i) % Size = Place(read_idx, i)
    BY <1>1, <2>1, PlaceIs
  <2> QED BY <2>2 DEF Cells
<1>3. RingWords = {Cells[i] : i \in 0..(Used - 1)}
  BY <1>1, <1>2 DEF RingWords
<1>4. Waiting = Heads(Cells, Used)
  BY <1>3 DEF Waiting, MessagesIn, Heads, MessageOf
<1>5. Batch = Heads(Rest, Left)
  <2>1. CASE rpc # "dispatch"
    BY <2>1 DEF Batch, Left, Heads
  <2>2. CASE rpc = "dispatch"
    <3>1. /\ Left = available - pos /\ Len(temp) = available
          /\ available \in Nat /\ pos \in Nat
      BY <2>2 DEF IInv, ReaderInv, TypeOK, Left
    <3>2. ASSUME NEW i \in 0..(Left - 1)
          PROVE  Rest[i] = temp[pos + 1 + i] /\ pos + 1 + i \in (pos + 1)..Len(temp)
      BY <3>1 DEF Rest
    <3>3. ASSUME NEW i \in (pos + 1)..Len(temp)
          PROVE  i - (pos + 1) \in 0..(Left - 1) /\ temp[i] = Rest[i - (pos + 1)]
      <4>1. i - (pos + 1) \in 0..(Left - 1) /\ pos + 1 + (i - (pos + 1)) = i
        BY <3>1
      <4> QED BY <3>2, <4>1
    <3>4. TempWords = {Rest[i] : i \in 0..(Left - 1)}
      BY <3>2, <3>3 DEF TempWords
    <3> QED BY <2>2, <3>4 DEF Batch, MessagesIn, Heads, MessageOf
  <2> QED BY <2>1, <2>2
<1> QED BY <1>4, <1>5 DEF Offered, Published

(* What waits takes the words between the indices of the ring.            *)
LEMMA WaitingWords ==
  ASSUME IInv
  PROVE  Promised!Cardinality(Promised!WordsIn(Waiting)) = Used
<1>1. Used \in 0..(Size - 1) /\ Size \in Nat
  BY UsedIs, QueueAssumption DEF IInv
<1>2. Used \in Nat
  BY <1>1
<1>3. WholeWords(Cells, Used) /\ Ordered(Cells, Used)
  BY DEF IInv, RingInv
<1>4. Cardinality(Promised!WordsIn(Heads(Cells, Used))) = Used
  BY <1>2, <1>3, WordsCounted
<1>5. Waiting = Heads(Cells, Used)
  BY MappedIs
<1> QED BY <1>4, <1>5, SameCardinality

(* A message that is begun is one of those Pd may send.                    *)
ArgsInv == wpc # "idle" => args \in ArgCounts

LEMMA ArgsAreCounts == Spec => []ArgsInv
<1>1. Init => ArgsInv
  BY DEF Init, ArgsInv
<1>2. ArgsInv /\ [Next]_vars => ArgsInv'
  BY DEF ArgsInv, Next, vars, writer, Hook, Writing, Begin, CopyIn, Publish,
         Receiving, Count, Check, CopyOut, Free, Dispatch
<1> QED BY <1>1, <1>2, PTL DEF Spec

LEMMA MappedAfter ==
  ASSUME IInv'
  PROVE  /\ Waiting' = Heads(Cells', Used') /\ Batch' = Heads(Rest', Left')
         /\ Offered' = Published'
<1>1. (IInv => /\ Waiting = Heads(Cells, Used) /\ Batch = Heads(Rest, Left)
                /\ Offered = Published)'
  BY MappedIs, PTL
<1> QED BY <1>1

(* Steps the promise does not see.                                         *)
LEMMA Unseen ==
  ASSUME IInv, IInv', Used' = Used, Cells' = Cells, Batch' = Batch,
         Published' = Published, delivered' = delivered
  PROVE  UNCHANGED Promised!qvars
<1>1. Waiting' = Waiting /\ Offered' = Offered
  BY MappedIs, MappedAfter
<1>2. Handed' = Handed
  BY DEF Handed
<1> QED BY <1>1, <1>2 DEF Promised!qvars

LEMMA HookPromised ==
  ASSUME IInv, IInv', NEW k \in ArgCounts, Hook(k)
  PROVE  [Promised!QNext]_(Promised!qvars)
<1>1. UNCHANGED ring /\ UNCHANGED reader /\ wpc = "idle" /\ made < MaxMessages
      /\ made' = made + 1
  BY DEF Hook
<1>2. /\ Used' = Used /\ Cells' = Cells /\ Batch' = Batch /\ delivered' = delivered
      /\ Published = made
  BY <1>1, SameRing DEF reader, Batch, TempWords, Published
<1>3. CASE wpc' = "begin"
  <2>1. made \in Nat
    BY DEF IInv, TypeOK
  <2>2. Published' = Published
    BY <1>1, <1>2, <1>3, <2>1 DEF Published
  <2> QED BY <1>2, <2>2, Unseen
<1>4. CASE wpc' = wpc
  <2>1. Offered' = Offered + 1 /\ Offered < MaxMessages
    BY <1>1, <1>4 DEF Offered
  <2>2. Waiting' = Waiting /\ Handed' = Handed
    BY <1>2, MappedIs, MappedAfter DEF Handed
  <2>3. ~Promised!Fits(k)
    <3>1. /\ AvailableToWrite = Size - 1 - Used /\ Used \in 0..(Size - 1)
          /\ Size \in Nat /\ k \in Nat /\ ~(AvailableToWrite >= 1 + k)
      BY <1>1, <1>4, UsedIs, QueueAssumption DEF Hook, IInv
    <3> QED BY <3>1, WaitingWords DEF Promised!Fits
  <2>4. Promised!Lose(k)
    BY <1>2, <2>1, <2>2, <2>3 DEF Promised!Lose
  <2> QED BY <2>4 DEF Promised!QNext
<1> QED BY <1>3, <1>4 DEF Hook

LEMMA BeginPromised ==
  ASSUME IInv, IInv', Begin
  PROVE  UNCHANGED Promised!qvars
<1>1. UNCHANGED ring /\ UNCHANGED reader /\ wpc = "begin" /\ made' = made
  BY DEF Begin
<1>2. Used' = Used /\ Cells' = Cells /\ Batch' = Batch /\ delivered' = delivered
  BY <1>1, SameRing DEF reader, Batch, TempWords
<1>3. wpc' = "copy"
  <2>1. /\ AvailableToWrite = Size - 1 - Used /\ Used \in 0..(Size - 1)
        /\ Size \in Nat /\ args \in Nat /\ Used + 1 + args < Size
    BY <1>1, UsedIs, QueueAssumption DEF IInv, TypeOK, WriterInv
  <2>2. ~(AvailableToWrite < 1 + args)
    BY <2>1
  <2> QED BY <2>2 DEF Begin
<1>4. Published' = Published
  BY <1>1, <1>3 DEF Published
<1> QED BY <1>2, <1>4, Unseen

LEMMA PublishPromised ==
  ASSUME IInv, IInv', ArgsInv, Publish
  PROVE  Promised!QNext
<1>1. /\ UNCHANGED reader /\ wpc = "publish" /\ wpc' = "idle" /\ made' = made
      /\ Used \in 0..(Size - 1) /\ Size \in Nat /\ args \in Nat
      /\ Used + 1 + args < Size /\ made \in 1..MaxMessages
  BY SMTT(20), QueueAssumption, UsedIs DEF IInv, TypeOK, WriterInv, Publish
<1>2. ShowsMessage
  BY PublishStep
<1>3. Heads(Cells', Used') = Heads(Cells, Used) \cup {[n |-> made, args |-> args]}
  <2>1. Used \in Nat /\ Used' = Used + args + 1
    BY <1>1, <1>2 DEF ShowsMessage
  <2>2. BeginsLike(Cells', Cells, Used) /\ LiesAt(Cells', Used, made, args)
    BY <1>2 DEF ShowsMessage, BeginsLike, LiesAt
  <2> QED BY <1>1, <2>1, <2>2, HeadsMore
<1>4. Offered = made - 1 /\ Offered' = made /\ QueueAssumption
  BY <1>1, QueueAssumption DEF Offered
<1>5. Waiting' = Waiting \cup {Promised!Message(Offered + 1, args)}
  <2>1. Promised!Message(Offered + 1, args) = [n |-> made, args |-> args]
    BY <1>1, <1>4 DEF Promised!Message
  <2> QED BY <1>3, <2>1, MappedIs, MappedAfter
<1>6. Batch' = Batch /\ Handed' = Handed
  BY <1>1 DEF reader, Batch, TempWords, Handed
<1>7. Promised!Fits(args)
  BY <1>1, WaitingWords DEF Promised!Fits
<1>8. Offered < MaxMessages /\ Offered' = Offered + 1
  BY <1>1, <1>4, QueueAssumption
<1>9. Promised!Accept(args) /\ args \in ArgCounts
  BY <1>1, <1>5, <1>6, <1>7, <1>8 DEF Promised!Accept, ArgsInv
<1> QED BY <1>9 DEF Promised!QNext

LEMMA FreePromised ==
  ASSUME IInv, IInv', Free
  PROVE  Promised!QNext
<1>1. /\ rpc = "free" /\ UNCHANGED writer /\ delivered' = delivered
      /\ Used \in Nat /\ available \in 0..Used /\ available >= 1
      /\ WholeWords(Cells, available) /\ WholeWords(Cells, Used)
      /\ Ordered(Cells, Used)
  <2>1. TypeOK /\ ReaderInv /\ RingInv /\ rpc = "free"
    BY DEF IInv, Free
  <2> QED BY SMTT(20), <2>1, UsedIs, QueueAssumption DEF Free, TypeOK, ReaderInv, RingInv
<1>2. TakesWords
  BY FreeStep
<1> DEFINE Old == Heads(Cells, available)
           New == Heads(Cells', Used')
<1>3. Waiting = Old \cup New /\ Waiting' = New
  <2>1. /\ Follows(Cells', Cells, available, Used - available)
        /\ Used' = Used - available
    BY <1>2 DEF TakesWords, Follows
  <2>2. Heads(Cells, Used) = Old \cup Heads(Cells', Used - available)
    BY <1>1, <2>1, HeadsParted
  <2> QED BY <2>1, <2>2, MappedIs, MappedAfter
<1>4. ASSUME NEW x \in Old, NEW y \in New
      PROVE  x.n \in Nat /\ y.n \in Nat /\ x.n < y.n
  <2>1. /\ Follows(Cells', Cells, available, Used - available)
        /\ Used' = Used - available
    BY <1>2 DEF TakesWords, Follows
  <2>2. y \in Heads(Cells', Used - available)
    BY <2>1
  <2> QED BY <1>1, <2>1, <2>2, HeadsOlder
<1>5. Batch = {} /\ Batch' = Old
  <2>1. Left' = available /\ \A i \in 0..(available - 1) : Rest'[i] = Cells[i]
    BY <1>2 DEF TakesWords
  <2>2. available \in Nat
    BY <1>1
  <2>3. Heads(Rest', available) = Old
    BY <2>1, <2>2, SameHeads
  <2> QED BY <1>1, <2>1, <2>3, MappedAfter DEF Batch
<1>6. PICK m \in Old : \A x \in Old : x.n <= m.n
  <2>1. available \in Nat /\ Ordered(Cells, available)
    BY <1>1 DEF Ordered
  <2> QED BY <1>1, <2>1, LastHead
<1> HIDE DEF Old, New
<1>7. /\ Batch' = {x \in Waiting : x.n <= m.n}
      /\ Waiting' = {x \in Waiting : x.n > m.n}
  <2>1. \A y \in New : m.n \in Nat /\ y.n \in Nat /\ m.n < y.n
    BY <1>4
  <2>2. \A y \in New : ~(y.n <= m.n) /\ y.n > m.n
    BY <2>1
  <2>3. \A x \in Old : x.n <= m.n /\ ~(x.n > m.n)
    <3> SUFFICES ASSUME NEW x \in Old PROVE ~(x.n > m.n)
      BY <1>6
    <3>1. x.n \in Nat /\ m.n \in Nat
      BY <1>1, HeadsAreNumbered DEF Old
    <3> QED BY <1>6, <3>1
  <2> QED BY <1>3, <1>5, <2>2, <2>3
<1>8. Offered' = Offered /\ Handed' = Handed
  BY <1>1 DEF writer, Offered, Handed
<1>9. m \in Waiting /\ Promised!Take(m)
  BY <1>3, <1>5, <1>7, <1>8 DEF Promised!Take
<1> QED BY <1>9 DEF Promised!QNext, Promised!TakeSome

LEMMA DispatchPromised ==
  ASSUME IInv, IInv', Dispatch
  PROVE  Promised!QNext
<1>1. UNCHANGED ring /\ UNCHANGED writer
  BY DEF Dispatch
<1>2. PICK n, k : HandsWords(n, k)
  BY DispatchStep
<1> DEFINE m == [n |-> n, args |-> k]
           New == Heads(Rest', Left')
<1>3. /\ Left \in Nat /\ k + 1 \in 0..Left /\ k \in Nat /\ Left >= 1
      /\ WholeWords(Rest, Left) /\ Ordered(Rest, Left) /\ WholeWords(Rest, k + 1)
      /\ LiesAt(Rest, 0, n, k) /\ Left' = Left - (k + 1)
      /\ Follows(Rest', Rest, k + 1, Left - (k + 1))
  <2>1. Left \in Nat /\ k \in Nat /\ k < Left
    BY <1>2, LeftIs DEF IInv, HandsWords
  <2>2. LiesAt(Rest, 0, n, k)
    <3>1. \A j \in 0..k : 0 + j = j
      OBVIOUS
    <3> QED BY <1>2, <3>1 DEF HandsWords, LiesAt
  <2>3. Follows(Rest', Rest, k + 1, Left - (k + 1))
    BY <1>2 DEF HandsWords, Follows
  <2>4. Left >= 1 /\ k + 1 \in 0..Left
    BY <2>1
  <2> QED BY <1>2, <2>1, <2>2, <2>3, <2>4 DEF HandsWords, IInv, RestInv
<1>4. PICK c \in 0..Left : c = k + 1
  BY <1>3
<1>5. Heads(Rest, c) = {m}
  <2>1. BeginsLike(Rest, Rest, 0) /\ 0 \in Nat /\ c = 0 + k + 1
    BY <1>3, <1>4 DEF BeginsLike
  <2>2. Heads(Rest, c) = Heads(Rest, 0) \cup {m}
    BY <1>3, <2>1, HeadsMore
  <2>3. Heads(Rest, 0) = {}
    BY DEF Heads
  <2> QED BY <2>2, <2>3
<1>6. Batch = {m} \cup New /\ Batch' = New
  <2>1. Left \in Nat /\ c \in 0..Left /\ Follows(Rest', Rest, c, Left - c)
    BY <1>3, <1>4
  <2>2. Heads(Rest, Left) = Heads(Rest, c) \cup Heads(Rest', Left - c)
    BY <2>1, HeadsParted
  <2>3. Left' = Left - c
    BY <1>3, <1>4
  <2> QED BY <1>5, <2>2, <2>3, MappedIs, MappedAfter
<1>7. m \notin New
  <2> SUFFICES ASSUME m \in New PROVE FALSE
    OBVIOUS
  <2>1. /\ Follows(Rest', Rest, c, Left - c)
        /\ WholeWords(Rest, c) /\ m \in Heads(Rest, c)
        /\ m \in Heads(Rest', Left - c)
    BY <1>3, <1>4, <1>5
  <2>2. m.n \in Nat /\ m.n < m.n
    BY <1>3, <2>1, HeadsOlder
  <2> QED BY <2>2
<1>8. \A x \in Batch : m.n <= x.n
  <2>1. Rest[0].n = m.n
    <3>1. 0 \in 0..k /\ 0 + 0 = 0
      BY <1>3
    <3>2. Rest[0] = Word(n, 0, k)
      BY <1>3, <3>1 DEF LiesAt
    <3> QED BY <3>2 DEF Word
  <2> QED BY <1>3, <2>1, MappedIs, FirstHead
<1>9. Waiting' = Waiting /\ Offered' = Offered
  BY <1>1, SameRing, MappedIs, MappedAfter DEF writer, Offered
<1>10. Handed' = Append(Handed, m)
  <2>1. /\ delivered \in Seq(Seq(Words)) /\ delivered' \in Seq(Seq(Words))
        /\ delivered' = Append(delivered, WordsOf(n, k))
    BY <1>2 DEF HandsWords, IInv, TypeOK
  <2> DEFINE D == Len(delivered)
             MessageAt(d) == [n |-> d[1].n, args |-> Len(d) - 1]
  <2>2. /\ D \in Nat /\ Len(delivered') = D + 1
        /\ \A i \in 1..D : delivered'[i] = delivered[i]
        /\ delivered'[D + 1] = WordsOf(n, k)
    BY <2>1
  <2>3. MessageAt(WordsOf(n, k)) = m
    <3>1. Len(WordsOf(n, k)) = k + 1 /\ WordsOf(n, k)[1] = Word(n, 0, k)
      BY <1>3 DEF WordsOf
    <3> QED BY <1>3, <3>1 DEF Word
  <2>4. /\ Handed = [i \in 1..D |-> MessageAt(delivered[i])]
        /\ Handed' = [i \in 1..(D + 1) |-> MessageAt(delivered'[i])]
    BY <2>2 DEF Handed
  <2> HIDE DEF D, m, MessageAt
  <2>5. Append(Handed, m) = [i \in 1..(D + 1) |->
                               IF i \in 1..D THEN MessageAt(delivered[i]) ELSE m]
    BY <2>2, <2>4
  <2> QED BY <2>2, <2>3, <2>4, <2>5
<1> HIDE DEF m, New
<1>11. m \in Batch /\ Promised!HandOver(m)
  BY <1>6, <1>7, <1>8, <1>9, <1>10 DEF Promised!HandOver, Promised!Oldest
<1> QED BY <1>11 DEF Promised!QNext, Promised!HandOverOne

LEMMA StepPromised ==
  IInv /\ IInv' /\ ArgsInv /\ [Next]_vars => [Promised!QNext]_(Promised!qvars)
<1> SUFFICES ASSUME IInv, IInv', ArgsInv, [Next]_vars
             PROVE  [Promised!QNext]_(Promised!qvars)
  OBVIOUS
<1>1. CASE UNCHANGED vars
  <2>1. UNCHANGED ring /\ UNCHANGED writer /\ UNCHANGED reader
    BY <1>1 DEF vars
  <2>2. /\ Used' = Used /\ Cells' = Cells /\ Batch' = Batch
        /\ Published' = Published /\ delivered' = delivered
    BY <2>1, SameRing DEF writer, reader, Batch, TempWords, Published
  <2> QED BY <2>2, Unseen
<1>2. ASSUME NEW k \in ArgCounts, Hook(k)
      PROVE  [Promised!QNext]_(Promised!qvars)
  BY <1>2, HookPromised
<1>3. CASE Begin
  BY <1>3, BeginPromised
<1>4. CASE CopyIn
  <2>1. /\ Batch' = Batch /\ Published' = Published /\ delivered' = delivered
    BY <1>4 DEF CopyIn, reader, Batch, TempWords, Published
  <2> QED BY <1>4, <2>1, CopyInStep, Unseen
<1>5. CASE Publish
  BY <1>5, PublishPromised
<1>6. CASE Count \/ Check \/ CopyOut
  <2>1. UNCHANGED ring /\ UNCHANGED writer /\ delivered' = delivered
    BY <1>6 DEF Count, Check, CopyOut
  <2>2. rpc # "dispatch" /\ rpc' # "dispatch"
    <3>1. rpc = "check" => ~(available > AvailableToRead)
      <4>1. AvailableToRead = Used /\ Used \in 0..(Size - 1) /\ available \in Nat
        BY UsedIs DEF IInv, TypeOK
      <4>2. rpc = "check" => available <= Used
        BY DEF IInv, ReaderInv
      <4> QED BY <4>1, <4>2, QueueAssumption
    <3> QED BY <1>6, <3>1 DEF Count, Check, CopyOut
  <2>3. Batch' = Batch
    BY <2>2 DEF Batch
  <2>4. Used' = Used /\ Cells' = Cells /\ Published' = Published
    BY <2>1, SameRing DEF writer, Published
  <2> QED BY <2>1, <2>3, <2>4, Unseen
<1>7. CASE Free
  BY <1>7, FreePromised
<1>8. CASE Dispatch
  BY <1>8, DispatchPromised
<1> QED
  BY <1>1, <1>2, <1>3, <1>4, <1>5, <1>6, <1>7, <1>8
  DEF Next, Writing, Receiving

(* The ring, the temporary buffer and the two threads implement a queue    *)
(* that loses a message only if it does not fit besides those that wait,   *)
(* and hands the others over whole, each once, the oldest first.           *)
THEOREM ImplementsLossyQueue == Spec => Promised!QSafe
<1>1. Init => Promised!QInit
  <2> SUFFICES ASSUME Init PROVE Promised!QInit
    OBVIOUS
  <2>1. Used = 0 /\ Left = 0 /\ Heads(Cells, 0) = {} /\ Heads(Rest, 0) = {}
    BY DEF Init, Used, Left, Heads
  <2>2. Waiting = {} /\ Batch = {}
    BY <2>1, InitIInv, MappedIs
  <2>3. Offered = 0 /\ Handed = <<>>
    BY DEF Init, Offered, Handed
  <2> QED BY <2>2, <2>3 DEF Promised!QInit
<1> QED
  BY <1>1, StepPromised, Invariance, ArgsAreCounts, PTL DEF Spec, Promised!QSafe
===============================================================================
