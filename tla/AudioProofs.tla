---------------------------- MODULE AudioProofs ------------------------------
(* Proofs about the PortAudio rings for every number and size of buffers,  *)
(* every interleaving and every order in which the copies become visible:  *)
(* the indices stay consistent, a device loses at most one block, the two  *)
(* threads never wait for each other, and, where an index never becomes    *)
(* visible before its data, blocks come out whole and in order.  Second,   *)
(* about the sort of a DSP graph, for every patch and nesting of           *)
(* subpatches: which boxes it puts on the chain that makes the blocks.     *)
EXTENDS PaFifo, UgenGraph, FiniteSetTheorems, SequenceTheorems, TLAPS

O == ReadAvailable(out)
I == ReadAvailable(in)

(* Blocks a thread has decided to move and not yet moved.                  *)
Storing(pc, at, x) == pc = at /\ "store" \in x.todo
MainPuts  == IF Storing(mpc, "writing", mx) THEN mx.n ELSE 0
MainTakes == IF Storing(mpc, "reading", mx) THEN mx.n ELSE 0
CallbackTakes == IF Storing(cpc, "playing", cx) THEN cx.n ELSE 0
CallbackPuts  == IF Storing(cpc, "recording", cx) THEN cx.n ELSE 0

(* Blocks each has put or taken in one ring and owes to the other.         *)
MainOwes == IF mpc \in {"writing", "waitin"} THEN 1 ELSE 0
CallbackOwes == IF cpc \in {"playing", "room"} THEN FramesPerBuf ELSE 0

(* What the rings hold together short of one ring's worth.                 *)
Shortfall ==
  out.size - (O + MainPuts - CallbackTakes + I + CallbackPuts - MainTakes
              + CallbackOwes - MainOwes)

PcInv ==
  /\ mode = "out" => /\ mpc \in {"dsp", "waitout", "write", "writing"}
                     /\ cpc \in {"idle", "playing"}
  /\ mode = "in" => /\ mpc \in {"dsp", "waitin", "reading"}
                    /\ cpc \in {"idle", "room", "recording"}
  /\ mode = "both" => mpc # "waitout"
  /\ ~open => mpc = "dsp" /\ cpc = "idle"

RoomInv ==
  /\ O <= out.size /\ I <= in.size
  /\ Storing(mpc, "writing", mx) => O + mx.n <= out.size /\ mx.n <= 1
  /\ Storing(mpc, "reading", mx) => mx.n <= I /\ mx.n = 1
  /\ Storing(cpc, "playing", cx) => cx.n <= O /\ cx.n = FramesPerBuf
  /\ Storing(cpc, "recording", cx) => I + cx.n <= in.size
  /\ mode = "out" => lost = 0 /\ (mpc = "write" => O < out.size)

BalanceInv ==
  mode = "both" =>
    /\ lost <= 1
    /\ open => Shortfall \in {0, 1} /\ lost <= Shortfall

IInv == TypeOK /\ PcInv /\ RoomInv /\ BalanceInv
-------------------------------------------------------------------------------
(* The operations of a ring, for every size.                               *)

LEMMA RingFacts ==
  ASSUME NEW B \in Nat \ {0}, NEW q \in Ring(B)
  PROVE  q.size = B /\ ReadAvailable(q) \in Nat
BY DEF Ring, ReadAvailable

LEMMA FreshFacts ==
  ASSUME NEW B \in Nat \ {0}
  PROVE  /\ RingInit(B, 0) \in Ring(B) /\ ReadAvailable(RingInit(B, 0)) = 0
         /\ RingInit(B, B) \in Ring(B) /\ ReadAvailable(RingInit(B, B)) = B
         /\ RingInit(B, 0).size = B /\ RingInit(B, B).size = B
BY DEF Ring, RingInit, ReadAvailable

LEMMA PutFacts ==
  ASSUME NEW B \in Nat \ {0}, NEW q \in Ring(B), NEW n \in Nat,
         ReadAvailable(q) + n <= B
  PROVE  LET p == [q EXCEPT !.w = Advanced(q, @, n)]
         IN p \in Ring(B) /\ ReadAvailable(p) = ReadAvailable(q) + n
BY DEF Ring, ReadAvailable, Advanced

LEMMA TakeFacts ==
  ASSUME NEW B \in Nat \ {0}, NEW q \in Ring(B), NEW n \in Nat,
         n <= ReadAvailable(q), ReadAvailable(q) <= B
  PROVE  LET p == [q EXCEPT !.r = Advanced(q, @, n)]
         IN p \in Ring(B) /\ ReadAvailable(p) = ReadAvailable(q) - n
BY DEF Ring, ReadAvailable, Advanced

LEMMA SizesPositive ==
  \A B \in Sizes : B \in Nat \ {0} /\ FramesPerBuf <= B
<1> SUFFICES ASSUME NEW n \in NBuffers
             PROVE  /\ n * FramesPerBuf \in Nat \ {0}
                    /\ FramesPerBuf <= n * FramesPerBuf
  BY DEF Sizes
<1>1. n \in Nat \ {0} /\ FramesPerBuf \in Nat \ {0}
  BY PaAssumption
<1> QED BY <1>1

(* What TypeOK says of the sizes, in the form the steps use.               *)
LEMMA SizeFacts ==
  ASSUME TypeOK
  PROVE  /\ out.size \in Nat \ {0} /\ in.size = out.size
         /\ FramesPerBuf \in Nat \ {0} /\ FramesPerBuf <= out.size
         /\ out \in Ring(out.size) /\ in \in Ring(out.size)
         /\ O \in Nat /\ I \in Nat
         /\ mx.n \in Nat /\ cx.n \in Nat /\ lost \in Nat
         /\ mode \in AllModes
BY SizesPositive, RingFacts, PaAssumption DEF TypeOK, O, I, TransferOK

LEMMA InitIInv == Init => IInv
<1> SUFFICES ASSUME Init PROVE IInv
  OBVIOUS
<1>1. PICK B \in Sizes : out = RingInit(B, 0) /\ in = RingInit(B, B)
                         /\ DOMAIN outbuf = 0..(B - 1) /\ DOMAIN inbuf = 0..(B - 1)
  BY DEF Init, FreshIn, InFill
<1>2. /\ B \in Nat \ {0} /\ out \in Ring(B) /\ in \in Ring(B)
      /\ out.size = B /\ in.size = B /\ O = 0 /\ I = B
  BY <1>1, SizesPositive, FreshFacts DEF O, I
<1>3. TransferOK(NoTransfer)
  BY PaAssumption DEF TransferOK, NoTransfer
<1>4. TypeOK
  BY <1>1, <1>2, <1>3 DEF Init, TypeOK
<1>5. PcInv /\ RoomInv /\ BalanceInv
  BY <1>2 DEF Init, PcInv, RoomInv, BalanceInv, Storing
<1> QED BY <1>4, <1>5 DEF IInv

(* Fresh rings: any step that reinitialises them with no transfer under    *)
(* way keeps the invariant.                                                *)
LEMMA FreshKeeps ==
  ASSUME IInv, NEW B \in Sizes, FreshRings(B), cpc = "idle", cpc' = "idle",
         mpc \in {"dsp", "waitout", "waitin"}, mpc' \in {mpc, "dsp"},
         mode' \in Modes, mode' # mode => mpc' = "dsp",
         UNCHANGED <<mx, cx>>, open'
  PROVE  IInv'
<1>1. /\ B \in Nat \ {0} /\ out' \in Ring(B) /\ in' \in Ring(B)
      /\ out'.size = B /\ in'.size = B /\ O' = 0 /\ I' = B /\ lost' = 0
      /\ DOMAIN outbuf' = 0..(B - 1) /\ DOMAIN inbuf' = 0..(B - 1)
  BY SizesPositive, FreshFacts DEF O, I, FreshRings, FreshIn, InFill
<1>2. TypeOK'
  BY <1>1 DEF IInv, TypeOK
<1>3. PcInv'
  BY DEF IInv, PcInv
<1>4. RoomInv'
  BY <1>1 DEF RoomInv, Storing
<1>5. BalanceInv'
  BY <1>1 DEF BalanceInv, Shortfall, MainPuts, MainTakes, CallbackTakes,
              CallbackPuts, MainOwes, CallbackOwes, Storing
<1> QED BY <1>2, <1>3, <1>4, <1>5 DEF IInv

LEMMA DeviceKeeps ==
  IInv /\ (OpenAudio \/ CloseAudio \/ ReopenAudio \/ TimesOut) => IInv'
<1> SUFFICES ASSUME IInv, OpenAudio \/ CloseAudio \/ ReopenAudio \/ TimesOut
             PROVE  IInv'
  OBVIOUS
<1>1. CASE OpenAudio
  BY <1>1, FreshKeeps DEF OpenAudio, IInv, PcInv
<1>2. CASE ReopenAudio
  BY <1>2, FreshKeeps DEF ReopenAudio, MayClose, Waiting, IInv, TypeOK
<1>3. CASE TimesOut
  BY <1>3, FreshKeeps DEF TimesOut, MayClose, Waiting, IInv, TypeOK
<1>4. CASE CloseAudio
  <2>1. TypeOK'
    BY <1>4 DEF CloseAudio, rings, IInv, TypeOK
  <2>2. PcInv' /\ BalanceInv'
    BY <1>4 DEF CloseAudio, MayClose, IInv, PcInv, BalanceInv
  <2>3. O' = O /\ I' = I
    BY <1>4 DEF CloseAudio, rings, O, I
  <2>4. RoomInv'
    BY <1>4, <2>3 DEF CloseAudio, MayClose, rings, IInv, RoomInv, Storing
  <2> QED BY <2>1, <2>2, <2>4 DEF IInv
<1> QED BY <1>1, <1>2, <1>3, <1>4

(* The main thread.  PutsOutput is the step where a block may be lost: only*)
(* when the rings hold a whole ring's worth and all of it is output.       *)
LEMMA MainKeeps == IInv /\ (SendDacs \/ MainStep) => IInv'
<1> SUFFICES ASSUME IInv, SendDacs \/ MainStep PROVE IInv'
  OBVIOUS
<1>0. /\ TypeOK /\ PcInv /\ RoomInv /\ BalanceInv
      /\ out.size \in Nat \ {0} /\ in.size = out.size
      /\ FramesPerBuf \in Nat \ {0} /\ FramesPerBuf <= out.size
      /\ out \in Ring(out.size) /\ in \in Ring(out.size)
      /\ O \in Nat /\ I \in Nat
      /\ mx.n \in Nat /\ cx.n \in Nat /\ lost \in Nat
      /\ mode \in AllModes
  BY SizeFacts DEF IInv
<1>1. CASE SendDacs
  <2>1. O' = O /\ I' = I /\ out' = out /\ in' = in
    BY <1>1 DEF SendDacs, rings, O, I
  <2>2. TypeOK'
    BY <1>0, <1>1, <2>1, PaAssumption
       DEF SendDacs, rings, TypeOK, TransferOK, AllModes
  <2>3. PcInv'
    BY <1>0, <1>1 DEF SendDacs, PcInv
  <2>4. RoomInv'
    BY <1>0, <1>1, <2>1
       DEF SendDacs, rings, PcInv, RoomInv, Storing, AllModes
  <2>5. BalanceInv'
    BY <1>0, <1>1, <2>1
       DEF SendDacs, rings, PcInv, RoomInv, BalanceInv, AllModes,
           Shortfall, MainPuts, MainTakes, CallbackTakes,
           CallbackPuts, MainOwes, CallbackOwes, Storing
  <2> QED BY <2>2, <2>3, <2>4, <2>5 DEF IInv
<1>2. CASE RoomForOutput
  <2>1. O' = O /\ I' = I /\ out' = out /\ in' = in
    BY <1>2 DEF RoomForOutput, rings, O, I
  <2>2. TypeOK'
    BY <1>0, <1>2, <2>1, PaAssumption
       DEF RoomForOutput, rings, TypeOK, TransferOK
  <2>3. PcInv'
    BY <1>0, <1>2 DEF RoomForOutput, PcInv, OutHasRoom, WriteAvailable, O
  <2>4. RoomInv'
    BY <1>0, <1>2, <2>1
       DEF RoomForOutput, rings, PcInv, RoomInv, Storing, AllModes, OutHasRoom, WriteAvailable, O
  <2>5. BalanceInv'
    BY <1>0, <1>2, <2>1
       DEF RoomForOutput, rings, PcInv, RoomInv, BalanceInv, AllModes,
           Shortfall, MainPuts, MainTakes, CallbackTakes,
           CallbackPuts, MainOwes, CallbackOwes, Storing, OutHasRoom, WriteAvailable, O
  <2> QED BY <2>2, <2>3, <2>4, <2>5 DEF IInv
<1>3. CASE PutsOutput
  <2> DEFINE n == Fewer(1, WriteAvailable(out))
  <2>1. O' = O /\ I' = I /\ out' = out /\ in' = in
    BY <1>3 DEF PutsOutput, rings, O, I
  <2>2. /\ n \in Nat /\ n <= 1 /\ O + n <= out.size
        /\ n < 1 => O + n = out.size
    <3>1. WriteAvailable(out) = out.size - O
      BY <1>0 DEF WriteAvailable, O, I
    <3> QED BY <1>0, <3>1 DEF RoomInv, Fewer
  <2>3. /\ mx' = Transfer(out.w, n) /\ mpc = "write" /\ mpc' = "writing"
        /\ lost' = lost + (1 - n)
        /\ UNCHANGED <<open, mode, cpc, cx>>
    BY <1>3 DEF PutsOutput
  <2>4. out.w \in Nat
    BY <1>0 DEF Ring
  <2> HIDE DEF n
  <2>5. /\ mx'.n = n /\ mx'.at = out.w /\ mx'.todo = {"copy", "store"}
    BY <2>3 DEF Transfer
  <2>6. TransferOK(mx')
    BY <1>0, <2>2, <2>4, <2>5 DEF TransferOK
  <2>7. lost' \in Nat
    BY <1>0, <2>2, <2>3 DEF Fewer, LostCap
  <2>8. TypeOK'
    BY <1>0, <1>3, <2>1, <2>3, <2>6, <2>7 DEF PutsOutput, rings, TypeOK
  <2>9. PcInv'
    BY <1>0, <2>3 DEF PcInv
  <2>10. RoomInv'
    BY <1>0, <2>1, <2>2, <2>3, <2>5 DEF PcInv, RoomInv, Storing, AllModes
  <2>11. ASSUME mode = "both", open
         PROVE  (Shortfall \in {0, 1} /\ lost <= Shortfall)'
    <3>1. Shortfall' = Shortfall + (1 - n)
      BY <1>0, <2>1, <2>2, <2>3, <2>5
         DEF Shortfall, MainPuts, MainTakes, CallbackTakes,
             CallbackPuts, MainOwes, CallbackOwes, Storing
    <3>2. lost' = lost + (1 - n)
      BY <2>3, <2>11
    <3>3. n < 1 => Shortfall + (1 - n) \in {0, 1}
      <4> SUFFICES ASSUME n < 1 PROVE Shortfall + (1 - n) \in {0, 1}
        OBVIOUS
      <4>1. O + n = out.size
        BY <2>2
      <4>2. CallbackPuts \in Nat /\ CallbackTakes \in Nat /\ CallbackTakes <= CallbackOwes
        BY <1>0, <2>3 DEF RoomInv, CallbackPuts, CallbackTakes, CallbackOwes, Storing
      <4>3. /\ MainPuts \in Nat /\ MainTakes \in Nat /\ MainOwes \in Nat
            /\ MainTakes + MainOwes <= 1
        BY <1>0, <2>3 DEF RoomInv, MainPuts, MainTakes, MainOwes, Storing
      <4>4. Shortfall \in {0, 1}
        BY <1>0, <2>11 DEF BalanceInv
      <4>5. CallbackOwes \in {0, FramesPerBuf} /\ (cpc = "room" => CallbackOwes = FramesPerBuf /\ CallbackTakes = 0)
        BY DEF CallbackOwes, CallbackTakes, Storing
      <4>6. mpc = "write" => MainPuts = 0 /\ MainTakes = 0 /\ MainOwes = 0
        BY DEF MainPuts, MainTakes, MainOwes, Storing
      <4>7. Shortfall \in Int /\ Shortfall + (1 - n) <= 1
        BY <1>0, <2>2, <2>3, <4>1, <4>2, <4>3, <4>5, <4>6 DEF Shortfall
      <4> HIDE DEF Shortfall
      <4> QED BY <1>0, <2>2, <4>4, <4>7
    <3>4. Shortfall \in {0, 1} /\ lost <= Shortfall
      BY <1>0, <2>11 DEF BalanceInv
    <3>5. Shortfall' \in {0, 1} /\ lost' <= Shortfall'
      <4> HIDE DEF Shortfall
      <4> QED BY <1>0, <2>2, <3>1, <3>2, <3>3, <3>4
    <3> QED BY <3>5
  <2>12. BalanceInv'
    <3> SUFFICES ASSUME mode = "both" PROVE lost' <= 1 /\ (open => (Shortfall \in {0, 1} /\ lost <= Shortfall)')
      BY <2>3 DEF BalanceInv
    <3>1. open
      BY <1>0, <2>3 DEF PcInv
    <3>2. lost' <= Shortfall' /\ Shortfall' \in {0, 1}
      BY <2>11, <3>1
    <3> HIDE DEF Shortfall
    <3> QED BY <2>7, <2>11, <3>2
  <2> QED BY <2>8, <2>9, <2>10, <2>12 DEF IInv
<1>4. CASE CopiesOutput
  <2>1. O' = O /\ I' = I /\ out' = out /\ in' = in
    BY <1>4 DEF CopiesOutput, rings, O, I
  <2>2. TypeOK'
    BY <1>0, <1>4, <2>1, PaAssumption
       DEF CopiesOutput, rings, TypeOK, TransferOK, AfterOutput, Done, Filled, Finishes
  <2>3. PcInv'
    BY <1>0, <1>4 DEF CopiesOutput, PcInv, AfterOutput, Finishes, Done, MayCopy
  <2>4. RoomInv'
    BY <1>0, <1>4, <2>1
       DEF CopiesOutput, rings, PcInv, RoomInv, Storing, AllModes, AfterOutput, Finishes, Done, MayCopy
  <2>5. BalanceInv'
    BY <1>0, <1>4, <2>1
       DEF CopiesOutput, rings, PcInv, RoomInv, BalanceInv, AllModes,
           Shortfall, MainPuts, MainTakes, CallbackTakes,
           CallbackPuts, MainOwes, CallbackOwes, Storing, AfterOutput, Finishes, Done, MayCopy
  <2> QED BY <2>2, <2>3, <2>4, <2>5 DEF IInv
<1>5. CASE StoresOutput
  <2>1. /\ O' = O + mx.n /\ out' \in Ring(out.size)
        /\ I' = I /\ in' = in /\ out'.size = out.size /\ in'.size = in.size
    <3>1. "store" \in mx.todo
      BY <1>5 DEF StoresOutput, MayStore
    <3>2. I' = I /\ in' = in
      BY <1>5 DEF StoresOutput, O, I
    <3>3. O' = O + mx.n /\ out' \in Ring(out.size)
      BY <1>0, <1>5, <3>1, PutFacts DEF StoresOutput, RoomInv, Storing, O, I
    <3>4. out'.size = out.size
      BY <1>0, <3>3, RingFacts
    <3> QED BY <1>0, <3>2, <3>3, <3>4
  <2>2. TypeOK'
    BY <1>0, <1>5, <2>1, PaAssumption
       DEF StoresOutput, rings, TypeOK, TransferOK, AfterOutput, Done, Finishes
  <2>3. PcInv'
    BY <1>0, <1>5 DEF StoresOutput, PcInv, AfterOutput, Finishes, Done, MayStore
  <2>4. RoomInv'
    BY <1>0, <1>5, <2>1
       DEF StoresOutput, rings, PcInv, RoomInv, Storing, AllModes, AfterOutput, Finishes, Done, MayStore
  <2>5. BalanceInv'
    BY <1>0, <1>5, <2>1
       DEF StoresOutput, rings, PcInv, RoomInv, BalanceInv, AllModes,
           Shortfall, MainPuts, MainTakes, CallbackTakes,
           CallbackPuts, MainOwes, CallbackOwes, Storing, AfterOutput, Finishes, Done, MayStore
  <2> QED BY <2>2, <2>3, <2>4, <2>5 DEF IInv
<1>6. CASE InputArrived
  <2>1. O' = O /\ I' = I /\ out' = out /\ in' = in
    BY <1>6 DEF InputArrived, rings, O, I
  <2>2. TypeOK'
    <3>1. I \in Nat /\ TransferOK(mx')
      <4>1. I \in Nat
        BY <1>0, RingFacts DEF TypeOK, I
      <4>2. mx' = Transfer(in.r, Fewer(1, I))
        BY <1>6 DEF InputArrived, I
      <4>3. Fewer(1, I) \in 0..1 /\ in.r \in Nat
        BY <1>0, <4>1 DEF Fewer, TypeOK, Ring
      <4> QED BY <4>1, <4>2, <4>3, PaAssumption DEF Transfer, TransferOK
    <3>2. mpc' \in {"dsp", "waitout", "write", "writing", "waitin", "reading"}
      BY <1>6 DEF InputArrived
    <3> HIDE DEF TransferOK
    <3> QED BY <1>0, <1>6, <2>1, <3>1, <3>2 DEF InputArrived, rings, TypeOK
  <2>3. PcInv'
    BY <1>0, <1>6 DEF InputArrived, PcInv, InHasBlock, Transfer, Fewer, I
  <2>4. RoomInv'
    BY <1>0, <1>6, <2>1
       DEF InputArrived, rings, PcInv, RoomInv, Storing, AllModes, InHasBlock, Transfer, Fewer, I
  <2>5. BalanceInv'
    BY <1>0, <1>6, <2>1
       DEF InputArrived, rings, PcInv, RoomInv, BalanceInv, AllModes,
           Shortfall, MainPuts, MainTakes, CallbackTakes,
           CallbackPuts, MainOwes, CallbackOwes, Storing, InHasBlock, Transfer, Fewer, I
  <2> QED BY <2>2, <2>3, <2>4, <2>5 DEF IInv
<1>7. CASE CopiesInput
  <2>1. O' = O /\ I' = I /\ out' = out /\ in' = in
    BY <1>7 DEF CopiesInput, rings, O, I
  <2>2. TypeOK'
    BY <1>0, <1>7, <2>1, PaAssumption
       DEF CopiesInput, rings, TypeOK, TransferOK, Done, Finishes
  <2>3. PcInv'
    BY <1>0, <1>7 DEF CopiesInput, PcInv, Finishes, Done, MayCopy
  <2>4. RoomInv'
    BY <1>0, <1>7, <2>1
       DEF CopiesInput, rings, PcInv, RoomInv, Storing, AllModes, Finishes, Done, MayCopy
  <2>5. BalanceInv'
    BY <1>0, <1>7, <2>1
       DEF CopiesInput, rings, PcInv, RoomInv, BalanceInv, AllModes,
           Shortfall, MainPuts, MainTakes, CallbackTakes,
           CallbackPuts, MainOwes, CallbackOwes, Storing, Finishes, Done, MayCopy
  <2> QED BY <2>2, <2>3, <2>4, <2>5 DEF IInv
<1>8. CASE TakesInput
  <2>1. /\ I' = I - mx.n /\ in' \in Ring(out.size)
        /\ O' = O /\ out' = out /\ out'.size = out.size /\ in'.size = in.size
    <3>1. "store" \in mx.todo
      BY <1>8 DEF TakesInput, MayStore
    <3>2. O' = O /\ out' = out
      BY <1>8 DEF TakesInput, O, I
    <3>3. I' = I - mx.n /\ in' \in Ring(out.size)
      BY <1>0, <1>8, <3>1, TakeFacts DEF TakesInput, RoomInv, Storing, O, I
    <3>4. in'.size = out.size
      BY <1>0, <3>3, RingFacts
    <3> QED BY <1>0, <3>2, <3>3, <3>4
  <2>2. TypeOK'
    BY <1>0, <1>8, <2>1, PaAssumption
       DEF TakesInput, rings, TypeOK, TransferOK, Done, Finishes
  <2>3. PcInv'
    BY <1>0, <1>8 DEF TakesInput, PcInv, Finishes, Done, MayStore
  <2>4. RoomInv'
    BY <1>0, <1>8, <2>1
       DEF TakesInput, rings, PcInv, RoomInv, Storing, AllModes, Finishes, Done, MayStore
  <2>5. BalanceInv'
    BY <1>0, <1>8, <2>1
       DEF TakesInput, rings, PcInv, RoomInv, BalanceInv, AllModes,
           Shortfall, MainPuts, MainTakes, CallbackTakes,
           CallbackPuts, MainOwes, CallbackOwes, Storing, Finishes, Done, MayStore
  <2> QED BY <2>2, <2>3, <2>4, <2>5 DEF IInv
<1> QED BY <1>1, <1>2, <1>3, <1>4, <1>5, <1>6, <1>7, <1>8 DEF MainStep

(* PortAudio's thread.  PutsInput is the other step where a block may be   *)
(* lost: one at most, and only when none has been lost before.             *)
LEMMA CallbackKeeps == IInv /\ CallbackStep => IInv'
<1> SUFFICES ASSUME IInv, CallbackStep PROVE IInv'
  OBVIOUS
<1>0. /\ TypeOK /\ PcInv /\ RoomInv /\ BalanceInv
      /\ out.size \in Nat \ {0} /\ in.size = out.size
      /\ FramesPerBuf \in Nat \ {0} /\ FramesPerBuf <= out.size
      /\ out \in Ring(out.size) /\ in \in Ring(out.size)
      /\ O \in Nat /\ I \in Nat
      /\ mx.n \in Nat /\ cx.n \in Nat /\ lost \in Nat
      /\ mode \in AllModes
  BY SizeFacts DEF IInv
<1>1. CASE Callback
  <2>1. O' = O /\ I' = I /\ out' = out /\ in' = in
    BY <1>1 DEF Callback, rings, O, I
  <2>2. TypeOK'
    <3> DEFINE n == Fewer(FramesPerBuf, ReadAvailable(out))
    <3>1. n \in 0..(1 + FramesPerBuf)
      BY <1>0 DEF Fewer, O
    <3>2. TransferOK(Transfer(out.r, n))
      <4> HIDE DEF n
      <4> QED BY <1>0, <3>1 DEF TransferOK, Transfer, Ring
    <3>3. TransferOK(cx')
      BY <1>1, <3>2 DEF Callback, TypeOK, IInv
    <3> HIDE DEF n
    <3> QED BY <1>0, <1>1, <2>1, <3>3 DEF Callback, rings, TypeOK
  <2>3. PcInv'
    BY <1>0, <1>1 DEF Callback, PcInv, EnoughOutput, Transfer, Fewer, O
  <2>4. RoomInv'
    BY <1>0, <1>1, <2>1
       DEF Callback, rings, PcInv, RoomInv, Storing, AllModes, EnoughOutput, Transfer, Fewer, O
  <2>5. BalanceInv'
    BY <1>0, <1>1, <2>1
       DEF Callback, rings, PcInv, RoomInv, BalanceInv, AllModes,
           Shortfall, MainPuts, MainTakes, CallbackTakes,
           CallbackPuts, MainOwes, CallbackOwes, Storing, EnoughOutput, Transfer, Fewer, O
  <2> QED BY <2>2, <2>3, <2>4, <2>5 DEF IInv
<1>2. CASE CopiesPlayed
  <2>1. O' = O /\ I' = I /\ out' = out /\ in' = in
    BY <1>2 DEF CopiesPlayed, rings, O, I
  <2>2. TypeOK'
    BY <1>0, <1>2, <2>1, PaAssumption
       DEF CopiesPlayed, rings, TypeOK, TransferOK, AfterPlaying, Done, Finishes
  <2>3. PcInv'
    BY <1>0, <1>2 DEF CopiesPlayed, PcInv, AfterPlaying, Finishes, Done, MayCopy
  <2>4. RoomInv'
    BY <1>0, <1>2, <2>1
       DEF CopiesPlayed, rings, PcInv, RoomInv, Storing, AllModes, AfterPlaying, Finishes, Done, MayCopy
  <2>5. BalanceInv'
    BY <1>0, <1>2, <2>1
       DEF CopiesPlayed, rings, PcInv, RoomInv, BalanceInv, AllModes,
           Shortfall, MainPuts, MainTakes, CallbackTakes,
           CallbackPuts, MainOwes, CallbackOwes, Storing, AfterPlaying, Finishes, Done, MayCopy
  <2> QED BY <2>2, <2>3, <2>4, <2>5 DEF IInv
<1>3. CASE FreesPlayed
  <2>1. /\ O' = O - cx.n /\ out' \in Ring(out.size)
        /\ I' = I /\ in' = in /\ out'.size = out.size /\ in'.size = in.size
    <3>1. "store" \in cx.todo
      BY <1>3 DEF FreesPlayed, MayStore
    <3>2. I' = I /\ in' = in
      BY <1>3 DEF FreesPlayed, O, I
    <3>3. O' = O - cx.n /\ out' \in Ring(out.size)
      BY <1>0, <1>3, <3>1, TakeFacts DEF FreesPlayed, RoomInv, Storing, O, I
    <3>4. out'.size = out.size
      BY <1>0, <3>3, RingFacts
    <3> QED BY <1>0, <3>2, <3>3, <3>4
  <2>2. TypeOK'
    BY <1>0, <1>3, <2>1, PaAssumption
       DEF FreesPlayed, rings, TypeOK, TransferOK, AfterPlaying, Done, Finishes
  <2>3. PcInv'
    BY <1>0, <1>3 DEF FreesPlayed, PcInv, AfterPlaying, Finishes, Done, MayStore
  <2>4. RoomInv'
    BY <1>0, <1>3, <2>1
       DEF FreesPlayed, rings, PcInv, RoomInv, Storing, AllModes, AfterPlaying, Finishes, Done, MayStore
  <2>5. BalanceInv'
    BY <1>0, <1>3, <2>1
       DEF FreesPlayed, rings, PcInv, RoomInv, BalanceInv, AllModes,
           Shortfall, MainPuts, MainTakes, CallbackTakes,
           CallbackPuts, MainOwes, CallbackOwes, Storing, AfterPlaying, Finishes, Done, MayStore
  <2> QED BY <2>2, <2>3, <2>4, <2>5 DEF IInv
<1>4. CASE PutsInput
  <2> DEFINE n == Fewer(FramesPerBuf, WriteAvailable(in))
  <2>1. O' = O /\ I' = I /\ out' = out /\ in' = in
    BY <1>4 DEF PutsInput, rings, O, I
  <2>2. /\ n \in Nat /\ n <= FramesPerBuf /\ I + n <= out.size
        /\ n < FramesPerBuf => I + n = out.size
    <3>1. WriteAvailable(in) = out.size - I
      BY <1>0 DEF WriteAvailable, O, I
    <3> QED BY <1>0, <3>1 DEF RoomInv, Fewer
  <2>3. /\ cx' = Transfer(in.w, n) /\ cpc = "room" /\ cpc' = "recording"
        /\ lost' = IF mode = "in" THEN Fewer(lost + (FramesPerBuf - n), LostCap)
                   ELSE lost + (FramesPerBuf - n)
        /\ UNCHANGED <<open, mode, mpc, mx>>
    BY <1>4 DEF PutsInput
  <2>4. in.w \in Nat
    BY <1>0 DEF Ring
  <2> HIDE DEF n
  <2>5. /\ cx'.n = n /\ cx'.at = in.w /\ cx'.todo = {"copy", "store"}
    BY <2>3 DEF Transfer
  <2>6. TransferOK(cx')
    BY <1>0, <2>2, <2>4, <2>5 DEF TransferOK
  <2>7. lost' \in Nat
    BY <1>0, <2>2, <2>3 DEF Fewer, LostCap
  <2>8. TypeOK'
    BY <1>0, <1>4, <2>1, <2>3, <2>6, <2>7 DEF PutsInput, rings, TypeOK
  <2>9. PcInv'
    BY <1>0, <2>3 DEF PcInv
  <2>10. RoomInv'
    BY <1>0, <2>1, <2>2, <2>3, <2>5 DEF PcInv, RoomInv, Storing, AllModes
  <2>11. ASSUME mode = "both", open
         PROVE  (Shortfall \in {0, 1} /\ lost <= Shortfall)'
    <3>1. Shortfall' = Shortfall + (FramesPerBuf - n)
      BY <1>0, <2>1, <2>2, <2>3, <2>5
         DEF Shortfall, MainPuts, MainTakes, CallbackTakes,
             CallbackPuts, MainOwes, CallbackOwes, Storing
    <3>2. lost' = lost + (FramesPerBuf - n)
      BY <2>3, <2>11
    <3>3. n < FramesPerBuf => Shortfall + (FramesPerBuf - n) \in {0, 1}
      <4> SUFFICES ASSUME n < FramesPerBuf PROVE Shortfall + (FramesPerBuf - n) \in {0, 1}
        OBVIOUS
      <4>1. I + n = out.size
        BY <2>2
      <4>2. CallbackPuts \in Nat /\ CallbackTakes \in Nat /\ CallbackTakes <= CallbackOwes
        BY <1>0, <2>3 DEF RoomInv, CallbackPuts, CallbackTakes, CallbackOwes, Storing
      <4>3. /\ MainPuts \in Nat /\ MainTakes \in Nat /\ MainOwes \in Nat
            /\ MainTakes + MainOwes <= 1
        BY <1>0, <2>3 DEF RoomInv, MainPuts, MainTakes, MainOwes, Storing
      <4>4. Shortfall \in {0, 1}
        BY <1>0, <2>11 DEF BalanceInv
      <4>5. CallbackOwes \in {0, FramesPerBuf} /\ (cpc = "room" => CallbackOwes = FramesPerBuf /\ CallbackTakes = 0)
        BY DEF CallbackOwes, CallbackTakes, Storing
      <4>6. mpc = "write" => MainPuts = 0 /\ MainTakes = 0 /\ MainOwes = 0
        BY DEF MainPuts, MainTakes, MainOwes, Storing
      <4>7. Shortfall \in Int /\ Shortfall + (FramesPerBuf - n) <= 1
        BY <1>0, <2>2, <2>3, <4>1, <4>2, <4>3, <4>5, <4>6 DEF Shortfall
      <4> HIDE DEF Shortfall
      <4> QED BY <1>0, <2>2, <4>4, <4>7
    <3>4. Shortfall \in {0, 1} /\ lost <= Shortfall
      BY <1>0, <2>11 DEF BalanceInv
    <3>5. Shortfall' \in {0, 1} /\ lost' <= Shortfall'
      <4> HIDE DEF Shortfall
      <4> QED BY <1>0, <2>2, <3>1, <3>2, <3>3, <3>4
    <3> QED BY <3>5
  <2>12. BalanceInv'
    <3> SUFFICES ASSUME mode = "both" PROVE lost' <= 1 /\ (open => (Shortfall \in {0, 1} /\ lost <= Shortfall)')
      BY <2>3 DEF BalanceInv
    <3>1. open
      BY <1>0, <2>3 DEF PcInv
    <3>2. lost' <= Shortfall' /\ Shortfall' \in {0, 1}
      BY <2>11, <3>1
    <3> HIDE DEF Shortfall
    <3> QED BY <2>7, <2>11, <3>2
  <2> QED BY <2>8, <2>9, <2>10, <2>12 DEF IInv
<1>5. CASE CopiesRecorded
  <2>1. O' = O /\ I' = I /\ out' = out /\ in' = in
    BY <1>5 DEF CopiesRecorded, rings, O, I
  <2>2. TypeOK'
    BY <1>0, <1>5, <2>1, PaAssumption
       DEF CopiesRecorded, rings, TypeOK, TransferOK, Done, Filled, Finishes
  <2>3. PcInv'
    BY <1>0, <1>5 DEF CopiesRecorded, PcInv, Finishes, Done, MayCopy
  <2>4. RoomInv'
    BY <1>0, <1>5, <2>1
       DEF CopiesRecorded, rings, PcInv, RoomInv, Storing, AllModes, Finishes, Done, MayCopy
  <2>5. BalanceInv'
    BY <1>0, <1>5, <2>1
       DEF CopiesRecorded, rings, PcInv, RoomInv, BalanceInv, AllModes,
           Shortfall, MainPuts, MainTakes, CallbackTakes,
           CallbackPuts, MainOwes, CallbackOwes, Storing, Finishes, Done, MayCopy
  <2> QED BY <2>2, <2>3, <2>4, <2>5 DEF IInv
<1>6. CASE StoresRecorded
  <2>1. /\ I' = I + cx.n /\ in' \in Ring(out.size)
        /\ O' = O /\ out' = out /\ out'.size = out.size /\ in'.size = in.size
    <3>1. "store" \in cx.todo
      BY <1>6 DEF StoresRecorded, MayStore
    <3>2. O' = O /\ out' = out
      BY <1>6 DEF StoresRecorded, O, I
    <3>3. I' = I + cx.n /\ in' \in Ring(out.size)
      BY <1>0, <1>6, <3>1, PutFacts DEF StoresRecorded, RoomInv, Storing, O, I
    <3>4. in'.size = out.size
      BY <1>0, <3>3, RingFacts
    <3> QED BY <1>0, <3>2, <3>3, <3>4
  <2>2. TypeOK'
    BY <1>0, <1>6, <2>1, PaAssumption
       DEF StoresRecorded, rings, TypeOK, TransferOK, Done, Finishes
  <2>3. PcInv'
    BY <1>0, <1>6 DEF StoresRecorded, PcInv, Finishes, Done, MayStore
  <2>4. RoomInv'
    BY <1>0, <1>6, <2>1
       DEF StoresRecorded, rings, PcInv, RoomInv, Storing, AllModes, Finishes, Done, MayStore
  <2>5. BalanceInv'
    BY <1>0, <1>6, <2>1
       DEF StoresRecorded, rings, PcInv, RoomInv, BalanceInv, AllModes,
           Shortfall, MainPuts, MainTakes, CallbackTakes,
           CallbackPuts, MainOwes, CallbackOwes, Storing, Finishes, Done, MayStore
  <2> QED BY <2>2, <2>3, <2>4, <2>5 DEF IInv
<1> QED BY <1>1, <1>2, <1>3, <1>4, <1>5, <1>6 DEF CallbackStep

LEMMA StepKeeps == IInv /\ [Next]_vars => IInv'
<1> SUFFICES ASSUME IInv, [Next]_vars PROVE IInv'
  OBVIOUS
<1>1. CASE Next
  BY <1>1, DeviceKeeps, MainKeeps, CallbackKeeps DEF Next
<1>2. CASE UNCHANGED vars
  BY <1>2 DEF vars, rings, IInv, TypeOK, PcInv, RoomInv, BalanceInv, O, I,
     Shortfall, MainPuts, MainTakes, CallbackTakes, CallbackPuts, MainOwes,
     CallbackOwes, Storing
<1> QED BY <1>1, <1>2

THEOREM Invariance == Spec => []IInv
BY InitIInv, StepKeeps, PTL DEF Spec

(* The rings and the transfers keep their types for every buffer size: the *)
(* indices never reach twice the size.                                     *)
THEOREM TypeCorrect == Spec => []TypeOK
<1>1. IInv => TypeOK
  BY DEF IInv
<1> QED BY Invariance, <1>1, PTL

(* The "consistency check" of sys_ringbuf_getreadavailable never fails.    *)
THEOREM NeverInconsistent == Spec => []RingsConsistent
<1>1. IInv => RingsConsistent
  BY SizeFacts DEF IInv, RoomInv, RingsConsistent, O, I
<1> QED BY Invariance, <1>1, PTL

(* A device with input and output loses at most one block, and one with    *)
(* output only none, although nobody looks for room.                       *)
THEOREM LosesAtMostOne == Spec => []AtMostOneLost
<1>1. IInv => AtMostOneLost
  BY DEF IInv, RoomInv, BalanceInv, AtMostOneLost
<1> QED BY Invariance, <1>1, PTL

(* The main thread never waits for a callback that waits for it.           *)
THEOREM NeverBothWait == Spec => []NeverStuck
<1>1. IInv => NeverStuck
  <2> SUFFICES ASSUME IInv PROVE NeverStuck
    OBVIOUS
  <2>0. /\ out.size \in Nat \ {0} /\ FramesPerBuf \in Nat \ {0}
        /\ FramesPerBuf <= out.size /\ O \in Nat /\ I \in Nat /\ mode \in AllModes
    BY SizeFacts DEF IInv
  <2>1. ASSUME mpc = "waitin", cpc = "idle", ~InHasBlock PROVE EnoughOutput
    <3>1. I = 0
      BY <2>0, <2>1 DEF InHasBlock, I
    <3>2. CASE mode = "both"
      <4>1. open
        BY <2>1 DEF IInv, PcInv
      <4>2. Shortfall \in {0, 1} /\ Shortfall = out.size - (O - 1)
        BY <2>0, <2>1, <3>1, <3>2, <4>1
           DEF IInv, BalanceInv, Shortfall, MainPuts, MainTakes, CallbackTakes,
               CallbackPuts, MainOwes, CallbackOwes, Storing
      <4>3. FramesPerBuf <= O
        BY <2>0, <4>2
      <4> QED BY <4>3, <2>0 DEF EnoughOutput, O
    <3> QED BY <2>0, <2>1, <3>2 DEF IInv, PcInv, EnoughOutput, AllModes
  <2>2. ASSUME mpc = "waitout", cpc = "idle", ~OutHasRoom PROVE EnoughOutput
    <3>1. FramesPerBuf <= O
      BY <2>0, <2>2 DEF OutHasRoom, WriteAvailable, O
    <3> QED BY <2>0, <3>1 DEF EnoughOutput, O
  <2> QED BY <2>1, <2>2 DEF NeverStuck
<1> QED BY Invariance, <1>1, PTL

-------------------------------------------------------------------------------
(* What is in the rings, for every number and size of buffers and every    *)
(* interleaving, in a build that keeps a copy before the store of the index*)
(* that covers it: blocks come out whole and in order, and the two threads *)
(* never copy at the same place.                                           *)


(* The k-th index from the reading end, and that the first n blocks from   *)
(* there bear their indices.                                               *)
At(q, k) == Advanced(q, q.r, k)
HeldTo(q, cells, n) == \A k \in 0..(n - 1) : cells[Place(q, At(q, k))] = At(q, k)

Busied(x) == x.todo = {"copy", "store"} \/ x.todo = {"store"}
Copied(x) == x.todo = {"store"}

WhereInv ==
  /\ mpc \in {"writing", "reading"} => Busied(mx)
  /\ cpc \in {"playing", "recording"} => Busied(cx)
  /\ mpc = "writing" => mx.at = out.w
  /\ mpc = "reading" => mx.at = in.r
  /\ cpc = "playing" => cx.at = out.r
  /\ cpc = "recording" => cx.at = in.w

OutInv ==
  /\ HeldTo(out, outbuf, O)
  /\ mpc = "writing" /\ Copied(mx) => HeldTo(out, outbuf, O + mx.n)
InInv ==
  /\ HeldTo(in, inbuf, I)
  /\ cpc = "recording" /\ Copied(cx) => HeldTo(in, inbuf, I + cx.n)

CInv == IInv /\ WhereInv /\ OutInv /\ InInv
-------------------------------------------------------------------------------
(* The places of a ring, for every size.                                   *)

(* Fewer than a buffer's worth of blocks from the reading end on lie at    *)
(* different places of the buffer.                                         *)
LEMMA PlacesDiffer ==
  ASSUME NEW B \in Nat \ {0}, NEW q \in Ring(B),
         NEW a \in 0..(B - 1), NEW b \in 0..(B - 1)
  PROVE  /\ At(q, a) \in 0..(2 * B - 1) /\ Place(q, At(q, a)) \in 0..(B - 1)
         /\ Place(q, At(q, a)) = Place(q, At(q, b)) => a = b
BY DEF Ring, At, Advanced, Place

(* The writing end is as far from the reading end as there are blocks.     *)
LEMMA FromWriteEnd ==
  ASSUME NEW B \in Nat \ {0}, NEW q \in Ring(B), NEW k \in Nat,
         ReadAvailable(q) + k <= B
  PROVE  Advanced(q, q.w, k) = At(q, ReadAvailable(q) + k)
BY DEF Ring, At, Advanced, ReadAvailable

(* The indices of the blocks a writer fills.                                *)
LEMMA WrittenRegion ==
  ASSUME NEW B \in Nat \ {0}, NEW q \in Ring(B), NEW n \in Nat,
         ReadAvailable(q) + n <= B
  PROVE  Indices(q, q.w, n) =
           {At(q, k) : k \in ReadAvailable(q)..(ReadAvailable(q) + n - 1)}
<1> DEFINE A == ReadAvailable(q)
<1>1. A \in Nat
  BY RingFacts
<1>2. \A k \in 0..(n - 1) : Advanced(q, q.w, k) = At(q, A + k)
  BY <1>1, FromWriteEnd
<1>3. \A k \in 0..(n - 1) : A + k \in A..(A + n - 1)
  BY <1>1
<1>4. \A k \in A..(A + n - 1) : k - A \in 0..(n - 1) /\ A + (k - A) = k
  BY <1>1
<1> HIDE DEF A
<1>5. Indices(q, q.w, n) = {At(q, k) : k \in A..(A + n - 1)}
  BY <1>2, <1>3, <1>4 DEF Indices
<1> QED BY <1>5 DEF A

(* A copy into the ring adds its blocks behind those that are there and    *)
(* leaves those alone.                                                     *)
LEMMA FilledFacts ==
  ASSUME NEW B \in Nat \ {0}, NEW q \in Ring(B), NEW cells, NEW x,
         DOMAIN cells = 0..(B - 1), x.at = q.w, x.n \in Nat,
         ReadAvailable(q) + x.n <= B, HeldTo(q, cells, ReadAvailable(q))
  PROVE  /\ HeldTo(q, Filled(cells, q, x), ReadAvailable(q) + x.n)
         /\ HeldTo(q, Filled(cells, q, x), ReadAvailable(q))
         /\ DOMAIN Filled(cells, q, x) = 0..(B - 1)
<1> DEFINE A == ReadAvailable(q)
           J == {At(q, k) : k \in A..(A + x.n - 1)}
<1>1. A \in Nat /\ A + x.n <= B
  BY RingFacts
<1>2. Indices(q, x.at, x.n) = J
  BY WrittenRegion
<1>3. Region(q, x.at, x.n) = {Place(q, j) : j \in J}
  BY <1>2 DEF Region
<1> HIDE DEF A
<1>4. ASSUME NEW k \in 0..(A + x.n - 1)
      PROVE  Filled(cells, q, x)[Place(q, At(q, k))] = At(q, k)
  <2>0. k \in 0..(B - 1)
    BY <1>1
  <2>1. k \in 0..(B - 1) /\ Place(q, At(q, k)) \in DOMAIN cells
    BY <2>0, PlacesDiffer
  <2>2. ASSUME NEW j \in J, Place(q, j) = Place(q, At(q, k))
        PROVE  j = At(q, k) /\ k >= A
    <3>1. PICK m \in A..(A + x.n - 1) : j = At(q, m)
      OBVIOUS
    <3>2. m \in 0..(B - 1)
      BY <1>1
    <3>3. m = k
      BY <2>1, <2>2, <3>1, <3>2, PlacesDiffer
    <3> QED BY <1>1, <3>1, <3>3
  <2>3. CASE k >= A
    <3>1. At(q, k) \in J
      BY <1>1, <2>3
    <3>2. Place(q, At(q, k)) \in Region(q, x.at, x.n)
      BY <1>3, <3>1
    <3>3. (CHOOSE j \in J : Place(q, j) = Place(q, At(q, k))) = At(q, k)
      BY <2>2, <3>1
    <3> QED BY <1>2, <2>1, <3>2, <3>3 DEF Filled
  <2>4. CASE k < A
    <3>1. Place(q, At(q, k)) \notin Region(q, x.at, x.n)
      BY <1>1, <1>3, <2>2, <2>4
    <3>2. cells[Place(q, At(q, k))] = At(q, k)
      BY <1>1, <2>4 DEF HeldTo, A
    <3> QED BY <2>1, <3>1, <3>2 DEF Filled
  <2> QED BY <1>1, <2>3, <2>4
<1>5. \A k \in 0..(A - 1) : k \in 0..(A + x.n - 1)
  BY <1>1
<1>6. DOMAIN Filled(cells, q, x) = 0..(B - 1)
  BY DEF Filled
<1>7. HeldTo(q, Filled(cells, q, x), A + x.n)
  <2> HIDE DEF J
  <2>1. A + x.n - 1 = (A + x.n) - 1
    BY <1>1
  <2> QED BY <1>4, <2>1, Zenon DEF HeldTo
<1>8. HeldTo(q, Filled(cells, q, x), A)
  <2> HIDE DEF J
  <2> QED BY <1>4, <1>5, Zenon DEF HeldTo
<1> QED BY <1>6, <1>7, <1>8 DEF A

(* Storing the writing index changes nothing for the reader's places, ...  *)
LEMMA StoredHeld ==
  ASSUME NEW q, NEW cells, NEW p, p.r = q.r, p.size = q.size, NEW n, HeldTo(q, cells, n)
  PROVE  HeldTo(p, cells, n)
BY DEF HeldTo, At, Advanced, Place

(* ... and storing the reading index leaves what is behind it.             *)
LEMMA TakenHeld ==
  ASSUME NEW B \in Nat \ {0}, NEW q \in Ring(B), NEW p \in Ring(B), NEW cells,
         NEW n \in Nat, NEW m \in Nat, n <= m, m <= B,
         p.r = Advanced(q, q.r, n), HeldTo(q, cells, m)
  PROVE  HeldTo(p, cells, m - n)
<1> SUFFICES ASSUME NEW k \in 0..(m - n - 1)
             PROVE  cells[Place(p, At(p, k))] = At(p, k)
  BY DEF HeldTo
<1>1. n + k \in 0..(m - 1)
  OBVIOUS
<1>2. At(p, k) = At(q, n + k) /\ Place(p, At(p, k)) = Place(q, At(q, n + k))
  BY <1>1 DEF At, Advanced, Place, Ring
<1> QED BY <1>1, <1>2 DEF HeldTo

LEMMA FreshContents ==
  ASSUME NEW B \in Nat \ {0}, NEW cells
  PROVE  /\ HeldTo(RingInit(B, 0), cells, 0)
         /\ HeldTo(RingInit(B, B), [p \in 0..(B - 1) |-> p], B)
<1>1. HeldTo(RingInit(B, 0), cells, 0)
  BY DEF HeldTo
<1>2. ASSUME NEW k \in 0..(B - 1)
      PROVE  At(RingInit(B, B), k) = k /\ Place(RingInit(B, B), k) = k
  BY DEF At, Advanced, Place, RingInit
<1> QED BY <1>1, <1>2 DEF HeldTo
-------------------------------------------------------------------------------
(* The invariant.                                                          *)

LEMMA ContentsInit == Init => CInv
<1> SUFFICES ASSUME Init PROVE CInv
  OBVIOUS
<1>1. PICK B \in Sizes : out = RingInit(B, 0) /\ in = RingInit(B, B)
                         /\ inbuf = [p \in 0..(B - 1) |-> p]
  BY DEF Init, FreshIn, InFill
<1>2. B \in Nat \ {0} /\ O = 0 /\ I = B
  BY <1>1, SizesPositive, FreshFacts DEF O, I
<1>3. mpc = "dsp" /\ cpc = "idle"
  BY DEF Init
<1>4. HeldTo(out, outbuf, O) /\ HeldTo(in, inbuf, I)
  BY <1>1, <1>2, FreshContents
<1> QED BY <1>3, <1>4, InitIInv DEF CInv, WhereInv, OutInv, InInv

LEMMA DeviceKeepsContents ==
  CInv /\ (OpenAudio \/ CloseAudio \/ ReopenAudio \/ TimesOut) => CInv'
<1> SUFFICES ASSUME CInv, OpenAudio \/ CloseAudio \/ ReopenAudio \/ TimesOut
             PROVE  CInv'
  OBVIOUS
<1>1. IInv'
  BY DeviceKeeps DEF CInv
<1>2. mpc' \in {"dsp", "waitout", "waitin"} /\ cpc' = "idle"
  BY DEF OpenAudio, CloseAudio, ReopenAudio, TimesOut, MayClose, Waiting,
         CInv, IInv, PcInv
<1>3. WhereInv'
  BY <1>2 DEF WhereInv
<1>4. HeldTo(out', outbuf', O') /\ HeldTo(in', inbuf', I')
  <2>1. CASE CloseAudio
    BY <2>1 DEF CloseAudio, rings, CInv, OutInv, InInv, O, I
  <2>2. CASE OpenAudio \/ ReopenAudio \/ TimesOut
    <3>1. PICK B \in Sizes : FreshRings(B)
      BY <2>2 DEF OpenAudio, ReopenAudio, TimesOut
    <3>2. /\ B \in Nat \ {0} /\ O' = 0 /\ I' = B
          /\ out' = RingInit(B, 0) /\ in' = RingInit(B, B)
          /\ inbuf' = [p \in 0..(B - 1) |-> p]
      BY <3>1, SizesPositive, FreshFacts DEF O, I, FreshRings, FreshIn, InFill
    <3> QED BY <3>2, FreshContents
  <2> QED BY <2>1, <2>2
<1> QED BY <1>1, <1>2, <1>3, <1>4 DEF CInv, OutInv, InInv

(* The steps that only decide, or only read a buffer.                      *)
Quiet ==
  /\ WhereInv'
  /\ mpc' = "writing" /\ Copied(mx') => mpc = "writing" /\ mx' = mx
  /\ cpc' = "recording" /\ Copied(cx') => cpc = "recording" /\ cx' = cx

LEMMA QuietKeepsContents ==
  ASSUME CInv, IInv', UNCHANGED rings, Quiet
  PROVE  CInv'
<1>1. /\ out' = out /\ outbuf' = outbuf /\ in' = in /\ inbuf' = inbuf
      /\ O' = O /\ I' = I
  BY DEF rings, O, I
<1> QED BY <1>1 DEF Quiet, CInv, OutInv, InInv

LEMMA MainIsQuiet ==
  ASSUME CInv,
         SendDacs \/ RoomForOutput \/ PutsOutput \/ InputArrived \/ CopiesInput
  PROVE  Quiet /\ UNCHANGED rings
<1>0. WhereInv /\ mode \in AllModes
  BY SizeFacts DEF CInv, IInv
<1>1. CASE SendDacs
  BY <1>0, <1>1 DEF SendDacs, AllModes, rings, Quiet, WhereInv, Busied, Copied
<1>2. CASE RoomForOutput
  BY <1>0, <1>2 DEF RoomForOutput, rings, Quiet, WhereInv, Busied, Copied
<1>3. CASE PutsOutput
  BY <1>0, <1>3
     DEF PutsOutput, Transfer, rings, Quiet, WhereInv, Busied, Copied
<1>4. CASE InputArrived
  BY <1>0, <1>4
     DEF InputArrived, Transfer, rings, Quiet, WhereInv, Busied, Copied
<1>5. CASE CopiesInput
  <2>1. mx.todo = {"copy", "store"} /\ mx.at = in.r /\ mpc = "reading"
    BY <1>0, <1>5 DEF CopiesInput, MayCopy, WhereInv, Busied
  <2>2. mpc' = "reading" /\ mx' = [mx EXCEPT !.todo = {"store"}]
    BY <1>5, <2>1 DEF CopiesInput, Done, Finishes
  <2>3. mx'.at = mx.at /\ mx'.todo = {"store"}
    BY <2>1, <2>2
  <2> QED BY <1>0, <1>5, <2>1, <2>2, <2>3
          DEF CopiesInput, rings, Quiet, WhereInv, Busied, Copied
<1> QED BY <1>1, <1>2, <1>3, <1>4, <1>5

LEMMA CallbackIsQuiet ==
  ASSUME CInv, Callback \/ CopiesPlayed \/ PutsInput
  PROVE  Quiet /\ UNCHANGED rings
<1>0. WhereInv
  BY DEF CInv
<1>1. CASE Callback
  BY <1>0, <1>1 DEF Callback, Transfer, rings, Quiet, WhereInv, Busied, Copied
<1>2. CASE CopiesPlayed
  <2>1. cx.todo = {"copy", "store"} /\ cx.at = out.r /\ cpc = "playing"
    BY <1>0, <1>2 DEF CopiesPlayed, MayCopy, WhereInv, Busied
  <2>2. cpc' = "playing" /\ cx' = [cx EXCEPT !.todo = {"store"}]
    BY <1>2, <2>1 DEF CopiesPlayed, Done, Finishes
  <2>3. cx'.at = cx.at /\ cx'.todo = {"store"}
    BY <2>1, <2>2
  <2> QED BY <1>0, <1>2, <2>1, <2>2, <2>3
          DEF CopiesPlayed, rings, Quiet, WhereInv, Busied, Copied
<1>3. CASE PutsInput
  BY <1>0, <1>3 DEF PutsInput, Transfer, rings, Quiet, WhereInv, Busied, Copied
<1> QED BY <1>1, <1>2, <1>3

(* The steps that copy into a ring or store one of its indices.            *)
LEMMA CopiesOutputKeeps ==
  ASSUME CInv, IInv', CopiesOutput PROVE CInv'
<1>1. /\ out.size \in Nat \ {0} /\ out \in Ring(out.size) /\ mx.n \in Nat
      /\ DOMAIN outbuf = 0..(out.size - 1)
  BY SizeFacts DEF CInv, IInv, TypeOK
<1>2. mx.todo = {"copy", "store"} /\ mx.at = out.w /\ mpc = "writing"
  BY DEF CopiesOutput, MayCopy, CInv, WhereInv, Busied
<1>3. O + mx.n <= out.size
  BY <1>2 DEF CInv, IInv, RoomInv, Storing
<1>4. /\ HeldTo(out, Filled(outbuf, out, mx), O + mx.n)
      /\ HeldTo(out, Filled(outbuf, out, mx), O)
  BY <1>1, <1>2, <1>3, FilledFacts DEF CInv, OutInv, O
<1>5. /\ out' = out /\ outbuf' = Filled(outbuf, out, mx) /\ O' = O
      /\ in' = in /\ inbuf' = inbuf /\ I' = I /\ cpc' = cpc /\ cx' = cx
      /\ mpc' = "writing" /\ mx' = [mx EXCEPT !.todo = {"store"}]
  BY <1>2 DEF CopiesOutput, Done, Finishes, O, I
<1>6. mx'.n = mx.n /\ mx'.at = mx.at /\ mx'.todo = {"store"}
  BY <1>5 DEF CInv, IInv, TypeOK, TransferOK
<1> QED BY <1>2, <1>4, <1>5, <1>6 DEF CInv, WhereInv, OutInv, InInv, Busied, Copied
LEMMA CopiesRecordedKeeps ==
  ASSUME CInv, IInv', CopiesRecorded PROVE CInv'
<1>1. /\ in.size \in Nat \ {0} /\ in \in Ring(in.size) /\ cx.n \in Nat
      /\ DOMAIN inbuf = 0..(in.size - 1)
  BY SizeFacts DEF CInv, IInv, TypeOK
<1>2. cx.todo = {"copy", "store"} /\ cx.at = in.w /\ cpc = "recording"
  BY DEF CopiesRecorded, MayCopy, CInv, WhereInv, Busied
<1>3. I + cx.n <= in.size
  BY <1>2 DEF CInv, IInv, RoomInv, Storing
<1>4. /\ HeldTo(in, Filled(inbuf, in, cx), I + cx.n)
      /\ HeldTo(in, Filled(inbuf, in, cx), I)
  BY <1>1, <1>2, <1>3, FilledFacts DEF CInv, InInv, I
<1>5. /\ in' = in /\ inbuf' = Filled(inbuf, in, cx) /\ I' = I
      /\ out' = out /\ outbuf' = outbuf /\ O' = O /\ mpc' = mpc /\ mx' = mx
      /\ cpc' = "recording" /\ cx' = [cx EXCEPT !.todo = {"store"}]
  BY <1>2 DEF CopiesRecorded, Done, Finishes, O, I
<1>6. cx'.n = cx.n /\ cx'.at = cx.at /\ cx'.todo = {"store"}
  BY <1>5 DEF CInv, IInv, TypeOK, TransferOK
<1> QED BY <1>2, <1>4, <1>5, <1>6 DEF CInv, WhereInv, OutInv, InInv, Busied, Copied

LEMMA StoresOutputKeeps ==
  ASSUME StoresInOrder, CInv, IInv', StoresOutput PROVE CInv'
<1>1. /\ out.size \in Nat \ {0} /\ out \in Ring(out.size) /\ mx.n \in Nat
  BY SizeFacts DEF CInv, IInv
<1>2. mx.todo = {"store"} /\ mpc = "writing"
  BY DEF StoresOutput, MayStore, CInv, WhereInv, Busied
<1>3. O + mx.n <= out.size
  BY <1>2 DEF CInv, IInv, RoomInv, Storing
<1>4. O' = O + mx.n /\ out'.r = out.r /\ out'.size = out.size
  <2>1. O' = O + mx.n
    BY <1>1, <1>3, PutFacts DEF StoresOutput, O
  <2>2. out' = [out EXCEPT !.w = out'.w]
    BY <1>1 DEF StoresOutput, Ring
  <2> QED BY <1>1, <2>1, <2>2 DEF Ring
<1>5. HeldTo(out', outbuf', O')
  <2>1. HeldTo(out, outbuf, O + mx.n) /\ outbuf' = outbuf
    BY <1>2 DEF StoresOutput, Copied, CInv, OutInv
  <2> QED BY <1>4, <2>1, StoredHeld
<1>6. /\ in' = in /\ inbuf' = inbuf /\ I' = I /\ cpc' = cpc /\ cx' = cx
      /\ mpc' \in {"dsp", "waitin"}
  BY <1>2 DEF StoresOutput, Finishes, AfterOutput, I
<1> QED BY <1>4, <1>5, <1>6 DEF CInv, WhereInv, OutInv, InInv

LEMMA StoresRecordedKeeps ==
  ASSUME StoresInOrder, CInv, IInv', StoresRecorded PROVE CInv'
<1>1. /\ in.size \in Nat \ {0} /\ in \in Ring(in.size) /\ cx.n \in Nat
  BY SizeFacts DEF CInv, IInv
<1>2. cx.todo = {"store"} /\ cpc = "recording"
  BY DEF StoresRecorded, MayStore, CInv, WhereInv, Busied
<1>3. I + cx.n <= in.size
  BY <1>2 DEF CInv, IInv, RoomInv, Storing
<1>4. I' = I + cx.n /\ in'.r = in.r /\ in'.size = in.size
  <2>1. I' = I + cx.n
    BY <1>1, <1>3, PutFacts DEF StoresRecorded, I
  <2>2. in' = [in EXCEPT !.w = in'.w]
    BY <1>1 DEF StoresRecorded, Ring
  <2> QED BY <1>1, <2>1, <2>2 DEF Ring
<1>5. HeldTo(in', inbuf', I')
  <2>1. HeldTo(in, inbuf, I + cx.n) /\ inbuf' = inbuf
    BY <1>2 DEF StoresRecorded, Copied, CInv, InInv
  <2> QED BY <1>4, <2>1, StoredHeld
<1>6. /\ out' = out /\ outbuf' = outbuf /\ O' = O /\ mpc' = mpc /\ mx' = mx
      /\ cpc' = "idle"
  BY <1>2 DEF StoresRecorded, Finishes, O
<1> QED BY <1>4, <1>5, <1>6 DEF CInv, WhereInv, OutInv, InInv

LEMMA FreesPlayedKeeps ==
  ASSUME StoresInOrder, CInv, IInv', FreesPlayed PROVE CInv'
<1>1. /\ out.size \in Nat \ {0} /\ out \in Ring(out.size) /\ O \in Nat
      /\ mx.n \in Nat /\ cx.n \in Nat
  BY SizeFacts DEF CInv, IInv
<1>2. cx.todo = {"store"} /\ cpc = "playing" /\ "store" \in cx.todo
  BY DEF FreesPlayed, MayStore, CInv, WhereInv, Busied
<1>3. /\ cx.n <= O /\ O <= out.size
      /\ mpc = "writing" /\ Copied(mx) => O + mx.n <= out.size
  BY <1>2 DEF CInv, IInv, RoomInv, Storing, Copied
<1>4. O' = O - cx.n /\ out' \in Ring(out.size)
  BY <1>1, <1>3, TakeFacts DEF FreesPlayed, O
<1>5. out'.r = Advanced(out, out.r, cx.n) /\ out'.w = out.w /\ outbuf' = outbuf
  BY <1>1 DEF FreesPlayed, Ring
<1>6. HeldTo(out', outbuf, O')
  BY <1>1, <1>3, <1>4, <1>5, TakenHeld DEF CInv, OutInv
<1>7. ASSUME mpc = "writing", Copied(mx)
      PROVE  HeldTo(out', outbuf, O' + mx.n)
  <2> DEFINE m == O + mx.n
  <2>1. m \in Nat /\ cx.n <= m /\ m <= out.size /\ O' + mx.n = m - cx.n
    BY <1>1, <1>3, <1>4, <1>7
  <2>2. HeldTo(out, outbuf, m)
    BY <1>7 DEF CInv, OutInv
  <2> HIDE DEF m
  <2> QED BY <1>1, <1>4, <1>5, <2>1, <2>2, TakenHeld
<1>8. /\ in' = in /\ inbuf' = inbuf /\ I' = I /\ mpc' = mpc /\ mx' = mx
      /\ cpc' \in {"idle", "room"}
  BY <1>2 DEF FreesPlayed, Finishes, AfterPlaying, I
<1> QED BY <1>5, <1>6, <1>7, <1>8 DEF CInv, WhereInv, OutInv, InInv

LEMMA TakesInputKeeps ==
  ASSUME StoresInOrder, CInv, IInv', TakesInput PROVE CInv'
<1>1. /\ in.size \in Nat \ {0} /\ in \in Ring(in.size) /\ I \in Nat
      /\ mx.n \in Nat /\ cx.n \in Nat
  BY SizeFacts DEF CInv, IInv
<1>2. mx.todo = {"store"} /\ mpc = "reading" /\ "store" \in mx.todo
  BY DEF TakesInput, MayStore, CInv, WhereInv, Busied
<1>3. /\ mx.n <= I /\ I <= in.size
      /\ cpc = "recording" /\ Copied(cx) => I + cx.n <= in.size
  BY <1>2, SizeFacts DEF CInv, IInv, RoomInv, Storing, Copied
<1>4. I' = I - mx.n /\ in' \in Ring(in.size)
  BY <1>1, <1>3, TakeFacts DEF TakesInput, I
<1>5. in'.r = Advanced(in, in.r, mx.n) /\ in'.w = in.w /\ inbuf' = inbuf
  BY <1>1 DEF TakesInput, Ring
<1>6. HeldTo(in', inbuf, I')
  BY <1>1, <1>3, <1>4, <1>5, TakenHeld DEF CInv, InInv
<1>7. ASSUME cpc = "recording", Copied(cx)
      PROVE  HeldTo(in', inbuf, I' + cx.n)
  <2> DEFINE m == I + cx.n
  <2>1. m \in Nat /\ mx.n <= m /\ m <= in.size /\ I' + cx.n = m - mx.n
    BY <1>1, <1>3, <1>4, <1>7
  <2>2. HeldTo(in, inbuf, m)
    BY <1>7 DEF CInv, InInv
  <2> HIDE DEF m
  <2> QED BY <1>1, <1>4, <1>5, <2>1, <2>2, TakenHeld
<1>8. /\ out' = out /\ outbuf' = outbuf /\ O' = O /\ cpc' = cpc /\ cx' = cx
      /\ mpc' = "dsp"
  BY <1>2 DEF TakesInput, Finishes, O
<1> QED BY <1>5, <1>6, <1>7, <1>8 DEF CInv, WhereInv, OutInv, InInv

LEMMA ContentsStep ==
  ASSUME StoresInOrder, CInv, [Next]_vars PROVE CInv'
<1>1. IInv'
  BY StepKeeps DEF CInv
<1>2. CASE UNCHANGED vars
  <2>1. UNCHANGED rings /\ Quiet
    BY <1>2 DEF vars, CInv, WhereInv, Busied, Quiet, rings
  <2> QED BY <1>1, <2>1, QuietKeepsContents
<1>3. CASE OpenAudio \/ CloseAudio \/ ReopenAudio \/ TimesOut
  BY <1>3, DeviceKeepsContents
<1>4. CASE SendDacs \/ MainStep
  BY <1>1, <1>4, MainIsQuiet, QuietKeepsContents, CopiesOutputKeeps,
     StoresOutputKeeps, TakesInputKeeps DEF MainStep
<1>5. CASE CallbackStep
  BY <1>1, <1>5, CallbackIsQuiet, QuietKeepsContents, CopiesRecordedKeeps,
     FreesPlayedKeeps, StoresRecordedKeeps DEF CallbackStep
<1> QED BY <1>2, <1>3, <1>4, <1>5 DEF Next

THEOREM ContentsInvariance ==
  ASSUME StoresInOrder PROVE Spec => []CInv
<1>1. CInv /\ [Next]_vars => CInv'
  BY ContentsStep
<1> QED BY ContentsInit, <1>1, PTL DEF Spec
-------------------------------------------------------------------------------
(* Between a ring's indices lie the blocks it accepted, in order, never    *)
(* one of an earlier lap or one half written.                              *)
THEOREM WholeAndInOrder ==
  ASSUME StoresInOrder PROVE Spec => []BlocksInOrder
<1>1. ASSUME NEW q, NEW cells, HeldTo(q, cells, ReadAvailable(q)) PROVE Holds(q, cells)
  BY <1>1 DEF HeldTo, Holds, Indices, At
<1>2. CInv => BlocksInOrder
  BY <1>1 DEF CInv, OutInv, InInv, BlocksInOrder, O, I
<1> QED BY ContentsInvariance, <1>2, PTL

(* A writer's blocks and a reader's lie at different places.               *)
LEMMA RegionsApart ==
  ASSUME NEW B \in Nat \ {0}, NEW q \in Ring(B), NEW n \in Nat, NEW m \in Nat,
         ReadAvailable(q) + n <= B, m <= ReadAvailable(q)
  PROVE  Region(q, q.w, n) \cap Region(q, q.r, m) = {}
<1> DEFINE A == ReadAvailable(q)
<1>0. A \in Nat
  BY RingFacts
<1> SUFFICES ASSUME NEW i \in Indices(q, q.w, n), NEW j \in Indices(q, q.r, m),
                    Place(q, i) = Place(q, j)
             PROVE  FALSE
  BY DEF Region
<1>1. PICK a \in A..(A + n - 1) : i = At(q, a)
  BY WrittenRegion
<1>2. PICK b \in 0..(m - 1) : j = At(q, b)
  BY DEF Indices, At
<1>3. a \in 0..(B - 1) /\ b \in 0..(B - 1) /\ a # b
  BY <1>0
<1> QED BY <1>1, <1>2, <1>3, PlacesDiffer

(* The two threads never copy at the same place of a buffer.               *)
THEOREM CopiesApart ==
  ASSUME StoresInOrder PROVE Spec => []NoRace
<1>1. CInv => NoRace
  <2> SUFFICES ASSUME CInv PROVE NoRace
    OBVIOUS
  <2>0. /\ out.size \in Nat \ {0} /\ out \in Ring(out.size)
        /\ in.size \in Nat \ {0} /\ in \in Ring(in.size)
        /\ mx.n \in Nat /\ cx.n \in Nat
    BY SizeFacts DEF CInv, IInv
  <2>1. ASSUME mpc = "writing", cpc = "playing"
        PROVE  Busy(out, mx) \cap Busy(out, cx) = {}
    <3>1. O + mx.n <= out.size /\ cx.n <= O /\ mx.at = out.w /\ cx.at = out.r
      BY <2>1 DEF CInv, IInv, RoomInv, Storing, WhereInv, Busied
    <3> QED BY <2>0, <3>1, RegionsApart DEF Busy, O
  <2>2. ASSUME mpc = "reading", cpc = "recording"
        PROVE  Busy(in, mx) \cap Busy(in, cx) = {}
    <3>1. I + cx.n <= in.size /\ mx.n <= I /\ mx.at = in.r /\ cx.at = in.w
      BY <2>2 DEF CInv, IInv, RoomInv, Storing, WhereInv, Busied
    <3> QED BY <2>0, <3>1, RegionsApart DEF Busy, I
  <2> QED BY <2>1, <2>2 DEF NoRace
<1> QED BY ContentsInvariance, <1>1, PTL

-------------------------------------------------------------------------------
(***************************************************************************)
(* The sort of a DSP graph.                                                *)
(***************************************************************************)
Feeds(b) == {c \in wires : c.to = b}
Leaves(b) == {c \in wires : c.from = b}
IsRoot(b) == Feeds(b) = {}
IsCanvas(b) == Class(b) = "canvas"
Sub(c) == Box[c].sub

Frames ==
  [call : {"doit"}, b : Boxes] \cup [call : {"pass"}, b : Boxes, left : SUBSET wires]
    \cup [call : {"sort"}, w : Windows, left : SUBSET Boxes]
IsSort(f) == f.call = "sort"
IsPass(f) == f.call = "pass"
IsDoit(f) == f.call = "doit"
IsBox(f) == f.call # "sort"

(* Which call may have been made by which.                                 *)
Fits(f, g) ==
  IF IsSort(f) THEN IsDoit(g) /\ IsCanvas(g.b) /\ Sub(g.b) = f.w
  ELSE \/ IsSort(g) /\ g.w = Win(f.b)
       \/ IsPass(g) /\ Win(g.b) = Win(f.b)

PatchInv == wires \in Wirings

StackInv(s) ==
  /\ s \in Seq(Frames)
  /\ \A k \in 1..(Len(s) - 1) : Fits(s[k], s[k + 1])
  /\ s # <<>> => IsSort(s[Len(s)]) /\ s[Len(s)].w = Top
  /\ \A k, m \in 1..Len(s) :
       IsBox(s[k]) /\ IsBox(s[m]) /\ s[k].b = s[m].b => k = m
  /\ \A k, m \in 1..Len(s) :
       IsSort(s[k]) /\ IsSort(s[m]) /\ s[k].w = s[m].w => k = m

(* B are the boxes whose turn has come, P the connections passed on.       *)
OnStack(s, b) == \E k \in 1..Len(s) : IsBox(s[k]) /\ s[k].b = b

GoodMarks(B, P) ==
  /\ B \subseteq Reached
  /\ \A b \in Boxes : ~IsRoot(b) => (b \in B <=> Feeds(b) \subseteq P)
  /\ \A c \in P : c.from \in B

(* How far each call on the stack has come, and what is done.              *)
CallMarks(f, B, P) ==
  /\ IsSort(f) => /\ f.left \subseteq Roots(f.w)
                  /\ \A b \in Roots(f.w) : b \in B <=> b \notin f.left
  /\ IsBox(f) => f.b \in B
  /\ IsDoit(f) => Leaves(f.b) \cap P = {}
  /\ IsPass(f) => /\ f.left \subseteq Leaves(f.b)
                  /\ \A c \in Leaves(f.b) : c \in P <=> c \notin f.left
                  /\ IsCanvas(f.b) => Roots(Sub(f.b)) \subseteq B

AllCalls(s, B, P) == \A k \in 1..Len(s) : CallMarks(s[k], B, P)

DoneMarks(B, P, d) ==
  \A b \in Boxes : d[b] =>
    b \in B /\ Leaves(b) \subseteq P /\ (IsCanvas(b) => Roots(Sub(b)) \subseteq B)

(* A subpatch is sorted when its turn has come, not before.                *)
Untouched(c, B) == InWindow(Sub(c)) \cap B = {}
LaterMarks(B, s) ==
  /\ \A c \in Boxes : IsCanvas(c) /\ c \notin B => Untouched(c, B)
  /\ s # <<>> => (IsDoit(s[1]) /\ IsCanvas(s[1].b) => Untouched(s[1].b, B))
  /\ s = <<>> => Roots(Top) \subseteq B

NoneLost(B, s, d) == \A b \in B : d[b] \/ OnStack(s, b)

Marked(B, P, s, d, x) ==
  /\ GoodMarks(B, P)
  /\ AllCalls(s, B, P)
  /\ DoneMarks(B, P, d)
  /\ LaterMarks(B, s)
  /\ ~x => NoneLost(B, s, d)

Got(P) == [b \in Boxes |-> [i \in Inlets(b) |-> Cardinality(P \cap In(b, i))]]

GraphInv ==
  /\ PatchInv /\ done \in [Boxes -> BOOLEAN]
  /\ StackInv(stack)
  /\ \E B \in SUBSET Boxes, P \in SUBSET wires :
       Marked(B, P, stack, done, clash) /\ ngot = Got(P)

-------------------------------------------------------------------------------
(* The patch.                                                              *)
LEMMA HolderFacts ==
  ASSUME NEW w \in Windows \ {Top}
  PROVE  Holder(w) \in Boxes /\ IsCanvas(Holder(w)) /\ Sub(Holder(w)) = w
<1>1. \E c \in Boxes : Class(c) = "canvas" /\ Box[c].sub = w
  BY GraphAssumption DEF Class
<1> QED BY <1>1, Zenon DEF Holder, IsCanvas, Sub

LEMMA HolderOf ==
  ASSUME NEW c \in Boxes, IsCanvas(c)
  PROVE  Sub(c) \in Windows \ {Top} /\ Holder(Sub(c)) = c
<1>1. Sub(c) \in Windows \ {Top}
  BY GraphAssumption DEF IsCanvas, Class, Sub
<1>2. Holder(Sub(c)) \in Boxes /\ IsCanvas(Holder(Sub(c))) /\ Sub(Holder(Sub(c))) = Sub(c)
  BY <1>1, HolderFacts
<1> QED BY <1>1, <1>2, GraphAssumption DEF IsCanvas, Class, Sub

LEMMA WiresFacts ==
  ASSUME PatchInv
  PROVE  /\ IsFiniteSet(wires)
         /\ \A c \in wires : /\ c.from \in Boxes /\ c.to \in Boxes
                             /\ c.in \in Inlets(c.to) /\ Win(c.from) = Win(c.to)
BY GraphAssumption DEF PatchInv, Inlets, Win

LEMMA RootsFacts ==
  ASSUME PatchInv, NEW w
  PROVE  Roots(w) = {b \in InWindow(w) : IsRoot(b)}
BY WiresFacts DEF Roots, IsRoot, Feeds, In, InWindow

(* An object is done when its last inlet has got its last connection.      *)
LEMMA LastFilledFacts ==
  ASSUME PatchInv, NEW b \in Boxes, NEW P \in SUBSET wires, NEW got,
         got = Got(P)
  PROVE  LastFilled(b, got) <=> Feeds(b) \subseteq P
<1>1. ASSUME NEW i \in Inlets(b)
      PROVE  Cardinality(P \cap In(b, i)) >= Cardinality(In(b, i)) <=> In(b, i) \subseteq P
  <2>1. IsFiniteSet(In(b, i)) /\ IsFiniteSet(P \cap In(b, i))
    BY WiresFacts, FS_Subset DEF In
  <2>2. Cardinality(In(b, i)) \in Nat /\ Cardinality(P \cap In(b, i)) \in Nat
    BY <2>1, FS_CardinalityType
  <2>3. Cardinality(P \cap In(b, i)) <= Cardinality(In(b, i))
    BY <2>1, FS_Subset
  <2>4. Cardinality(P \cap In(b, i)) = Cardinality(In(b, i)) => P \cap In(b, i) = In(b, i)
    BY <2>1, FS_Subset
  <2>5. In(b, i) \subseteq P => P \cap In(b, i) = In(b, i)
    OBVIOUS
  <2> QED BY <2>2, <2>3, <2>4, <2>5
<1>2. LastFilled(b, got) <=> \A i \in Inlets(b) : In(b, i) \subseteq P
  BY <1>1 DEF LastFilled, Got
<1>3. Feeds(b) \subseteq P <=> \A i \in Inlets(b) : In(b, i) \subseteq P
  BY WiresFacts DEF Feeds, In
<1> QED BY <1>2, <1>3

-------------------------------------------------------------------------------
(* What is reached: from the roots on, and nothing else.                   *)
LEMMA SettledGrows ==
  ASSUME NEW b \in Boxes, \A c \in Feeds(b) : c.from \in SettledIn(Win(b))
  PROVE  b \in SettledIn(Win(b))
<1> DEFINE w == Win(b)
<1> SUFFICES ASSUME NEW S \in SUBSET InWindow(w), FedBy(w, S) \subseteq S
             PROVE  b \in S
  BY DEF SettledIn, InWindow
<1>1. \A c \in Feeds(b) : c.from \in S
  BY DEF SettledIn
<1>2. b \in FedBy(w, S)
  BY <1>1 DEF FedBy, Feeds, InWindow
<1> QED BY <1>2

LEMMA SettledLeast ==
  ASSUME NEW w, NEW T \in SUBSET InWindow(w), FedBy(w, T) \subseteq T
  PROVE  SettledIn(w) \subseteq T
BY DEF SettledIn

LEMMA SettledBoxes ==
  ASSUME NEW b \in Boxes
  PROVE  b \in Settled <=> b \in SettledIn(Win(b))
<1>1. Win(b) \in Windows
  BY GraphAssumption DEF Win
<1>2. \A w \in Windows : b \in SettledIn(w) => w = Win(b)
  BY DEF SettledIn, InWindow
<1> QED BY <1>1, <1>2 DEF Settled

LEMMA WindowReached ==
  ASSUME NEW w \in Windows,
         w = Top \/ (Holder(w) \in Settled /\ Parent(w) \in ReachedWindows(Settled))
  PROVE  w \in ReachedWindows(Settled)
<1> DEFINE closed == {V \in SUBSET Windows : InsideOf(V, Settled) \subseteq V}
<1>1. SUFFICES ASSUME NEW V \in closed
               PROVE  w \in V
  BY DEF ReachedWindows
<1>2. w \in InsideOf(V, Settled)
  BY DEF InsideOf, ReachedWindows
<1> QED BY <1>2

LEMMA WindowsLeast ==
  ASSUME NEW V \in SUBSET Windows, InsideOf(V, Settled) \subseteq V
  PROVE  ReachedWindows(Settled) \subseteq V
BY DEF ReachedWindows

LEMMA ReachedFacts ==
  ASSUME NEW b \in Boxes
  PROVE  b \in Reached <=>
           b \in SettledIn(Win(b)) /\ Win(b) \in ReachedWindows(Settled)
BY SettledBoxes DEF Reached

(* A box all of whose sources are reached, in a window that is.            *)
LEMMA ReachedGrows ==
  ASSUME PatchInv, NEW b \in Boxes, \A c \in Feeds(b) : c.from \in Reached,
         Win(b) = Top \/ Holder(Win(b)) \in Reached
  PROVE  b \in Reached
<1>1. Win(b) \in Windows
  BY GraphAssumption DEF Win
<1>2. \A c \in Feeds(b) : c.from \in SettledIn(Win(b))
  BY WiresFacts, ReachedFacts DEF Feeds
<1>3. b \in SettledIn(Win(b))
  BY <1>2, SettledGrows
<1>4. CASE Win(b) = Top
  BY <1>1, <1>3, <1>4, WindowReached, ReachedFacts
<1>5. CASE Win(b) # Top
  <2>1. Holder(Win(b)) \in Boxes
    BY <1>1, <1>5, HolderFacts
  <2>2. Holder(Win(b)) \in Settled /\ Parent(Win(b)) \in ReachedWindows(Settled)
    BY <1>5, <2>1, ReachedFacts, SettledBoxes DEF Parent
  <2> QED BY <1>1, <1>3, <2>2, WindowReached, ReachedFacts
<1> QED BY <1>4, <1>5

-------------------------------------------------------------------------------
(* The stack: r is s with its m innermost calls replaced by n others.      *)
Onto(r, s, n, m) ==
  /\ r \in Seq(Frames) /\ m <= Len(s) /\ Len(r) = n + Len(s) - m
  /\ \A j \in (m + 1)..Len(s) : r[n + j - m] = s[j]

LEMMA FrameFacts ==
  ASSUME NEW f \in Frames
  PROVE  /\ IsSort(f) => f.w \in Windows /\ f.left \in SUBSET Boxes
         /\ IsBox(f) => f.b \in Boxes
         /\ IsPass(f) => f.left \in SUBSET wires
         /\ IsBox(f) <=> IsDoit(f) \/ IsPass(f)
         /\ IsSort(f) <=> ~IsBox(f)
         /\ ~(IsDoit(f) /\ IsPass(f))
BY DEF Frames, IsSort, IsPass, IsDoit, IsBox

LEMMA OntoOne ==
  ASSUME NEW s \in Seq(Frames), s # <<>>, NEW f \in Frames
  PROVE  Onto(<<f>> \o Tail(s), s, 1, 1) /\ (<<f>> \o Tail(s))[1] = f
BY DEF Onto

LEMMA OntoTwo ==
  ASSUME NEW s \in Seq(Frames), s # <<>>, NEW f \in Frames, NEW g \in Frames
  PROVE  /\ <<g>> \o (<<f>> \o Tail(s)) = <<g, f>> \o Tail(s)
         /\ Onto(<<g, f>> \o Tail(s), s, 2, 1)
         /\ (<<g, f>> \o Tail(s))[1] = g /\ (<<g, f>> \o Tail(s))[2] = f
<1>1. Onto(<<g, f>> \o Tail(s), s, 2, 1)
  BY DEF Onto
<1>2. (<<g, f>> \o Tail(s))[1] = g /\ (<<g, f>> \o Tail(s))[2] = f
  OBVIOUS
<1>3. <<g>> \o (<<f>> \o Tail(s)) = <<g, f>> \o Tail(s)
  <2> DEFINE t == Tail(s)
             l == <<g>> \o (<<f>> \o t)
             r == <<g, f>> \o t
  <2>1. t \in Seq(Frames)
    OBVIOUS
  <2> HIDE DEF t
  <2>2. <<f>> \o t \in Seq(Frames) /\ Len(<<f>> \o t) = 1 + Len(t)
        /\ (<<f>> \o t)[1] = f /\ \A k \in 1..Len(t) : (<<f>> \o t)[k + 1] = t[k]
    BY <2>1
  <2>3. l \in Seq(Frames) /\ Len(l) = 2 + Len(t)
        /\ l[1] = g /\ l[2] = f /\ \A k \in 1..Len(t) : l[k + 2] = t[k]
    <3> DEFINE u == <<f>> \o t
    <3> HIDE DEF u
    <3>1. u \in Seq(Frames) /\ Len(u) = 1 + Len(t) /\ u[1] = f
          /\ \A k \in 1..Len(t) : u[k + 1] = t[k]
      BY <2>2 DEF u
    <3>2. <<g>> \o u \in Seq(Frames) /\ Len(<<g>> \o u) = 1 + Len(u)
          /\ (<<g>> \o u)[1] = g /\ \A k \in 1..Len(u) : (<<g>> \o u)[k + 1] = u[k]
      BY <3>1
    <3> QED BY <2>1, <3>1, <3>2 DEF u
  <2>4. r \in Seq(Frames) /\ Len(r) = 2 + Len(t)
        /\ r[1] = g /\ r[2] = f /\ \A k \in 1..Len(t) : r[k + 2] = t[k]
    BY <2>1
  <2> HIDE DEF l, r
  <2>5. \A k \in 1..Len(l) : l[k] = r[k]
    <3>1. ASSUME NEW k \in 1..Len(l), k > 2
          PROVE  l[k] = r[k]
      <4>1. k - 2 \in 1..Len(t) /\ (k - 2) + 2 = k
        BY <2>1, <2>3, <3>1
      <4> QED BY <2>3, <2>4, <4>1
    <3> QED BY <2>1, <2>3, <2>4, <3>1
  <2>6. l = r
    BY <2>3, <2>4, <2>5
  <2> QED BY <2>6 DEF l, r, t
<1> QED BY <1>1, <1>2, <1>3

LEMMA OntoPushed ==
  ASSUME NEW s \in Seq(Frames), NEW f \in Frames
  PROVE  Onto(<<f>> \o s, s, 1, 0) /\ (<<f>> \o s)[1] = f
BY DEF Onto

LEMMA OntoPopped ==
  ASSUME NEW s \in Seq(Frames), s # <<>>
  PROVE  Onto(Tail(s), s, 0, 1)
BY DEF Onto

LEMMA OntoReturned ==
  ASSUME NEW s \in Seq(Frames), Len(s) >= 2, NEW f \in Frames
  PROVE  Onto(<<f>> \o Tail(Tail(s)), s, 1, 2) /\ (<<f>> \o Tail(Tail(s)))[1] = f
<1>0. s # <<>>
  OBVIOUS
<1>1a. Tail(s) \in Seq(Frames) /\ Len(Tail(s)) = Len(s) - 1
       /\ \A j \in 1..(Len(s) - 1) : Tail(s)[j] = s[j + 1]
  BY <1>0
<1>1b. \A t \in Seq(Frames) : Len(t) > 0 => t # <<>>
  OBVIOUS
<1>1. Tail(s) \in Seq(Frames) /\ Tail(s) # <<>> /\ Len(Tail(s)) = Len(s) - 1
      /\ \A j \in 1..(Len(s) - 1) : Tail(s)[j] = s[j + 1]
  <2>1. Len(Tail(s)) > 0
    BY <1>1a
  <2> QED BY <1>1a, <1>1b, <2>1, Zenon
<1>2. Tail(Tail(s)) \in Seq(Frames) /\ Len(Tail(Tail(s))) = Len(s) - 2
      /\ \A j \in 1..(Len(s) - 2) : Tail(Tail(s))[j] = Tail(s)[j + 1]
  BY <1>1
<1>3. \A j \in 1..(Len(s) - 2) : Tail(Tail(s))[j] = s[j + 2]
  BY <1>1, <1>2
<1> QED BY <1>2, <1>3 DEF Onto

(* The calls of r are the new ones and those of s that are left.           *)
LEMMA OntoCalls ==
  ASSUME NEW s \in Seq(Frames), NEW n \in Nat, NEW m \in Nat, NEW r, Onto(r, s, n, m),
         NEW k \in 1..Len(r), k > n
  PROVE  k - n + m \in (m + 1)..Len(s) /\ r[k] = s[k - n + m]
BY DEF Onto

(* What is new must fit what it was called from, and be nowhere else.      *)
Joined(r, n) == \A k \in 1..n : k < Len(r) => Fits(r[k], r[k + 1])
Grounded(r, n) ==
  Len(r) = n /\ r # <<>> => IsSort(r[Len(r)]) /\ r[Len(r)].w = Top
Alone(r, n) ==
  \A k \in 1..n, j \in 1..Len(r) :
    /\ IsBox(r[k]) /\ IsBox(r[j]) /\ r[k].b = r[j].b => k = j
    /\ IsSort(r[k]) /\ IsSort(r[j]) /\ r[k].w = r[j].w => k = j

LEMMA OntoStack ==
  ASSUME NEW s, StackInv(s), NEW n \in Nat, NEW m \in Nat, NEW r, Onto(r, s, n, m),
         Joined(r, n), Grounded(r, n), Alone(r, n)
  PROVE  StackInv(r)
<1>0. s \in Seq(Frames) /\ r \in Seq(Frames)
  BY DEF StackInv, Onto
<1>1. ASSUME NEW k \in 1..(Len(r) - 1)
      PROVE  Fits(r[k], r[k + 1])
  <2>1. CASE k <= n
    BY <1>0, <2>1 DEF Joined
  <2>2. CASE k > n
    <3>1. k - n + m \in 1..(Len(s) - 1)
      BY <1>0, <2>2 DEF Onto
    <3>2. r[k] = s[k - n + m] /\ r[k + 1] = s[k - n + m + 1]
      BY <1>0, <2>2 DEF Onto
    <3> QED BY <3>1, <3>2 DEF StackInv
  <2> QED BY <2>1, <2>2
<1>2. ASSUME r # <<>>
      PROVE  IsSort(r[Len(r)]) /\ r[Len(r)].w = Top
  <2>1. CASE Len(r) = n
    BY <1>2, <2>1 DEF Grounded
  <2>2. CASE Len(r) # n
    <3>1. s # <<>> /\ Len(s) \in (m + 1)..Len(s) /\ r[Len(r)] = s[Len(s)]
      BY <1>0, <2>2 DEF Onto
    <3> QED BY <3>1 DEF StackInv
  <2> QED BY <2>1, <2>2
<1>3. ASSUME NEW k \in 1..Len(r), NEW j \in 1..Len(r), k # j
      PROVE  /\ ~(IsBox(r[k]) /\ IsBox(r[j]) /\ r[k].b = r[j].b)
             /\ ~(IsSort(r[k]) /\ IsSort(r[j]) /\ r[k].w = r[j].w)
  <2>1. CASE k <= n
    BY <1>3, <2>1 DEF Alone
  <2>2. CASE j <= n
    BY <1>3, <2>2 DEF Alone
  <2>3. CASE k > n /\ j > n
    <3>1. r[k] = s[k - n + m] /\ k - n + m \in 1..Len(s)
      BY <1>0, <2>3, OntoCalls
    <3>2. r[j] = s[j - n + m] /\ j - n + m \in 1..Len(s)
      BY <1>0, <2>3, OntoCalls
    <3>3. k - n + m # j - n + m
      BY <1>3
    <3> QED BY <3>1, <3>2, <3>3 DEF StackInv
  <2> QED BY <2>1, <2>2, <2>3
<1> QED BY <1>0, <1>1, <1>2, <1>3 DEF StackInv

-------------------------------------------------------------------------------
(* The marks after calls have been replaced: those of the calls that are   *)
(* left stay true if what is new does not concern them.                    *)
Apart(f, B, P) ==
  /\ IsSort(f) => Roots(f.w) \cap B = {}
  /\ IsBox(f) => Leaves(f.b) \cap P = {}

LEMMA CallStays ==
  ASSUME NEW f \in Frames, NEW B, NEW P, NEW B2, NEW P2,
         B \subseteq B2, P \subseteq P2, CallMarks(f, B, P), Apart(f, B2 \ B, P2 \ P)
  PROVE  CallMarks(f, B2, P2)
<1>1. IsBox(f) <=> IsDoit(f) \/ IsPass(f)
  BY FrameFacts
<1>2. ASSUME IsSort(f)
      PROVE  \A b \in Roots(f.w) : b \in B2 <=> b \in B
  BY <1>2 DEF Apart
<1>3. ASSUME IsBox(f)
      PROVE  \A c \in Leaves(f.b) : c \in P2 <=> c \in P
  BY <1>3 DEF Apart
<1> QED BY <1>1, <1>2, <1>3 DEF CallMarks

NewCalls(r, n, B, P) == \A k \in 1..n : k <= Len(r) => CallMarks(r[k], B, P)
Undisturbed(s, m, B, P) == \A j \in (m + 1)..Len(s) : Apart(s[j], B, P)

LEMMA CallsStay ==
  ASSUME NEW s \in Seq(Frames), NEW n \in Nat, NEW m \in Nat, NEW r, Onto(r, s, n, m),
         NEW B, NEW P, NEW B2, NEW P2, B \subseteq B2, P \subseteq P2,
         AllCalls(s, B, P), NewCalls(r, n, B2, P2), Undisturbed(s, m, B2 \ B, P2 \ P)
  PROVE  AllCalls(r, B2, P2)
<1> SUFFICES ASSUME NEW k \in 1..Len(r)
             PROVE  CallMarks(r[k], B2, P2)
  BY DEF AllCalls
<1>1. CASE k <= n
  BY <1>1 DEF NewCalls, Onto
<1>2. CASE k > n
  <2>a. r \in Seq(Frames) /\ Len(r) = n + Len(s) - m /\ Len(s) \in Nat /\ Len(r) \in Nat
    BY DEF Onto
  <2> DEFINE i == k - n + m
  <2>b. i \in (m + 1)..Len(s) /\ n + i - m = k
    BY <1>2, <2>a
  <2> HIDE DEF i
  <2>1. PICK j \in (m + 1)..Len(s) : r[k] = s[j]
    BY <2>b DEF Onto
  <2>2. j \in 1..Len(s)
    OBVIOUS
  <2>3. s[j] \in Frames
    BY <2>2
  <2>4. CallMarks(s[j], B, P)
    BY <2>2 DEF AllCalls
  <2>5. Apart(s[j], B2 \ B, P2 \ P)
    BY DEF Undisturbed
  <2> QED BY <2>1, <2>3, <2>4, <2>5, CallStays
<1> QED BY <1>1, <1>2 DEF Onto

(* A call that is dropped has been done, unless inputs clashed.            *)
Settles(r, s, m, d) ==
  \A j \in 1..m : j <= Len(s) /\ IsBox(s[j]) => d[s[j].b] \/ OnStack(r, s[j].b)

GoesOn(B, d, e) == \A b \in B : d[b] => e[b]

LEMMA NoneLostStays ==
  ASSUME NEW s \in Seq(Frames), NEW n \in Nat, NEW m \in Nat, NEW r, Onto(r, s, n, m),
         NEW B, NEW d, NEW e, GoesOn(B, d, e),
         NoneLost(B, s, d), Settles(r, s, m, e)
  PROVE  NoneLost(B, r, e)
<1> SUFFICES ASSUME NEW b \in B, OnStack(s, b)
             PROVE  e[b] \/ OnStack(r, b)
  BY DEF NoneLost, GoesOn
<1>1. PICK j \in 1..Len(s) : IsBox(s[j]) /\ s[j].b = b
  BY DEF OnStack
<1>2. CASE j <= m
  BY <1>1, <1>2 DEF Settles
<1>3. CASE j > m
  <2> DEFINE k == n + j - m
  <2>1. k \in 1..Len(r) /\ r[k] = s[j]
    BY <1>3 DEF Onto
  <2> HIDE DEF k
  <2> QED BY <1>1, <2>1 DEF OnStack
<1> QED BY <1>2, <1>3

-------------------------------------------------------------------------------
(* The patch does not change while it is sorted.                           *)
LEMMA PatchStays ==
  ASSUME wires' = wires
  PROVE  /\ PatchInv' = PatchInv /\ Frames' = Frames /\ Reached' = Reached
         /\ \A b : Feeds(b)' = Feeds(b) /\ Leaves(b)' = Leaves(b)
         /\ \A w : Roots(w)' = Roots(w)
         /\ \A P : Got(P)' = Got(P)
<1>1. PatchInv' = PatchInv /\ Frames' = Frames
  BY DEF PatchInv, Frames
<1>2. \A w : SettledIn(w)' = SettledIn(w)
  BY DEF SettledIn, FedBy, InWindow
<1>3. Settled' = Settled
  BY <1>2 DEF Settled
<1>4. Reached' = Reached
  BY <1>3 DEF Reached, ReachedWindows, InsideOf, Parent, Holder
<1>5. \A b : Feeds(b)' = Feeds(b) /\ Leaves(b)' = Leaves(b)
  BY DEF Feeds, Leaves
<1>6. \A w : Roots(w)' = Roots(w)
  BY DEF Roots, In, InWindow
<1>7. \A P : Got(P)' = Got(P)
  BY DEF Got, In
<1> QED BY <1>1, <1>4, <1>5, <1>6, <1>7

LEMMA Proceeds ==
  ASSUME GraphInv, wires' = wires, done' \in [Boxes -> BOOLEAN],
         NEW n \in Nat, NEW m \in Nat, Onto(stack', stack, n, m),
         Joined(stack', n), Grounded(stack', n), Alone(stack', n),
         NEW B \in SUBSET Boxes, NEW P \in SUBSET wires,
         AllCalls(stack, B, P),
         NEW B2 \in SUBSET Boxes, NEW P2 \in SUBSET wires, B \subseteq B2, P \subseteq P2,
         GoodMarks(B2, P2), NewCalls(stack', n, B2, P2),
         Undisturbed(stack, m, B2 \ B, P2 \ P), DoneMarks(B2, P2, done'),
         LaterMarks(B2, stack'), ~clash' => NoneLost(B2, stack', done'),
         ngot' = Got(P2)
  PROVE  GraphInv'
<1>1. StackInv(stack) /\ stack \in Seq(Frames)
  BY DEF GraphInv, StackInv
<1>2. StackInv(stack')
  BY <1>1, OntoStack
<1>3. AllCalls(stack', B2, P2)
  BY <1>1, CallsStay
<1>4. StackInv(stack)'
  BY <1>2, PatchStays DEF StackInv
<1>5. GoodMarks(B2, P2)' /\ DoneMarks(B2, P2, done)' /\ LaterMarks(B2, stack)'
  BY PatchStays DEF GoodMarks, DoneMarks, LaterMarks, Untouched, InWindow, IsRoot
<1>6. AllCalls(stack, B2, P2)'
  BY <1>3, PatchStays DEF AllCalls, CallMarks
<1>7. (~clash => NoneLost(B2, stack, done))'
  BY DEF NoneLost, OnStack
<1>8. Marked(B2, P2, stack, done, clash)'
  BY <1>5, <1>6, <1>7 DEF Marked
<1>9. (ngot = Got(P2))' /\ P2 \in SUBSET wires'
  BY PatchStays
<1>10. PatchInv'
  BY PatchStays DEF GraphInv
<1> QED BY <1>4, <1>8, <1>9, <1>10 DEF GraphInv

-------------------------------------------------------------------------------
(* The innermost call, and what is below it.                               *)
LEMMA TopCall ==
  ASSUME NEW s, StackInv(s), s # <<>>
  PROVE  /\ s \in Seq(Frames) /\ Len(s) \in Nat \ {0}
         /\ (Len(s) = 1 \/ Len(s) > 1)
         /\ Head(s) = s[1] /\ s[1] \in Frames
         /\ Len(s) = 1 => IsSort(s[1]) /\ s[1].w = Top
         /\ Len(s) > 1 => Fits(s[1], s[2]) /\ s[2] \in Frames
<1>1. s \in Seq(Frames) /\ Len(s) \in Nat \ {0} /\ Head(s) = s[1] /\ s[1] \in Frames
  BY DEF StackInv
<1>2. Len(s) = 1 => IsSort(s[1]) /\ s[1].w = Top
  BY <1>1 DEF StackInv
<1>3. Len(s) > 1 => 1 \in 1..(Len(s) - 1) /\ 2 \in 1..Len(s)
  BY <1>1
<1>4. Len(s) > 1 => Fits(s[1], s[1 + 1])
  BY <1>3 DEF StackInv
<1>5. Len(s) > 1 => s[2] \in Frames
  BY <1>1, <1>3
<1>6. Len(s) = 1 \/ Len(s) > 1
  <2>1. \A t \in Seq(Frames) : t # <<>> => Len(t) = 1 \/ Len(t) > 1
    OBVIOUS
  <2> QED BY <1>1, <2>1, Zenon
<1> QED BY <1>1, <1>2, <1>4, <1>5, <1>6

(* Whoever is replaced by a call for the same box or window stays alone.   *)
LEMMA AloneFirst ==
  ASSUME NEW s, StackInv(s), s # <<>>, NEW r, Onto(r, s, 1, 1),
         IsBox(r[1]) <=> IsBox(s[1]), IsSort(r[1]) <=> IsSort(s[1]),
         IsBox(r[1]) => r[1].b = s[1].b, IsSort(r[1]) => r[1].w = s[1].w
  PROVE  Alone(r, 1)
<1>1. s \in Seq(Frames) /\ Len(s) \in Nat \ {0}
  BY TopCall
<1>2. ASSUME NEW j \in 1..Len(r), j # 1
      PROVE  j \in 1..Len(s) /\ r[j] = s[j]
  BY <1>1, <1>2 DEF Onto
<1>3. 1 \in 1..Len(s)
  BY <1>1
<1>4. ASSUME NEW j \in 1..Len(r), j # 1
      PROVE  /\ ~(IsBox(r[1]) /\ IsBox(r[j]) /\ r[1].b = r[j].b)
             /\ ~(IsSort(r[1]) /\ IsSort(r[j]) /\ r[1].w = r[j].w)
  BY <1>2, <1>3, <1>4 DEF StackInv
<1> QED BY <1>4 DEF Alone

LEMMA FitsAlike ==
  ASSUME NEW f, NEW g, NEW h, Fits(f, h), IsSort(f) <=> IsSort(g),
         IsSort(f) => f.w = g.w, ~IsSort(f) => f.b = g.b
  PROVE  Fits(g, h)
BY DEF Fits

LEMMA JoinedFirst ==
  ASSUME NEW s, StackInv(s), s # <<>>, NEW r, Onto(r, s, 1, 1),
         IsBox(r[1]) <=> IsBox(s[1]), IsSort(r[1]) <=> IsSort(s[1]),
         ~IsSort(r[1]) => r[1].b = s[1].b, IsSort(r[1]) => r[1].w = s[1].w
  PROVE  Joined(r, 1) /\ Grounded(r, 1)
<1>1. s \in Seq(Frames) /\ Len(s) \in Nat \ {0}
      /\ (Len(s) = 1 => IsSort(s[1]) /\ s[1].w = Top) /\ (Len(s) > 1 => Fits(s[1], s[2]))
  BY TopCall
<1>2. Len(r) = Len(s) /\ (Len(s) > 1 => r[2] = s[2])
  BY <1>1 DEF Onto
<1>3. Len(s) > 1 => Fits(r[1], r[2])
  BY <1>1, <1>2, FitsAlike
<1>4. Joined(r, 1)
  BY <1>1, <1>2, <1>3 DEF Joined
<1>5. Grounded(r, 1)
  BY <1>1, <1>2 DEF Grounded
<1> QED BY <1>4, <1>5

-------------------------------------------------------------------------------
(* Each step, and the marks it leaves.                                     *)
LEMMA NothingNew ==
  ASSUME NEW s, NEW m, NEW B, NEW P
  PROVE  Undisturbed(s, m, B \ B, P \ P)
BY DEF Undisturbed, Apart

LEMMA StepDoitBox ==
  ASSUME GraphInv, DoitBox
  PROVE  GraphInv'
<1>1. /\ stack # <<>> /\ IsDoit(Head(stack)) /\ ~IsCanvas(Head(stack).b)
      /\ stack' = <<Pass(Head(stack).b)>> \o Tail(stack)
      /\ wires' = wires /\ done' = done /\ clash' = clash /\ ngot' = ngot
  BY DEF DoitBox, IsDoit, IsCanvas, patch
<1>2. StackInv(stack) /\ PatchInv /\ done \in [Boxes -> BOOLEAN]
  BY DEF GraphInv
<1>3. stack \in Seq(Frames) /\ Head(stack) = stack[1] /\ stack[1] \in Frames
      /\ 1 \in 1..Len(stack)
  BY <1>1, <1>2, TopCall
<1> DEFINE b == stack[1].b
           f == Pass(b)
<1>4. b \in Boxes /\ IsDoit(stack[1]) /\ IsBox(stack[1]) /\ ~IsSort(stack[1])
  BY <1>1, <1>3, FrameFacts
<1>5. f \in Frames /\ IsPass(f) /\ IsBox(f) /\ ~IsSort(f) /\ ~IsDoit(f)
      /\ f.b = b /\ f.left = Leaves(b)
  BY <1>4 DEF Pass, Frames, Leaves, IsPass, IsBox, IsSort, IsDoit
<1> HIDE DEF f
<1>6. Onto(stack', stack, 1, 1) /\ stack'[1] = f
  BY <1>1, <1>3, <1>5, OntoOne DEF f
<1>7. Joined(stack', 1) /\ Grounded(stack', 1)
  BY <1>1, <1>2, <1>4, <1>5, <1>6, JoinedFirst
<1>8. Alone(stack', 1)
  BY <1>1, <1>2, <1>4, <1>5, <1>6, AloneFirst
<1>9. PICK B \in SUBSET Boxes, P \in SUBSET wires :
        Marked(B, P, stack, done, clash) /\ ngot = Got(P)
  BY DEF GraphInv
<1>10. GoodMarks(B, P) /\ AllCalls(stack, B, P) /\ DoneMarks(B, P, done)
       /\ LaterMarks(B, stack) /\ (~clash => NoneLost(B, stack, done))
  BY <1>9 DEF Marked
<1>11. NewCalls(stack', 1, B, P)
  <2>1. CallMarks(stack[1], B, P)
    BY <1>3, <1>10 DEF AllCalls
  <2>2. CallMarks(f, B, P)
    BY <1>1, <1>3, <1>4, <1>5, <2>1 DEF CallMarks
  <2> QED BY <1>6, <2>2 DEF NewCalls
<1>12. stack' # <<>> /\ 1 \in 1..Len(stack')
  BY <1>3, <1>6 DEF Onto
<1>13. LaterMarks(B, stack')
  BY <1>5, <1>6, <1>10, <1>12 DEF LaterMarks
<1>14. ~clash' => NoneLost(B, stack', done')
  <2>1. Settles(stack', stack, 1, done)
    BY <1>5, <1>6, <1>12 DEF Settles, OnStack
  <2>2. GoesOn(B, done, done')
    BY <1>1 DEF GoesOn
  <2> QED BY <1>1, <1>3, <1>6, <1>10, <2>1, <2>2, NoneLostStays
<1>15. Undisturbed(stack, 1, B \ B, P \ P)
  BY NothingNew
<1> QED BY <1>1, <1>2, <1>6, <1>7, <1>8, <1>9, <1>10, <1>11, <1>13, <1>14, <1>15, Proceeds, SMTT(30)

(* A window is sorted on behalf of the subpatch that holds it.             *)
LEMMA BelowSort ==
  ASSUME NEW s, StackInv(s), s # <<>>, IsSort(s[1])
  PROVE  /\ s[1].w = Top <=> Len(s) = 1
         /\ Len(s) > 1 => /\ IsDoit(s[2]) /\ IsBox(s[2]) /\ s[2].b \in Boxes
                          /\ IsCanvas(s[2].b) /\ Sub(s[2].b) = s[1].w
                          /\ Holder(s[1].w) = s[2].b
<1>1. s \in Seq(Frames) /\ Len(s) \in Nat \ {0}
      /\ (Len(s) = 1 => s[1].w = Top)
      /\ (Len(s) > 1 => Fits(s[1], s[2]) /\ s[2] \in Frames)
  BY TopCall
<1>2. ASSUME Len(s) > 1
      PROVE  /\ IsDoit(s[2]) /\ IsBox(s[2]) /\ s[2].b \in Boxes
             /\ IsCanvas(s[2].b) /\ Sub(s[2].b) = s[1].w
  BY <1>1, <1>2, FrameFacts DEF Fits
<1>3. ASSUME Len(s) > 1
      PROVE  s[1].w # Top /\ Holder(s[1].w) = s[2].b
  BY <1>2, <1>3, HolderOf
<1>b. Len(s) = 1 \/ Len(s) > 1
  BY TopCall
<1>4. s[1].w = Top <=> Len(s) = 1
  BY <1>1, <1>3, <1>b
<1> QED BY <1>2, <1>3, <1>4

LEMMA AlonePushed ==
  ASSUME NEW s, StackInv(s), s # <<>>, IsDoit(s[1]), IsCanvas(s[1].b),
         NEW r, Onto(r, s, 1, 0), IsSort(r[1]), ~IsBox(r[1]), r[1].w = Sub(s[1].b)
  PROVE  Alone(r, 1)
<1>1. s \in Seq(Frames) /\ Len(s) \in Nat \ {0} /\ s[1] \in Frames /\ 1 \in 1..Len(s)
  BY TopCall
<1>2. s[1].b \in Boxes /\ IsBox(s[1])
  BY <1>1, FrameFacts
<1>3. ASSUME NEW i \in 1..Len(s), IsSort(s[i]), s[i].w = Sub(s[1].b)
      PROVE  FALSE
  <2>1. CASE i = Len(s)
    <3>1. s[i].w = Top
      BY <1>1, <2>1 DEF StackInv
    <3> QED BY <1>2, <1>3, <3>1, HolderOf
  <2>2. CASE i < Len(s)
    <3>1. i \in 1..(Len(s) - 1) /\ i + 1 \in 1..Len(s) /\ i + 1 # 1
      BY <1>1, <2>2
    <3>2. Fits(s[i], s[i + 1])
      BY <3>1 DEF StackInv
    <3>3. s[i + 1] \in Frames
      BY <1>1, <3>1
    <3>4. IsCanvas(s[i + 1].b) /\ Sub(s[i + 1].b) = Sub(s[1].b)
          /\ IsBox(s[i + 1]) /\ s[i + 1].b \in Boxes
      BY <1>3, <3>2, <3>3, FrameFacts DEF Fits
    <3>5. s[i + 1].b = s[1].b
      BY <1>2, <3>4, HolderOf
    <3> QED BY <1>1, <1>2, <3>1, <3>4, <3>5 DEF StackInv
  <2> QED BY <1>1, <2>1, <2>2
<1>4. ASSUME NEW j \in 1..Len(r), j # 1
      PROVE  j - 1 \in 1..Len(s) /\ r[j] = s[j - 1]
  <2>1. j - 1 \in 1..Len(s) /\ 1 + (j - 1) - 0 = j
    BY <1>1, <1>4 DEF Onto
  <2> QED BY <1>1, <2>1 DEF Onto
<1>5. ASSUME NEW j \in 1..Len(r), j # 1
      PROVE  ~(IsSort(r[j]) /\ r[j].w = r[1].w)
  BY <1>3, <1>4, <1>5
<1> QED BY <1>5 DEF Alone

LEMMA RootsInside ==
  ASSUME NEW w
  PROVE  Roots(w) \subseteq InWindow(w) /\ InWindow(w) \subseteq Boxes
BY DEF Roots, InWindow

LEMMA StepEnterCanvas ==
  ASSUME GraphInv, EnterCanvas
  PROVE  GraphInv'
<1>1. /\ stack # <<>> /\ IsDoit(Head(stack)) /\ IsCanvas(Head(stack).b)
      /\ stack' = <<Sort(Sub(Head(stack).b))>> \o stack
      /\ wires' = wires /\ done' = done /\ clash' = clash /\ ngot' = ngot
  BY DEF EnterCanvas, IsDoit, IsCanvas, Sub, patch
<1>2. StackInv(stack) /\ PatchInv /\ done \in [Boxes -> BOOLEAN]
  BY DEF GraphInv
<1>3. stack \in Seq(Frames) /\ Head(stack) = stack[1] /\ stack[1] \in Frames
      /\ 1 \in 1..Len(stack)
  BY <1>1, <1>2, TopCall
<1> DEFINE b == stack[1].b
           w == Sub(b)
           f == Sort(w)
<1>4. b \in Boxes /\ IsDoit(stack[1]) /\ IsBox(stack[1]) /\ ~IsSort(stack[1])
      /\ IsCanvas(b) /\ w \in Windows \ {Top}
  BY <1>1, <1>3, FrameFacts, HolderOf
<1>5. f \in Frames /\ IsSort(f) /\ ~IsBox(f) /\ ~IsPass(f) /\ ~IsDoit(f)
      /\ f.w = w /\ f.left = Roots(w)
  BY <1>4, RootsInside DEF Sort, Frames, IsPass, IsBox, IsSort, IsDoit
<1> HIDE DEF f
<1>6. Onto(stack', stack, 1, 0) /\ stack'[1] = f
  BY <1>1, <1>3, <1>5, OntoPushed DEF f
<1>7. Len(stack') = 1 + Len(stack) /\ stack'[2] = stack[1] /\ Len(stack) >= 1
      /\ stack' # <<>>
  <2>1. Len(stack') = 1 + Len(stack) /\ 1 \in (0 + 1)..Len(stack) /\ 1 + 1 - 0 = 2
    BY <1>3, <1>6 DEF Onto
  <2> QED BY <1>3, <1>6, <2>1 DEF Onto
<1>8. Joined(stack', 1) /\ Grounded(stack', 1)
  <2>1. Fits(f, stack[1])
    BY <1>4, <1>5 DEF Fits
  <2> QED BY <1>3, <1>6, <1>7, <2>1 DEF Joined, Grounded
<1>9. Alone(stack', 1)
  BY <1>1, <1>2, <1>4, <1>5, <1>6, AlonePushed
<1>10. PICK B \in SUBSET Boxes, P \in SUBSET wires :
         Marked(B, P, stack, done, clash) /\ ngot = Got(P)
  BY DEF GraphInv
<1>11. GoodMarks(B, P) /\ AllCalls(stack, B, P) /\ DoneMarks(B, P, done)
       /\ LaterMarks(B, stack) /\ (~clash => NoneLost(B, stack, done))
  BY <1>10 DEF Marked
<1>12. NewCalls(stack', 1, B, P)
  <2>1. Untouched(b, B)
    BY <1>1, <1>4, <1>11 DEF LaterMarks
  <2>2. CallMarks(f, B, P)
    BY <1>5, <2>1, RootsInside DEF CallMarks, Untouched
  <2> QED BY <1>6, <2>2 DEF NewCalls
<1>13. LaterMarks(B, stack')
  BY <1>5, <1>6, <1>7, <1>11 DEF LaterMarks
<1>14. ~clash' => NoneLost(B, stack', done')
  <2>1. Settles(stack', stack, 0, done)
    BY DEF Settles
  <2>2. GoesOn(B, done, done')
    BY <1>1 DEF GoesOn
  <2> QED BY <1>1, <1>3, <1>6, <1>11, <2>1, <2>2, NoneLostStays
<1>15. Undisturbed(stack, 0, B \ B, P \ P)
  BY NothingNew
<1> QED BY <1>1, <1>2, <1>6, <1>8, <1>9, <1>10, <1>11, <1>12, <1>13, <1>14, <1>15, Proceeds, SMTT(30)

(* What is below a box's connections is never a call that is yet to begin. *)
LEMMA LaterPopped ==
  ASSUME NEW s, StackInv(s), s # <<>>, IsPass(s[1]), NEW B, LaterMarks(B, s)
  PROVE  LaterMarks(B, Tail(s)) /\ Onto(Tail(s), s, 0, 1)
<1>1. s \in Seq(Frames) /\ Len(s) \in Nat \ {0} /\ s[1] \in Frames
      /\ (Len(s) = 1 => IsSort(s[1])) /\ (Len(s) > 1 => Fits(s[1], s[2]) /\ s[2] \in Frames)
  BY TopCall
<1>a. ~IsSort(s[1])
  BY <1>1, FrameFacts
<1>b. Len(s) = 1 \/ Len(s) > 1
  BY TopCall
<1>2. Len(s) > 1 /\ ~IsSort(s[1])
  BY <1>1, <1>a, <1>b
<1>3. ~IsDoit(s[2])
  BY <1>1, <1>2, FrameFacts DEF Fits, IsSort, IsPass, IsDoit
<1>4. Onto(Tail(s), s, 0, 1)
  BY <1>1, OntoPopped
<1>5. Len(Tail(s)) = Len(s) - 1 /\ Tail(s)[1] = s[2]
  <2>1. 2 \in (1 + 1)..Len(s) /\ 0 + 2 - 1 = 1
    BY <1>1, <1>2
  <2> QED BY <1>1, <1>4, <2>1 DEF Onto
<1>6. Tail(s) # <<>>
  <2>1. Len(Tail(s)) > 0
    BY <1>1, <1>2, <1>5
  <2>2. \A t : t = <<>> => Len(t) = 0
    OBVIOUS
  <2> QED BY <2>1, <2>2
<1> QED BY <1>3, <1>4, <1>5, <1>6 DEF LaterMarks

LEMMA StepPopped ==
  ASSUME GraphInv, stack # <<>>, IsPass(stack[1]), stack' = Tail(stack), wires' = wires,
         ngot' = ngot, done' \in [Boxes -> BOOLEAN],
         NEW B \in SUBSET Boxes, NEW P \in SUBSET wires,
         Marked(B, P, stack, done, clash), ngot = Got(P), DoneMarks(B, P, done'),
         ~clash' => NoneLost(B, stack', done')
  PROVE  GraphInv'
<1>1. StackInv(stack)
  BY DEF GraphInv
<1>2. GoodMarks(B, P) /\ AllCalls(stack, B, P) /\ LaterMarks(B, stack)
  BY DEF Marked
<1>3. Onto(stack', stack, 0, 1) /\ LaterMarks(B, stack')
  BY <1>1, <1>2, LaterPopped
<1>4. Joined(stack', 0) /\ Alone(stack', 0) /\ NewCalls(stack', 0, B, P)
  BY DEF Joined, Alone, NewCalls
<1>5. Grounded(stack', 0)
  <2>1. stack' \in Seq(Frames)
    BY <1>3 DEF Onto
  <2> QED BY <2>1 DEF Grounded
<1>6. Undisturbed(stack, 1, B \ B, P \ P)
  BY NothingNew
<1> QED BY <1>2, <1>3, <1>4, <1>5, <1>6, Proceeds, SMTT(30)

LEMMA StepEndDoit ==
  ASSUME GraphInv, EndDoit
  PROVE  GraphInv'
<1>1. /\ stack # <<>> /\ IsPass(Head(stack)) /\ Head(stack).left = {}
      /\ done' = [done EXCEPT ![Head(stack).b] = TRUE]
      /\ stack' = Tail(stack)
      /\ wires' = wires /\ clash' = clash /\ ngot' = ngot
  BY DEF EndDoit, IsPass, patch
<1>2. StackInv(stack) /\ done \in [Boxes -> BOOLEAN]
  BY DEF GraphInv
<1>3. stack \in Seq(Frames) /\ Head(stack) = stack[1] /\ stack[1] \in Frames
      /\ 1 \in 1..Len(stack)
  BY <1>1, <1>2, TopCall
<1> DEFINE b == stack[1].b
<1>4. b \in Boxes /\ IsBox(stack[1])
  BY <1>1, <1>3, FrameFacts
<1>5. PICK B \in SUBSET Boxes, P \in SUBSET wires :
        Marked(B, P, stack, done, clash) /\ ngot = Got(P)
  BY DEF GraphInv
<1>6. AllCalls(stack, B, P) /\ DoneMarks(B, P, done) /\ LaterMarks(B, stack)
      /\ (~clash => NoneLost(B, stack, done))
  BY <1>5 DEF Marked
<1>7. done' \in [Boxes -> BOOLEAN]
  BY <1>1, <1>2
<1>8. DoneMarks(B, P, done')
  <2>1. CallMarks(stack[1], B, P)
    BY <1>3, <1>6 DEF AllCalls
  <2>2. b \in B /\ Leaves(b) \subseteq P /\ (IsCanvas(b) => Roots(Sub(b)) \subseteq B)
    BY <1>1, <1>3, <1>4, <2>1 DEF CallMarks
  <2>3. \A c \in Boxes : done'[c] => c = b \/ done[c]
    BY <1>1, <1>2, <1>3
  <2> QED BY <1>6, <2>2, <2>3 DEF DoneMarks
<1>9. ~clash' => NoneLost(B, stack', done')
  <2>1. done'[b] /\ GoesOn(B, done, done')
    BY <1>1, <1>2, <1>3, <1>4 DEF GoesOn
  <2>2. Settles(stack', stack, 1, done')
    BY <2>1 DEF Settles
  <2>3. Onto(stack', stack, 0, 1)
    BY <1>1, <1>2, <1>3, <1>6, LaterPopped
  <2> QED BY <1>1, <1>3, <1>6, <2>1, <2>2, <2>3, NoneLostStays
<1> QED BY <1>1, <1>3, <1>5, <1>7, <1>8, <1>9, StepPopped

(* A call for a box of which nothing is on the stack, over the same call   *)
(* as before with less left to do.                                         *)
LEMMA TwoFirst ==
  ASSUME NEW s, StackInv(s), s # <<>>, NEW r, Onto(r, s, 2, 1),
         IsBox(r[2]) <=> IsBox(s[1]), IsSort(r[2]) <=> IsSort(s[1]),
         ~IsSort(r[2]) => r[2].b = s[1].b, IsSort(r[2]) => r[2].w = s[1].w,
         ~IsSort(r[2]) <=> IsBox(r[2]),
         IsDoit(r[1]), IsBox(r[1]), ~IsSort(r[1]), Fits(r[1], r[2]),
         ~OnStack(s, r[1].b)
  PROVE  Joined(r, 2) /\ Grounded(r, 2) /\ Alone(r, 2)
<1>1. s \in Seq(Frames) /\ Len(s) \in Nat \ {0} /\ 1 \in 1..Len(s)
      /\ (Len(s) = 1 => IsSort(s[1]) /\ s[1].w = Top) /\ (Len(s) > 1 => Fits(s[1], s[2]))
  BY TopCall
<1>2. r \in Seq(Frames) /\ Len(r) = 2 + Len(s) - 1
  BY DEF Onto
<1>3. Len(s) > 1 => r[3] = s[2]
  <2>1. Len(s) > 1 => 2 \in (1 + 1)..Len(s) /\ 2 + 2 - 1 = 3
    BY <1>1
  <2> QED BY <2>1 DEF Onto
<1>4. Joined(r, 2)
  <2>1. Len(s) > 1 => Fits(r[2], r[3])
    BY <1>1, <1>3, FitsAlike
  <2>2. \A k \in 1..2 : k = 1 \/ k = 2
    OBVIOUS
  <2>3. 2 < Len(r) => Fits(r[2], r[2 + 1])
    BY <1>1, <1>2, <2>1
  <2>4. Fits(r[1], r[1 + 1])
    OBVIOUS
  <2> QED BY <2>2, <2>3, <2>4 DEF Joined
<1>5. Grounded(r, 2)
  <2>1. ASSUME Len(r) = 2
        PROVE  IsSort(r[2]) /\ r[2].w = Top
    <3>a. Len(s) \in Nat
      BY <1>1
    <3>b. Len(r) = 2 + Len(s) - 1
      BY <1>2
    <3>1. Len(s) = 1
      <4>1. \A n \in Nat : 2 = 2 + n - 1 => n = 1
        OBVIOUS
      <4> QED BY <2>1, <3>a, <3>b, <4>1, Zenon
    <3>2. IsSort(s[1]) /\ s[1].w = Top
      BY <1>1, <3>1
    <3> QED BY <3>2
  <2> QED BY <2>1 DEF Grounded
<1>6. ASSUME NEW j \in 1..Len(r), j > 2
      PROVE  j - 1 \in 1..Len(s) /\ j - 1 # 1 /\ r[j] = s[j - 1]
  <2>1. j - 1 \in (1 + 1)..Len(s) /\ 2 + (j - 1) - 1 = j
    BY <1>1, <1>2, <1>6
  <2> QED BY <1>1, <2>1 DEF Onto
<1>7. ASSUME NEW j \in 1..Len(r), j # 1
      PROVE  ~(IsBox(r[1]) /\ IsBox(r[j]) /\ r[1].b = r[j].b)
  <2>1. CASE j = 2
    BY <1>1, <2>1 DEF OnStack
  <2>2. CASE j > 2
    BY <1>6, <2>2 DEF OnStack
  <2>3. j = 2 \/ j > 2
    BY <1>2, <1>7
  <2> QED BY <2>1, <2>2, <2>3
<1>8. ASSUME NEW j \in 1..Len(r), j > 2
      PROVE  /\ ~(IsBox(r[2]) /\ IsBox(r[j]) /\ r[2].b = r[j].b)
             /\ ~(IsSort(r[2]) /\ IsSort(r[j]) /\ r[2].w = r[j].w)
  BY <1>1, <1>6, <1>8 DEF StackInv
<1>9. ASSUME NEW k \in 1..2, NEW j \in 1..Len(r), k # j
      PROVE  /\ ~(IsBox(r[k]) /\ IsBox(r[j]) /\ r[k].b = r[j].b)
             /\ ~(IsSort(r[k]) /\ IsSort(r[j]) /\ r[k].w = r[j].w)
  <2>1. CASE k = 1
    BY <1>7, <1>9, <2>1
  <2>2. CASE k = 2 /\ j = 1
    <3>1. 2 \in 1..Len(r)
      BY <1>1, <1>2
    <3> QED BY <1>7, <2>2, <3>1
  <2>3. CASE k = 2 /\ j > 2
    BY <1>8, <2>3
  <2> QED BY <1>2, <1>9, <2>1, <2>2, <2>3
<1>10. Alone(r, 2)
  BY <1>9 DEF Alone
<1> QED BY <1>4, <1>5, <1>10

(* Nothing is on the stack for a box whose turn has not come.              *)
LEMMA NotOnStack ==
  ASSUME NEW s, NEW B, NEW P, AllCalls(s, B, P), NEW b, b \notin B
  PROVE  ~OnStack(s, b)
BY DEF AllCalls, CallMarks, OnStack

(* The holder of a window in which a box has had its turn has had its own. *)
LEMMA HolderBegun ==
  ASSUME NEW B, NEW s, LaterMarks(B, s), NEW b \in B, b \in Boxes,
         NEW c \in Boxes, IsCanvas(c), Sub(c) = Win(b)
  PROVE  c \in B
BY DEF LaterMarks, Untouched, InWindow

LEMMA LaterWith ==
  ASSUME NEW B \in SUBSET Boxes, NEW s, LaterMarks(B, s), NEW b \in Boxes, b \notin B,
         Win(b) # Top => Holder(Win(b)) \in B, NEW r, r # <<>>, IsDoit(r[1]), r[1].b = b
  PROVE  LaterMarks(B \cup {b}, r)
<1>1. ASSUME NEW c \in Boxes, IsCanvas(c), c \notin B
      PROVE  Untouched(c, B \cup {b})
  <2>1. Untouched(c, B)
    BY <1>1 DEF LaterMarks
  <2>2. Win(b) # Sub(c)
    BY <1>1, HolderOf
  <2> QED BY <2>1, <2>2 DEF Untouched, InWindow
<1> QED BY <1>1 DEF LaterMarks

LEMMA StepStartAtRoot ==
  ASSUME GraphInv, StartAtRoot
  PROVE  GraphInv'
<1>1. /\ stack # <<>> /\ IsSort(Head(stack))
      /\ wires' = wires /\ done' = done /\ clash' = clash /\ ngot' = ngot
  BY DEF StartAtRoot, IsSort, patch, boxVars
<1>2. StackInv(stack) /\ PatchInv /\ done \in [Boxes -> BOOLEAN]
  BY DEF GraphInv
<1>3. stack \in Seq(Frames) /\ Head(stack) = stack[1] /\ stack[1] \in Frames
      /\ 1 \in 1..Len(stack)
  BY <1>1, <1>2, TopCall
<1>4. PICK b \in stack[1].left :
        stack' = <<Doit(b), [stack[1] EXCEPT !.left = @ \ {b}]>> \o Tail(stack)
  BY <1>1, <1>3 DEF StartAtRoot
<1> DEFINE w == stack[1].w
           f == Doit(b)
           g == [stack[1] EXCEPT !.left = @ \ {b}]
<1>5. w \in Windows /\ stack[1].left \in SUBSET Boxes /\ b \in Boxes
      /\ IsSort(stack[1]) /\ ~IsBox(stack[1])
  BY <1>1, <1>3, FrameFacts
<1>6. f \in Frames /\ IsDoit(f) /\ IsBox(f) /\ ~IsSort(f) /\ ~IsPass(f) /\ f.b = b
  BY <1>5 DEF Doit, Frames, IsPass, IsBox, IsSort, IsDoit
<1>7. stack[1] \in [call : {"sort"}, w : Windows, left : SUBSET Boxes]
  BY <1>3, <1>5 DEF Frames, IsSort
<1>8. g \in Frames /\ IsSort(g) /\ ~IsBox(g) /\ ~IsPass(g) /\ ~IsDoit(g)
      /\ g.w = w /\ g.left = stack[1].left \ {b}
  BY <1>7 DEF Frames, IsPass, IsBox, IsSort, IsDoit
<1> HIDE DEF f, g
<1>9. Onto(stack', stack, 2, 1) /\ stack'[1] = f /\ stack'[2] = g
  <2>1. stack' = <<f, g>> \o Tail(stack)
    BY <1>4 DEF f, g
  <2>2. stack \in Seq(Frames) /\ stack # <<>> /\ f \in Frames /\ g \in Frames
    BY <1>1, <1>3, <1>6, <1>8
  <2>3. /\ Onto(<<f, g>> \o Tail(stack), stack, 2, 1)
        /\ (<<f, g>> \o Tail(stack))[1] = f /\ (<<f, g>> \o Tail(stack))[2] = g
    BY <2>2, OntoTwo, ZenonT(30)
  <2> QED BY <2>1, <2>3, Zenon
<1>10. PICK B \in SUBSET Boxes, P \in SUBSET wires :
         Marked(B, P, stack, done, clash) /\ ngot = Got(P)
  BY DEF GraphInv
<1>11. GoodMarks(B, P) /\ AllCalls(stack, B, P) /\ DoneMarks(B, P, done)
       /\ LaterMarks(B, stack) /\ (~clash => NoneLost(B, stack, done))
  BY <1>10 DEF Marked
<1>12. CallMarks(stack[1], B, P)
  BY <1>3, <1>11 DEF AllCalls
<1>13. b \notin B /\ b \in Roots(w) /\ b \in InWindow(w) /\ IsRoot(b) /\ Win(b) = w
  <2>1. b \in Roots(w) /\ b \notin B
    BY <1>5, <1>12 DEF CallMarks
  <2> QED BY <1>2, <2>1, RootsFacts DEF InWindow
<1>14. w # Top => Holder(w) \in B
  <2>1. ASSUME w # Top
        PROVE  Holder(w) \in B
    <3>1. Len(stack) > 1
      BY <1>1, <1>2, <1>5, <2>1, BelowSort, TopCall
    <3>2. IsBox(stack[2]) /\ Holder(w) = stack[2].b
      BY <1>1, <1>2, <1>5, <3>1, BelowSort
    <3>3. CallMarks(stack[2], B, P)
      BY <1>3, <1>11, <3>1 DEF AllCalls
    <3> QED BY <3>2, <3>3 DEF CallMarks
  <2> QED BY <2>1
<1>15. Joined(stack', 2) /\ Grounded(stack', 2) /\ Alone(stack', 2)
  <2>1. Fits(f, g)
    BY <1>6, <1>8, <1>13 DEF Fits
  <2>2. ~OnStack(stack, b)
    BY <1>11, <1>13, NotOnStack
  <2> QED BY <1>1, <1>2, <1>5, <1>6, <1>8, <1>9, <2>1, <2>2, TwoFirst
<1> DEFINE B2 == B \cup {b}
<1>16. GoodMarks(B2, P)
  <2>1. \A c \in Feeds(b) : c.from \in Reached
    BY <1>13 DEF IsRoot
  <2>2. Win(b) = Top \/ Holder(Win(b)) \in Reached
    BY <1>11, <1>13, <1>14 DEF GoodMarks
  <2>3. b \in Reached
    BY <1>2, <1>5, <2>1, <2>2, ReachedGrows
  <2> QED BY <1>11, <1>13, <2>3 DEF GoodMarks
<1>17. NewCalls(stack', 2, B2, P)
  <2>1. CallMarks(f, B2, P)
    BY <1>6, <1>11, <1>13 DEF CallMarks, GoodMarks, Leaves
  <2>2. CallMarks(g, B2, P)
    BY <1>5, <1>8, <1>12 DEF CallMarks
  <2>3. \A k \in 1..2 : k = 1 \/ k = 2
    OBVIOUS
  <2> QED BY <1>9, <2>1, <2>2, <2>3 DEF NewCalls
<1>18. Undisturbed(stack, 1, B2 \ B, P \ P)
  <2>1. ASSUME NEW j \in 2..Len(stack), IsSort(stack[j])
        PROVE  b \notin Roots(stack[j].w)
    <3>1. j \in 1..Len(stack) /\ j # 1
      BY <1>3
    <3>2. stack[j].w # w
      BY <1>2, <1>3, <1>5, <2>1, <3>1 DEF StackInv
    <3> QED BY <1>13, <3>2, RootsInside DEF InWindow
  <2>2. 1 + 1 = 2
    OBVIOUS
  <2> QED BY <2>1, <2>2 DEF Undisturbed, Apart
<1>19. DoneMarks(B2, P, done')
  BY <1>1, <1>11 DEF DoneMarks
<1>20. LaterMarks(B2, stack')
  <2>1. stack' # <<>>
    BY <1>3, <1>9 DEF Onto
  <2> QED BY <1>5, <1>6, <1>9, <1>11, <1>13, <1>14, <2>1, LaterWith
<1>21. ~clash' => NoneLost(B2, stack', done')
  <2>1. Settles(stack', stack, 1, done) /\ GoesOn(B, done, done')
    BY <1>1, <1>5 DEF Settles, GoesOn
  <2>2. ~clash' => NoneLost(B, stack', done')
    BY <1>1, <1>3, <1>9, <1>11, <2>1, NoneLostStays
  <2>3. OnStack(stack', b)
    <3>1. 1 \in 1..Len(stack')
      BY <1>3, <1>9 DEF Onto
    <3> QED BY <1>6, <1>9, <3>1 DEF OnStack
  <2> QED BY <2>2, <2>3 DEF NoneLost
<1>22. B2 \in SUBSET Boxes /\ B \subseteq B2
  BY <1>5
<1> HIDE DEF B2
<1> QED BY <1>1, <1>2, <1>9, <1>10, <1>11, <1>15, <1>16, <1>17, <1>18, <1>19, <1>20,
           <1>21, <1>22, Proceeds, SMTT(30)

(* A subpatch goes on with its connections when its window is sorted.      *)
LEMMA ReturnedFits ==
  ASSUME NEW s, StackInv(s), Len(s) > 1, IsDoit(s[2]), IsBox(s[2]),
         NEW r, Onto(r, s, 1, 2),
         IsBox(r[1]), ~IsSort(r[1]), r[1].b = s[2].b
  PROVE  Joined(r, 1) /\ Grounded(r, 1) /\ Alone(r, 1)
<1>1. s \in Seq(Frames) /\ Len(s) \in Nat /\ 2 \in 1..Len(s) /\ s[2] \in Frames
  BY DEF StackInv
<1>2. ~IsSort(s[2])
  BY <1>1, FrameFacts
<1>3. r \in Seq(Frames) /\ Len(r) = Len(s) - 1
  BY <1>1 DEF Onto
<1>4. ASSUME NEW j \in 1..Len(r), j # 1
      PROVE  j + 1 \in 1..Len(s) /\ j + 1 # 2 /\ r[j] = s[j + 1]
  <2>1. j + 1 \in (2 + 1)..Len(s) /\ 1 + (j + 1) - 2 = j
    BY <1>1, <1>3, <1>4
  <2> QED BY <1>1, <1>4, <2>1 DEF Onto
<1>5. Joined(r, 1)
  <2>1. ASSUME 1 < Len(r)
        PROVE  Fits(r[1], r[2])
    <3>1. 2 \in 1..(Len(s) - 1) /\ 2 \in 1..Len(r) /\ 2 # 1
      BY <1>1, <1>3, <2>1
    <3>2. Fits(s[2], s[2 + 1])
      BY <3>1 DEF StackInv
    <3>3. r[2] = s[2 + 1]
      BY <1>4, <3>1
    <3> QED BY <1>2, <3>2, <3>3, FitsAlike
  <2>2. \A k \in 1..1 : k = 1 /\ k + 1 = 2
    OBVIOUS
  <2> QED BY <2>1, <2>2 DEF Joined
<1>6. Grounded(r, 1)
  <2>1. ASSUME Len(r) = 1
        PROVE  FALSE
    <3>1. Len(s) = 2
      <4>1. \A n \in Nat : 1 = n - 1 => n = 2
        OBVIOUS
      <4> QED BY <1>1, <1>3, <2>1, <4>1, Zenon
    <3>2. s # <<>>
      <4>1. \A t : t = <<>> => Len(t) = 0
        OBVIOUS
      <4> QED BY <3>1, <4>1
    <3> QED BY <1>2, <3>1, <3>2 DEF StackInv
  <2> QED BY <2>1 DEF Grounded
<1>7. ASSUME NEW j \in 1..Len(r), j # 1
      PROVE  ~(IsBox(r[1]) /\ IsBox(r[j]) /\ r[1].b = r[j].b)
  <2>1. j + 1 \in 1..Len(s) /\ j + 1 # 2 /\ r[j] = s[j + 1]
    BY <1>4, <1>7
  <2> QED BY <1>1, <2>1 DEF StackInv
<1>8. Alone(r, 1)
  BY <1>7 DEF Alone
<1> QED BY <1>5, <1>6, <1>8

LEMMA StepEndSort ==
  ASSUME GraphInv, EndSort
  PROVE  GraphInv'
<1>1. /\ stack # <<>> /\ IsSort(Head(stack)) /\ Head(stack).left = {}
      /\ wires' = wires /\ done' = done /\ clash' = clash /\ ngot' = ngot
      /\ Head(stack).w = Top => stack' = <<>>
      /\ Head(stack).w # Top =>
           stack' = <<Pass(Holder(Head(stack).w))>> \o Tail(Tail(stack))
  BY DEF EndSort, IsSort, patch, boxVars
<1>2. StackInv(stack) /\ PatchInv /\ done \in [Boxes -> BOOLEAN]
  BY DEF GraphInv
<1>3. stack \in Seq(Frames) /\ Head(stack) = stack[1] /\ stack[1] \in Frames
      /\ Len(stack) \in Nat \ {0} /\ 1 \in 1..Len(stack)
  BY <1>1, <1>2, TopCall
<1> DEFINE w == stack[1].w
           c == Holder(w)
           f == Pass(c)
<1>4. w \in Windows /\ IsSort(stack[1]) /\ ~IsBox(stack[1])
  BY <1>1, <1>3, FrameFacts
<1>5. PICK B \in SUBSET Boxes, P \in SUBSET wires :
        Marked(B, P, stack, done, clash) /\ ngot = Got(P)
  BY DEF GraphInv
<1>6. GoodMarks(B, P) /\ AllCalls(stack, B, P) /\ DoneMarks(B, P, done)
      /\ LaterMarks(B, stack) /\ (~clash => NoneLost(B, stack, done))
  BY <1>5 DEF Marked
<1>7. Roots(w) \subseteq B
  <2>1. CallMarks(stack[1], B, P)
    BY <1>3, <1>6 DEF AllCalls
  <2> QED BY <1>1, <1>3, <1>4, <2>1 DEF CallMarks
<1>8. GoesOn(B, done, done')
  BY <1>1 DEF GoesOn
<1>9. CASE w = Top
  <2>1. Len(stack) = 1 /\ stack' = <<>>
    BY <1>1, <1>2, <1>3, <1>4, <1>9, BelowSort
  <2>2. Onto(stack', stack, 0, 1)
    BY <2>1 DEF Onto
  <2>3. Joined(stack', 0) /\ Grounded(stack', 0) /\ Alone(stack', 0)
        /\ NewCalls(stack', 0, B, P)
    BY <2>1 DEF Joined, Grounded, Alone, NewCalls
  <2>4. LaterMarks(B, stack')
    BY <1>6, <1>7, <1>9, <2>1 DEF LaterMarks
  <2>5. ~clash' => NoneLost(B, stack', done')
    <3>1. Settles(stack', stack, 1, done')
      BY <1>4 DEF Settles
    <3> QED BY <1>1, <1>3, <1>6, <1>8, <2>2, <3>1, NoneLostStays
  <2>6. Undisturbed(stack, 1, B \ B, P \ P)
    BY NothingNew
  <2> QED BY <1>1, <1>2, <1>5, <1>6, <2>2, <2>3, <2>4, <2>5, <2>6, Proceeds, SMTT(30)
<1>10. CASE w # Top
  <2>1. Len(stack) > 1
    BY <1>1, <1>2, <1>4, <1>10, BelowSort, TopCall
  <2>2. IsDoit(stack[2]) /\ IsBox(stack[2]) /\ stack[2].b \in Boxes
        /\ c = stack[2].b /\ IsCanvas(c) /\ Sub(c) = w
    BY <1>1, <1>2, <1>4, <2>1, BelowSort
  <2>3. f \in Frames /\ IsPass(f) /\ IsBox(f) /\ ~IsSort(f) /\ ~IsDoit(f)
        /\ f.b = c /\ f.left = Leaves(c)
    BY <2>2 DEF Pass, Frames, Leaves, IsPass, IsBox, IsSort, IsDoit
  <2> HIDE DEF f
  <2>4. Onto(stack', stack, 1, 2) /\ stack'[1] = f
    <3>1. stack' = <<f>> \o Tail(Tail(stack))
      BY <1>1, <1>3, <1>10 DEF f
    <3>2. Len(stack) >= 2
      BY <1>3, <2>1
    <3> QED BY <1>3, <2>3, <3>1, <3>2, OntoReturned
  <2>5. Joined(stack', 1) /\ Grounded(stack', 1) /\ Alone(stack', 1)
    BY <1>2, <2>1, <2>2, <2>3, <2>4, ReturnedFits
  <2>6. NewCalls(stack', 1, B, P)
    <3>1. 2 \in 1..Len(stack) /\ ~IsPass(stack[2])
      BY <1>3, <2>1, <2>2 DEF IsPass, IsDoit
    <3>2. CallMarks(stack[2], B, P)
      BY <1>6, <3>1 DEF AllCalls
    <3>3. CallMarks(f, B, P)
      BY <1>7, <2>2, <2>3, <3>2 DEF CallMarks
    <3> QED BY <2>4, <3>3 DEF NewCalls
  <2>7. stack' # <<>> /\ 1 \in 1..Len(stack')
    BY <1>3, <2>1, <2>4 DEF Onto
  <2>8. LaterMarks(B, stack')
    BY <1>6, <2>3, <2>4, <2>7 DEF LaterMarks
  <2>9. ~clash' => NoneLost(B, stack', done')
    <3>1. OnStack(stack', c)
      BY <2>3, <2>4, <2>7 DEF OnStack
    <3>2. \A j \in 1..2 : j = 1 \/ j = 2
      OBVIOUS
    <3>3. Settles(stack', stack, 2, done')
      BY <1>4, <2>2, <3>1, <3>2 DEF Settles
    <3> QED BY <1>1, <1>3, <1>6, <1>8, <2>4, <3>3, NoneLostStays
  <2>10. Undisturbed(stack, 2, B \ B, P \ P)
    BY NothingNew
  <2> QED BY <1>1, <1>2, <1>5, <1>6, <2>4, <2>5, <2>6, <2>8, <2>9, <2>10, Proceeds, SMTT(30)
<1> QED BY <1>9, <1>10

-------------------------------------------------------------------------------
(* A connection passed on counts at the inlet it leads to.                 *)
LEMMA GotMore ==
  ASSUME PatchInv, NEW P \in SUBSET wires, NEW c \in wires, c \notin P
  PROVE  Got(P \cup {c}) = [Got(P) EXCEPT ![c.to][c.in] = @ + 1]
<1> DEFINE g == Got(P)
           h == [g EXCEPT ![c.to][c.in] = @ + 1]
<1>1. c.to \in Boxes /\ c.in \in Inlets(c.to)
  BY WiresFacts
<1>2. ASSUME NEW x \in Boxes, NEW i \in Inlets(x), x = c.to /\ i = c.in
      PROVE  Cardinality((P \cup {c}) \cap In(x, i)) = Cardinality(P \cap In(x, i)) + 1
  <2>1. (P \cup {c}) \cap In(x, i) = (P \cap In(x, i)) \cup {c} /\ c \notin P \cap In(x, i)
    BY <1>2 DEF In
  <2>2. IsFiniteSet(P \cap In(x, i))
    BY WiresFacts, FS_Subset DEF In
  <2> QED BY <2>1, <2>2, FS_AddElement
<1>3. ASSUME NEW x \in Boxes, NEW i \in Inlets(x), ~(x = c.to /\ i = c.in)
      PROVE  (P \cup {c}) \cap In(x, i) = P \cap In(x, i)
  BY <1>3 DEF In
<1>4. ASSUME NEW x \in Boxes
      PROVE  h[x] = [i \in Inlets(x) |-> Cardinality((P \cup {c}) \cap In(x, i))]
  <2>1. g[x] = [i \in Inlets(x) |-> Cardinality(P \cap In(x, i))]
    BY DEF Got
  <2>2. CASE x # c.to
    <3>1. h[x] = g[x]
      BY <1>1, <2>2 DEF Got
    <3> QED BY <1>3, <2>1, <2>2, <3>1
  <2>3. CASE x = c.to
    <3>1. h[x] = [g[x] EXCEPT ![c.in] = @ + 1]
      BY <1>1, <2>3 DEF Got
    <3> HIDE DEF g, h
    <3>2. h[x] = [i \in Inlets(x) |-> IF i = c.in THEN g[x][i] + 1 ELSE g[x][i]]
      BY <2>1, <3>1
    <3>3. \A i \in Inlets(x) :
            (IF i = c.in THEN g[x][i] + 1 ELSE g[x][i])
              = Cardinality((P \cup {c}) \cap In(x, i))
      BY <1>2, <1>3, <2>1, <2>3
    <3> QED BY <3>2, <3>3
  <2> QED BY <2>2, <2>3
<1>5. h = [x \in Boxes |-> h[x]]
  BY DEF Got
<1> HIDE DEF h
<1>6. h = Got(P \cup {c})
  BY <1>4, <1>5 DEF Got
<1> QED BY <1>6 DEF h

Arrived(c) ==
  /\ clash' = clash /\ ngot' = [ngot EXCEPT ![c.to][c.in] = @ + 1]
  /\ LET rest == <<[Head(stack) EXCEPT !.left = @ \ {c}]>> \o Tail(stack)
     IN stack' = IF LastFilled(c.to, ngot') THEN <<Doit(c.to)>> \o rest ELSE rest

LEMMA PassOnCases ==
  ASSUME PassOn
  PROVE  /\ stack # <<>> /\ IsPass(Head(stack)) /\ wires' = wires /\ done' = done
         /\ \E c \in Head(stack).left :
              \/ Arrived(c)
              \/ stack' = Tail(stack) /\ clash' = TRUE /\ ngot' = ngot
<1>1. stack # <<>> /\ IsPass(Head(stack)) /\ wires' = wires
  BY DEF PassOn, IsPass, patch
<1>2. PICK c \in FirstOutlet(Head(stack).left) :
        LET s1 == outsig[c.from][c.out]
            s2 == insig[c.to][c.in]
            p  == Counted(Counted(pool, s1, -1), s2, -1)
        IN CASE s2 = Null -> Arrive(c, pool, s1)
             [] s2 # Null /\ Compatible(pool, s1, s2) -> AddTo(c, p, s1, s2)
             [] OTHER -> GiveUp(p)
  BY DEF PassOn
<1>3. \/ \E p, s : Arrive(c, p, s)
      \/ \E p : GiveUp(p)
  BY <1>2, Zenon DEF AddTo
<1>4. c \in Head(stack).left
  BY DEF FirstOutlet
<1>5. CASE \E p, s : Arrive(c, p, s)
  <2>1. Arrived(c) /\ done' = done
    BY <1>5 DEF Arrived, Arrive
  <2> QED BY <1>1, <1>4, <2>1
<1>6. CASE \E p : GiveUp(p)
  <2>1. stack' = Tail(stack) /\ clash' = TRUE /\ ngot' = ngot /\ done' = done
    BY <1>6 DEF GiveUp
  <2> QED BY <1>1, <1>4, <2>1
<1> QED BY <1>3, <1>5, <1>6

(* What an arrival changes in the marks: the connection, and its target    *)
(* if that was the last one.                                               *)
LEMMA MarksOn ==
  ASSUME PatchInv, NEW B \in SUBSET Boxes, NEW P \in SUBSET wires, GoodMarks(B, P),
         NEW c \in wires, c \notin P, c.from \in B
  PROVE  LET x == c.to  P2 == P \cup {c}
         IN /\ x \in Boxes /\ x \notin B /\ ~IsRoot(x)
            /\ Leaves(x) \cap P2 = {}
            /\ ~(Feeds(x) \subseteq P2) => GoodMarks(B, P2)
            /\ Feeds(x) \subseteq P2 /\ x \in Reached => GoodMarks(B \cup {x}, P2)
<1> DEFINE x == c.to
           P2 == P \cup {c}
<1>1. x \in Boxes /\ c \in Feeds(x) /\ ~IsRoot(x)
  BY WiresFacts DEF Feeds, IsRoot
<1>2. x \notin B
  BY <1>1 DEF GoodMarks
<1>3. \A y \in Boxes : y # x => (Feeds(y) \subseteq P2 <=> Feeds(y) \subseteq P)
  BY DEF Feeds
<1>4. Leaves(x) \cap P2 = {}
  BY <1>2 DEF GoodMarks, Leaves
<1>5. ~(Feeds(x) \subseteq P2) => GoodMarks(B, P2)
  BY <1>1, <1>2, <1>3 DEF GoodMarks
<1>6. Feeds(x) \subseteq P2 /\ x \in Reached => GoodMarks(B \cup {x}, P2)
  BY <1>1, <1>3 DEF GoodMarks
<1> QED BY <1>1, <1>2, <1>4, <1>5, <1>6

LEMMA StepPassOn ==
  ASSUME GraphInv, PassOn
  PROVE  GraphInv'
<1>1. stack # <<>> /\ IsPass(Head(stack)) /\ wires' = wires /\ done' = done
  BY PassOnCases
<1>2. StackInv(stack) /\ PatchInv /\ done \in [Boxes -> BOOLEAN]
  BY DEF GraphInv
<1>3. stack \in Seq(Frames) /\ Head(stack) = stack[1] /\ stack[1] \in Frames
      /\ 1 \in 1..Len(stack)
  BY <1>1, <1>2, TopCall
<1>4. PICK c \in stack[1].left :
        \/ Arrived(c)
        \/ stack' = Tail(stack) /\ clash' = TRUE /\ ngot' = ngot
  BY <1>3, PassOnCases
<1> DEFINE b == stack[1].b
           x == c.to
           g == [stack[1] EXCEPT !.left = @ \ {c}]
<1>5. b \in Boxes /\ stack[1].left \in SUBSET wires /\ c \in wires
      /\ IsPass(stack[1]) /\ IsBox(stack[1]) /\ ~IsSort(stack[1])
  BY <1>1, <1>3, FrameFacts
<1>6. PICK B \in SUBSET Boxes, P \in SUBSET wires :
        Marked(B, P, stack, done, clash) /\ ngot = Got(P)
  BY DEF GraphInv
<1>7. GoodMarks(B, P) /\ AllCalls(stack, B, P) /\ DoneMarks(B, P, done)
      /\ LaterMarks(B, stack) /\ (~clash => NoneLost(B, stack, done))
  BY <1>6 DEF Marked
<1>8. CASE stack' = Tail(stack) /\ clash' = TRUE /\ ngot' = ngot
  BY <1>1, <1>2, <1>3, <1>5, <1>6, <1>7, <1>8, StepPopped
<1>9. CASE Arrived(c)
  <2>1. CallMarks(stack[1], B, P)
    BY <1>3, <1>7 DEF AllCalls
  <2>2. b \in B /\ c.from = b /\ c \notin P /\ c \in Leaves(b)
    BY <1>5, <2>1 DEF CallMarks, Leaves
  <2> DEFINE P2 == P \cup {c}
  <2>3. P2 \in SUBSET wires /\ P \subseteq P2
    BY <1>5
  <2>4. ngot' = Got(P2)
    BY <1>2, <1>5, <1>6, <1>9, <2>2, GotMore DEF Arrived
  <2>5. /\ x \in Boxes /\ x \notin B /\ ~IsRoot(x)
        /\ Leaves(x) \cap P2 = {}
        /\ ~(Feeds(x) \subseteq P2) => GoodMarks(B, P2)
        /\ Feeds(x) \subseteq P2 /\ x \in Reached => GoodMarks(B \cup {x}, P2)
    BY <1>2, <1>5, <1>7, <2>2, MarksOn
  <2>6. LastFilled(x, ngot') <=> Feeds(x) \subseteq P2
    BY <1>2, <2>3, <2>4, <2>5, LastFilledFacts
  <2>7. Win(x) = Win(b)
    BY <1>2, <1>5, <2>2, WiresFacts
  <2>8. stack[1] \in [call : {"pass"}, b : Boxes, left : SUBSET wires]
    BY <1>3, <1>5 DEF Frames, IsPass
  <2>9. g \in Frames /\ IsPass(g) /\ IsBox(g) /\ ~IsSort(g) /\ ~IsDoit(g)
        /\ g.b = b /\ g.left = stack[1].left \ {c}
    BY <2>8 DEF Frames, IsPass, IsBox, IsSort, IsDoit
  <2>10. stack' = IF LastFilled(x, ngot') THEN <<Doit(x)>> \o (<<g>> \o Tail(stack))
                  ELSE <<g>> \o Tail(stack)
    BY <1>3, <1>9 DEF Arrived
  <2> HIDE DEF g
  <2>11. ASSUME NEW B2, B \subseteq B2
         PROVE  CallMarks(g, B2, P2)
    BY <1>5, <2>1, <2>2, <2>9, <2>11 DEF CallMarks
  <2>12. ASSUME NEW j \in 2..Len(stack), IsBox(stack[j])
         PROVE  Leaves(stack[j].b) \cap {c} = {}
    <3>1. j \in 1..Len(stack) /\ j # 1
      BY <1>3
    <3>2. stack[j].b # b
      BY <1>2, <1>3, <1>5, <2>12, <3>1 DEF StackInv
    <3> QED BY <2>2, <3>2 DEF Leaves
  <2>13. ASSUME NEW B2, B \subseteq B2, B2 \ B \subseteq {x}
         PROVE  Undisturbed(stack, 1, B2 \ B, P2 \ P)
    <3>1. ASSUME NEW j \in 2..Len(stack), IsSort(stack[j])
          PROVE  x \notin Roots(stack[j].w)
      BY <1>2, <2>5, RootsFacts
    <3>2. ASSUME NEW j \in 2..Len(stack)
          PROVE  Apart(stack[j], B2 \ B, P2 \ P)
      BY <2>12, <2>13, <3>1 DEF Apart
    <3>3. 1 + 1 = 2
      OBVIOUS
    <3> QED BY <3>2, <3>3 DEF Undisturbed
  <2>14. ASSUME NEW B2, B \subseteq B2
         PROVE  DoneMarks(B2, P2, done')
    BY <1>1, <1>7, <2>3, <2>14 DEF DoneMarks
  <2>15. GoesOn(B, done, done')
    BY <1>1 DEF GoesOn
  <2>16. CASE ~LastFilled(x, ngot')
    <3>1. Onto(stack', stack, 1, 1) /\ stack'[1] = g
      BY <1>1, <1>3, <2>9, <2>10, <2>16, OntoOne
    <3>2. Joined(stack', 1) /\ Grounded(stack', 1)
      BY <1>1, <1>2, <1>5, <2>9, <3>1, JoinedFirst
    <3>3. Alone(stack', 1)
      BY <1>1, <1>2, <1>5, <2>9, <3>1, AloneFirst
    <3>4. stack' # <<>> /\ 1 \in 1..Len(stack')
      BY <1>3, <3>1 DEF Onto
    <3>5. GoodMarks(B, P2)
      BY <2>5, <2>6, <2>16
    <3>6. NewCalls(stack', 1, B, P2)
      <4>1. CallMarks(g, B, P2)
        BY <2>11
      <4> QED BY <3>1, <4>1 DEF NewCalls
    <3>7. LaterMarks(B, stack')
      BY <1>7, <2>9, <3>1, <3>4 DEF LaterMarks
    <3>8. ~clash' => NoneLost(B, stack', done')
      <4>1. Settles(stack', stack, 1, done')
        BY <2>9, <3>1, <3>4 DEF Settles, OnStack
      <4>2. clash' = clash
        BY <1>9 DEF Arrived
      <4> QED BY <1>1, <1>3, <1>7, <2>15, <3>1, <4>1, <4>2, NoneLostStays
    <3>9. Undisturbed(stack, 1, B \ B, P2 \ P) /\ DoneMarks(B, P2, done')
      BY <2>13, <2>14
    <3> HIDE DEF P2
    <3> QED BY <1>1, <1>2, <1>6, <1>7, <2>3, <2>4, <3>1, <3>2, <3>3, <3>5, <3>6, <3>7,
               <3>8, <3>9, Proceeds, SMTT(30)
  <2>17. CASE LastFilled(x, ngot')
    <3> DEFINE h == Doit(x)
               B2 == B \cup {x}
    <3>1. h \in Frames /\ IsDoit(h) /\ IsBox(h) /\ ~IsSort(h) /\ ~IsPass(h) /\ h.b = x
      BY <2>5 DEF Doit, Frames, IsPass, IsBox, IsSort, IsDoit
    <3>2. stack' = <<h>> \o (<<g>> \o Tail(stack))
      BY <2>10, <2>17
    <3> HIDE DEF h
    <3>3. Onto(stack', stack, 2, 1) /\ stack'[1] = h /\ stack'[2] = g
      <4>1. stack \in Seq(Frames) /\ stack # <<>> /\ h \in Frames /\ g \in Frames
        BY <1>1, <1>3, <2>9, <3>1
      <4>2. /\ <<h>> \o (<<g>> \o Tail(stack)) = <<h, g>> \o Tail(stack)
            /\ Onto(<<h, g>> \o Tail(stack), stack, 2, 1)
            /\ (<<h, g>> \o Tail(stack))[1] = h /\ (<<h, g>> \o Tail(stack))[2] = g
        BY <4>1, OntoTwo, ZenonT(30)
      <4> QED BY <3>2, <4>2, Zenon
    <3>4. Joined(stack', 2) /\ Grounded(stack', 2) /\ Alone(stack', 2)
      <4>1. Fits(h, g)
        BY <2>7, <2>9, <3>1 DEF Fits
      <4>2. ~OnStack(stack, x)
        BY <1>7, <2>5, NotOnStack
      <4> QED BY <1>1, <1>2, <1>5, <2>9, <3>1, <3>3, <4>1, <4>2, TwoFirst
    <3>5. stack' # <<>> /\ 1 \in 1..Len(stack')
      BY <1>3, <3>3 DEF Onto
    <3>6. Win(x) # Top => Holder(Win(x)) \in B
      <4>1. ASSUME Win(x) # Top
            PROVE  Holder(Win(x)) \in B
        <5>1. Win(x) \in Windows \ {Top}
          BY <2>5, <4>1, GraphAssumption DEF Win
        <5> QED BY <1>5, <1>7, <2>2, <2>7, <5>1, HolderFacts, HolderBegun
      <4> QED BY <4>1
    <3>7. GoodMarks(B2, P2)
      <4>1. \A d \in Feeds(x) : d.from \in Reached
        BY <1>7, <2>2, <2>6, <2>17 DEF GoodMarks
      <4>2. Win(x) = Top \/ Holder(Win(x)) \in Reached
        BY <1>7, <3>6 DEF GoodMarks
      <4>3. x \in Reached
        BY <1>2, <2>5, <4>1, <4>2, ReachedGrows
      <4> QED BY <2>5, <2>6, <2>17, <4>3
    <3>8. NewCalls(stack', 2, B2, P2)
      <4>1. CallMarks(h, B2, P2)
        BY <2>5, <3>1 DEF CallMarks
      <4>2. CallMarks(g, B2, P2)
        BY <2>11
      <4>3. \A k \in 1..2 : k = 1 \/ k = 2
        OBVIOUS
      <4> QED BY <3>3, <4>1, <4>2, <4>3 DEF NewCalls
    <3>9. LaterMarks(B2, stack')
      BY <1>7, <2>5, <3>1, <3>3, <3>5, <3>6, LaterWith
    <3>10. ~clash' => NoneLost(B2, stack', done')
      <4>1. 2 \in 1..Len(stack')
        BY <1>3, <3>3 DEF Onto
      <4>2. OnStack(stack', b) /\ OnStack(stack', x)
        BY <2>9, <3>1, <3>3, <3>5, <4>1 DEF OnStack
      <4>3. Settles(stack', stack, 1, done')
        BY <4>2 DEF Settles
      <4>4. clash' = clash
        BY <1>9 DEF Arrived
      <4>5. ~clash' => NoneLost(B, stack', done')
        BY <1>1, <1>3, <1>7, <2>15, <3>3, <4>3, <4>4, NoneLostStays
      <4> QED BY <4>2, <4>5 DEF NoneLost
    <3>11. Undisturbed(stack, 1, B2 \ B, P2 \ P) /\ DoneMarks(B2, P2, done')
      BY <2>13, <2>14
    <3>12. B2 \in SUBSET Boxes /\ B \subseteq B2
      BY <2>5
    <3> HIDE DEF P2, B2
    <3> QED BY <1>1, <1>2, <1>6, <1>7, <2>3, <2>4, <3>3, <3>4, <3>7, <3>8, <3>9, <3>10,
               <3>11, <3>12, Proceeds, SMTT(30)
  <2> QED BY <2>16, <2>17
<1> QED BY <1>4, <1>8, <1>9

-------------------------------------------------------------------------------
(* When the sort is over, its marks say what it has done.                  *)
LEMMA ReachedIsDone ==
  ASSUME PatchInv, NEW B \in SUBSET Boxes, NEW P \in SUBSET wires,
         Marked(B, P, <<>>, done, FALSE)
  PROVE  Reached \subseteq B
<1> DEFINE Open(w) == w = Top \/ Holder(w) \in B
<1>0. B = {b \in Boxes : done[b]}
  BY DEF Marked, DoneMarks, NoneLost, OnStack
<1>1. ASSUME NEW w \in Windows, Open(w)
      PROVE  SettledIn(w) \subseteq B
  <2>1. Roots(w) \subseteq B
    <3>1. CASE w = Top
      BY <3>1 DEF Marked, LaterMarks
    <3>2. CASE w # Top
      <4>1. Holder(w) \in B /\ IsCanvas(Holder(w)) /\ Sub(Holder(w)) = w
        BY <1>1, <3>2, HolderFacts
      <4> QED BY <1>0, <4>1 DEF Marked, DoneMarks
    <3> QED BY <3>1, <3>2
  <2>2. ASSUME NEW b \in FedBy(w, B \cap InWindow(w))
        PROVE  b \in B
    <3>1. b \in InWindow(w) /\ \A c \in Feeds(b) : c.from \in B
      BY <2>2 DEF FedBy, Feeds
    <3>2. CASE IsRoot(b)
      BY <2>1, <3>1, <3>2, RootsFacts
    <3>3. CASE ~IsRoot(b)
      <4>1. \A c \in Feeds(b) : c \in Leaves(c.from) /\ done[c.from]
        BY <1>0, <3>1 DEF Feeds, Leaves
      <4>2. Feeds(b) \subseteq P
        BY <1>0, <3>1, <4>1 DEF Marked, DoneMarks, Feeds
      <4> QED BY <3>1, <3>3, <4>2 DEF Marked, GoodMarks, InWindow
    <3> QED BY <3>2, <3>3
  <2>3. FedBy(w, B \cap InWindow(w)) \subseteq B \cap InWindow(w)
    BY <2>2 DEF FedBy
  <2> QED BY <2>3, SettledLeast
<1>2. ReachedWindows(Settled) \subseteq {w \in Windows : Open(w)}
  <2> DEFINE V == {w \in Windows : Open(w)}
  <2>1. ASSUME NEW w \in InsideOf(V, Settled)
        PROVE  w \in V
    <3>1. w \in Windows
      BY DEF InsideOf
    <3>2. CASE w = Top
      BY <3>1, <3>2
    <3>3. CASE w # Top
      <4>1. Holder(w) \in Boxes /\ Holder(w) \in Settled /\ Parent(w) \in V
        BY <3>1, <3>3, HolderFacts DEF InsideOf
      <4>2. Holder(w) \in SettledIn(Parent(w))
        BY <4>1, SettledBoxes DEF Parent
      <4> QED BY <1>1, <3>1, <4>1, <4>2
    <3> QED BY <3>2, <3>3
  <2>2. InsideOf(V, Settled) \subseteq V
    BY <2>1
  <2> HIDE DEF V
  <2>3. V \in SUBSET Windows
    BY DEF V
  <2>4. ReachedWindows(Settled) \subseteq V
    BY <2>2, <2>3, WindowsLeast
  <2> QED BY <2>4 DEF V
<1>3. ASSUME NEW b \in Reached
      PROVE  b \in B
  <2>1. b \in Boxes
    BY DEF Reached, Settled, SettledIn, InWindow
  <2>2. b \in SettledIn(Win(b)) /\ Win(b) \in ReachedWindows(Settled)
    BY <2>1, ReachedFacts
  <2> QED BY <1>1, <1>2, <2>2
<1> QED BY <1>3

LEMMA MarksSuffice == GraphInv => OnlyLoopsLeft
<1> SUFFICES ASSUME GraphInv, Finished
             PROVE  \A b \in Boxes : /\ done[b] => b \in Reached
                                     /\ ~clash /\ b \in Reached => done[b]
  BY DEF OnlyLoopsLeft
<1>1. PICK B \in SUBSET Boxes, P \in SUBSET wires : Marked(B, P, <<>>, done, clash)
  BY DEF GraphInv, Finished
<1>2. \A b \in Boxes : done[b] => b \in Reached
  BY <1>1 DEF Marked, DoneMarks, GoodMarks
<1>3. CASE ~clash
  <2>1. clash = FALSE \/ Marked(B, P, <<>>, done, FALSE)
    BY <1>1, <1>3 DEF Marked
  <2>2. Reached \subseteq B
    BY <1>1, <1>3, <2>1, ReachedIsDone DEF GraphInv
  <2>3. \A b \in B : done[b]
    BY <1>1, <1>3 DEF Marked, NoneLost, OnStack
  <2> QED BY <1>2, <2>2, <2>3
<1> QED BY <1>2, <1>3

-------------------------------------------------------------------------------
LEMMA GraphInitInv == GraphInit => GraphInv
<1> SUFFICES ASSUME GraphInit
             PROVE  GraphInv
  OBVIOUS
<1>1. PatchInv /\ done \in [Boxes -> BOOLEAN] /\ ~clash
      /\ \A b \in Boxes : ~done[b]
  BY DEF GraphInit, PatchInv
<1> DEFINE f == Sort(Top)
<1>2. f \in Frames /\ IsSort(f) /\ ~IsBox(f) /\ ~IsPass(f) /\ ~IsDoit(f)
      /\ f.w = Top /\ f.left = Roots(Top)
  BY GraphAssumption, RootsInside DEF Sort, Frames, IsPass, IsBox, IsSort, IsDoit
<1> HIDE DEF f
<1>3. stack = <<f>>
  BY DEF GraphInit, f
<1>4. stack \in Seq(Frames) /\ Len(stack) = 1 /\ stack[1] = f /\ stack # <<>>
  BY <1>2, <1>3
<1>5. StackInv(stack)
  <2>1. \A k \in 1..Len(stack) : k = 1
    BY <1>4
  <2> QED BY <1>2, <1>4, <2>1 DEF StackInv
<1>6. GoodMarks({}, {})
  BY DEF GoodMarks, IsRoot
<1>7. CallMarks(f, {}, {})
  BY <1>2 DEF CallMarks
<1>8. AllCalls(stack, {}, {})
  BY <1>4, <1>7 DEF AllCalls
<1>9. DoneMarks({}, {}, done)
  BY <1>1 DEF DoneMarks
<1>10. LaterMarks({}, stack)
  BY <1>2, <1>4 DEF LaterMarks, Untouched
<1>11. Marked({}, {}, stack, done, clash)
  BY <1>6, <1>8, <1>9, <1>10 DEF Marked, NoneLost
<1>12. ngot = Got({})
  <2>1. \A b \in Boxes : \A i \in Inlets(b) : Cardinality({} \cap In(b, i)) = 0
    <3>1. Cardinality({}) = 0
      BY FS_EmptySet
    <3>2. \A S : {} \cap S = {}
      OBVIOUS
    <3> QED BY <3>1, <3>2
  <2>2. ngot = [b \in Boxes |-> [i \in Inlets(b) |-> 0]]
    BY DEF GraphInit
  <2> QED BY <2>1, <2>2 DEF Got
<1> QED BY <1>1, <1>5, <1>11, <1>12 DEF GraphInv

LEMMA GraphStutter ==
  ASSUME GraphInv, UNCHANGED graphVars
  PROVE  GraphInv'
<1>1. wires' = wires /\ ngot' = ngot /\ done' = done /\ stack' = stack /\ clash' = clash
  BY DEF graphVars, patch, boxVars
<1>2. PICK B \in SUBSET Boxes, P \in SUBSET wires :
        Marked(B, P, stack, done, clash) /\ ngot = Got(P)
  BY DEF GraphInv
<1>3. /\ GoodMarks(B, P) /\ AllCalls(stack, B, P) /\ DoneMarks(B, P, done)
      /\ LaterMarks(B, stack) /\ (~clash => NoneLost(B, stack, done))
  BY <1>2 DEF Marked
<1>4. GoodMarks(B, P)' /\ DoneMarks(B, P, done)' /\ LaterMarks(B, stack)'
  BY <1>1, <1>3, PatchStays DEF GoodMarks, DoneMarks, LaterMarks, Untouched, InWindow,
       IsRoot
<1>5. AllCalls(stack, B, P)'
  BY <1>1, <1>3, PatchStays DEF AllCalls, CallMarks
<1>6. (~clash => NoneLost(B, stack, done))'
  BY <1>1, <1>3 DEF NoneLost, OnStack
<1>7. Marked(B, P, stack, done, clash)'
  BY <1>4, <1>5, <1>6 DEF Marked
<1>8. StackInv(stack)'
  BY <1>1, PatchStays DEF GraphInv, StackInv
<1>9. (ngot = Got(P))' /\ P \in SUBSET wires'
  BY <1>1, <1>2, PatchStays
<1>10. PatchInv' /\ (done \in [Boxes -> BOOLEAN])'
  BY <1>1, PatchStays DEF GraphInv
<1> QED BY <1>7, <1>8, <1>9, <1>10 DEF GraphInv

LEMMA GraphInvariance == GraphSpec => []GraphInv
<1>1. ASSUME GraphInv, [GraphNext]_graphVars
      PROVE  GraphInv'
  <2>1. CASE DoitBox
    BY <1>1, <2>1, StepDoitBox
  <2>2. CASE EnterCanvas
    BY <1>1, <2>2, StepEnterCanvas
  <2>3. CASE StartAtRoot
    BY <1>1, <2>3, StepStartAtRoot
  <2>4. CASE EndSort
    BY <1>1, <2>4, StepEndSort
  <2>5. CASE PassOn
    BY <1>1, <2>5, StepPassOn
  <2>6. CASE EndDoit
    BY <1>1, <2>6, StepEndDoit
  <2>7. CASE UNCHANGED graphVars
    BY <1>1, <2>7, GraphStutter
  <2> QED BY <1>1, <2>1, <2>2, <2>3, <2>4, <2>5, <2>6, <2>7 DEF GraphNext
<1> QED BY GraphInitInv, <1>1, PTL DEF GraphSpec

(* The "DSP loop detected" of ugen_done_graph is right, for every patch,   *)
(* nesting of subpatches and order of the boxes and connections: when the  *)
(* sort is over, a box was done if and only if no loop leads to it or to a *)
(* subpatch around it (only if, where inputs were incompatible).           *)
THEOREM LoopsLeft == GraphSpec => []OnlyLoopsLeft
<1>1. GraphInv => OnlyLoopsLeft
  BY MarksSuffice
<1> QED BY <1>1, GraphInvariance, PTL

===============================================================================
