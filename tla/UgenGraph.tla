------------------------------ MODULE UgenGraph -------------------------------
(***************************************************************************)
(* The sort of a DSP graph (src/src/d_ugen.c, ugen_start_graph to          *)
(* ugen_done_graph): the boxes of a window are put on the DSP chain one by *)
(* one, each when its last signal inlet is filled, a subpatch by sorting   *)
(* its own window in its place, and each gets the vectors it reads and     *)
(* writes from the pool.  The signal inlets and outlets of a subpatch      *)
(* (src/src/g_io.c) hand signals on without copying when the subpatch is   *)
(* plain, copy them out when it is switched, and copy them in and out when *)
(* it has a block size of its own.                                         *)
(*                                                                         *)
(* The recursion of ugen_doit and ugen_done_graph is the variable stack.   *)
(* Boxes and connections stand in their lists in the order the patch was   *)
(* edited in, which can be any: the loops over them take any next element. *)
(* block~ is the settings of its window.  Overlap, resampling and clone    *)
(* are left out.                                                           *)
(***************************************************************************)
EXTENDS SignalPool, FiniteSets

CONSTANTS
  SysBlockSize,  \* sys_getblksize()
  Top,        \* the root window
  Windows,    \* the windows of the patch, Top among them
  Boxes,      \* the boxes with a dsp method, in all windows
  Box,        \* [Boxes -> [class, window, nin, nout, port, sub]]
  Wirings,    \* the sets of connections [from, out, to, in] to sort
  Settings    \* the block~ and switch~ settings of the windows to sort with

ASSUME GraphAssumption ==
  /\ Top \in Windows /\ \A b \in Boxes : Box[b].window \in Windows
  /\ \A w \in Windows \ {Top} :
       \E c \in Boxes : Box[c].class = "canvas" /\ Box[c].sub = w
  /\ \A b, c \in Boxes : Box[b].class = "canvas" /\ Box[c].class = "canvas" =>
       /\ Box[b].sub \in Windows \ {Top}
       /\ Box[b].sub = Box[c].sub => b = c
  /\ \A wiring \in Wirings :
       /\ IsFiniteSet(wiring)
       /\ \A c \in wiring : /\ {c.from, c.to} \subseteq Boxes
                            /\ c.in \in 1..Box[c.to].nin
                            /\ Box[c.from].window = Box[c.to].window

VARIABLES
  wires, setting,  \* the patch: connections, settings of the windows
  pool,            \* the signals
  insig, ngot,     \* i_signal and i_ngot of every inlet
  outsig,          \* o_signal of every outlet
  done,            \* u_done
  direct,          \* x_directsignal of the inlet and outlet boxes
  buf,             \* what is in x_buf of the inlet and outlet boxes
  stack,           \* the calls in progress, the innermost first
  heard,           \* history: what each object reads when it runs
  clash            \* history: incompatible inputs were met

patch == <<wires, setting>>
boxVars == <<insig, ngot, outsig, done, direct, buf>>
graphVars == <<patch, pool, boxVars, stack, heard, clash>>

Class(b) == Box[b].class
Win(b) == Box[b].window
Inlets(b) == 1..Box[b].nin
Outlets(b) == 1..Box[b].nout
Ports(n) == [i \in 1..n |-> i]
InWindow(w) == {b \in Boxes : Win(b) = w}
Holder(w) == CHOOSE c \in Boxes : Class(c) = "canvas" /\ Box[c].sub = w
In(b, i) == {c \in wires : c.to = b /\ c.in = i}
Out(b, o) == {c \in wires : c.from = b /\ c.out = o}
Roots(w) == {b \in InWindow(w) : \A i \in Inlets(b) : In(b, i) = {}}

(* What ugen_done_graph computes from the settings of a window: the size   *)
(* of its vectors, how much of one its objects calculate, and its flags.   *)
Parent(w) == Win(Holder(w))

VecSizeOf[w \in Windows] ==
  CASE setting[w].size # 0 -> VecSize(setting[w].size)
    [] setting[w].size = 0 /\ w = Top -> SysBlockSize
    [] OTHER -> VecSizeOf[Parent(w)]

CalcSizeOf[w \in Windows] ==
  CASE setting[w].size # 0 -> setting[w].size
    [] setting[w].size = 0 /\ (setting[w].block \/ w = Top) -> VecSizeOf[w]
    [] OTHER -> CalcSizeOf[Parent(w)]

Reblock(w) == w = Top \/ VecSizeOf[w] # VecSizeOf[Parent(w)]
Switched(w) == setting[w].switched

Runs[w \in Windows] ==
  /\ Switched(w) => setting[w].on
  /\ w # Top => Runs[Parent(w)]

NoNewSigs(b) ==
  Class(b) = "canvas" \/ (Class(b) = "inlet" /\ ~Reblock(Win(b)))
NoFreeSigsCanvas(b) == Class(b) = "canvas"                       \* mutant
NoFreeSigs(b) ==
  \/ Class(b) = "canvas"
  \/ Class(b) = "outlet" /\ ~(Reblock(Win(b)) \/ Switched(Win(b)))

(* What the objects of a window put in a vector, when the window runs.     *)
Put(p, w, s, d) == IF Runs[w] THEN Fill(p, s, d) ELSE p

(***************************************************************************)
(* ugen_doit up to the dsp method: unconnected inlets get a vector of      *)
(* zeros, the inputs are given back, the outputs are allocated.            *)
(***************************************************************************)
FillInlet(b, a, i) ==
  IF In(b, i) # {}
  THEN [a EXCEPT !.sigs = Append(@, insig[b][i])]
  ELSE LET new == NewReal(a.pool, CalcSizeOf[Win(b)])
           zero == Put(new.pool, Win(b), new.sig, EmptyBag)
       IN [pool |-> Counted(zero, new.sig, 1), sigs |-> Append(a.sigs, new.sig)]

Inputs(b) ==
  FoldLeft(LAMBDA a, i : FillInlet(b, a, i), [pool |-> pool, sigs |-> <<>>],
           Ports(Box[b].nin))

GiveBack(b, p, sigs) ==
  IF NoFreeSigs(b) THEN p ELSE FoldLeft(LAMBDA q, s : Release(q, s), p, sigs)

Allocate(b, a, o) ==
  LET new == IF NoNewSigs(b) THEN NewBorrowed(a.pool)
             ELSE NewReal(a.pool, CalcSizeOf[Win(b)])
  IN [pool |-> Counted(new.pool, new.sig, Cardinality(Out(b, o))),
      sigs |-> Append(a.sigs, new.sig)]

Outputs(b, p) ==
  FoldLeft(LAMBDA a, o : Allocate(b, a, o), [pool |-> p, sigs |-> <<>>],
           Ports(Box[b].nout))

(* Outputs nobody is connected to are freed when the dsp method is over.   *)
FreeUnused(p, sigs) ==
  FoldLeft(LAMBDA q, s : IF q.sigs[s].refcount = 0 THEN MakeReusable(q, s) ELSE q,
           p, sigs)

Sort(w) == [call |-> "sort", w |-> w, left |-> Roots(w)]
Doit(b) == [call |-> "doit", b |-> b]
Pass(b) == [call |-> "pass", b |-> b, left |-> {c \in wires : c.from = b}]

(***************************************************************************)
(* The dsp methods, which fill in borrowed outputs and put the object's    *)
(* perform routine on the chain: of an ordinary object, of the inlets and  *)
(* of the outlets of a window.                                             *)
(***************************************************************************)
Source(b, o) == SetToBag({<<b, o>>})

UgenDsp(b, p, outs) ==
  FoldLeft(LAMBDA q, o : Put(q, Win(b), outs[o], Source(b, o)), p, Ports(Len(outs)))

InletDsp(b, p, outs) ==
  IF direct[b] # Null THEN SetBorrowed(p, outs[1], direct[b])
  ELSE Put(p, Win(b), outs[1], buf[b])

OutletDsp(b, p, ins) ==
  CASE Switched(Win(b)) /\ ~Reblock(Win(b)) -> Put(p, Win(b), direct[b], Data(p, ins[1]))
    [] ~Switched(Win(b)) /\ ~Reblock(Win(b)) -> SetBorrowed(p, direct[b], ins[1])
    [] OTHER -> p

DspPool(b, p, ins, outs) ==
  CASE Class(b) = "ugen"   -> UgenDsp(b, p, outs)
    [] Class(b) = "inlet"  -> InletDsp(b, p, outs)
    [] Class(b) = "outlet" -> OutletDsp(b, p, ins)

Hears(b, p, ins) == [i \in 1..Len(ins) |-> Data(p, ins[i])]

(***************************************************************************)
(* ugen_doit for anything but a subpatch.                                  *)
(***************************************************************************)
DoitBox ==
  /\ stack # <<>> /\ Head(stack).call = "doit" /\ Class(Head(stack).b) # "canvas"
  /\ LET b    == Head(stack).b
         ins  == Inputs(b)
         outs == Outputs(b, GiveBack(b, ins.pool, ins.sigs))
         dsp  == DspPool(b, outs.pool, ins.sigs, outs.sigs)
     IN /\ pool' = FreeUnused(dsp, outs.sigs)
        /\ outsig' = [outsig EXCEPT ![b] = outs.sigs]
        /\ heard' = IF Runs[Win(b)]
                    THEN [heard EXCEPT ![b] = Hears(b, outs.pool, ins.sigs)]
                    ELSE heard
        /\ buf' = IF Class(b) = "outlet" /\ Reblock(Win(b)) /\ Runs[Win(b)]
                  THEN [buf EXCEPT ![b] = Data(outs.pool, ins.sigs[1])] ELSE buf
        /\ stack' = <<Pass(b)>> \o Tail(stack)
  /\ UNCHANGED <<patch, insig, ngot, done, direct, clash>>

(***************************************************************************)
(* ugen_doit for a subpatch, up to the sort of its own window: the outputs *)
(* that will be copied to get their vectors, and the prologs of the inlets *)
(* and outlets of the window are done.                                     *)
(***************************************************************************)
LendOut(w, p, s) ==
  IF Unfilled(p, s)
  THEN LET new == NewReal(p, VecSizeOf[Parent(w)])
       IN Counted(SetBorrowed(new.pool, s, new.sig), s, 1)
  ELSE p

CopiesOut(w) == Reblock(w) \/ Switched(w)

Ends(w, class) == {b \in InWindow(w) : Class(b) = class}

EnterCanvas ==
  /\ stack # <<>> /\ Head(stack).call = "doit" /\ Class(Head(stack).b) = "canvas"
  /\ LET b     == Head(stack).b
         w     == Box[b].sub
         ins   == Inputs(b)
         outs  == Outputs(b, GiveBack(b, ins.pool, ins.sigs))
         lent  == IF CopiesOut(w)
                  THEN FoldLeft(LAMBDA p, s : LendOut(w, p, s), outs.pool, outs.sigs)
                  ELSE outs.pool
         inner == Ends(w, "inlet")
         outer == Ends(w, "outlet")
     IN /\ pool' = IF Reblock(w) THEN FreeUnused(lent, ins.sigs) ELSE lent
        /\ buf' = [x \in Boxes |->
                     IF x \in inner /\ Reblock(w)
                     THEN Data(outs.pool, ins.sigs[Box[x].port]) ELSE buf[x]]
        /\ direct' = [x \in Boxes |->
                        CASE x \in inner /\ ~Reblock(w) -> ins.sigs[Box[x].port]
                          [] x \in outer /\ ~Reblock(w) -> outs.sigs[Box[x].port]
                          [] OTHER -> direct[x]]
        /\ outsig' = [outsig EXCEPT ![b] = outs.sigs]
        /\ stack' = <<Sort(w)>> \o stack
  /\ UNCHANGED <<patch, insig, ngot, done, heard, clash>>

(***************************************************************************)
(* The loop of ugen_done_graph that starts the sort at each box without    *)
(* connected inlets.                                                       *)
(***************************************************************************)
StartAtRoot ==
  /\ stack # <<>> /\ Head(stack).call = "sort"
  /\ \E b \in Head(stack).left :
       stack' = <<Doit(b), [Head(stack) EXCEPT !.left = @ \ {b}]>> \o Tail(stack)
  /\ UNCHANGED <<patch, pool, boxVars, heard, clash>>

(***************************************************************************)
(* The end of ugen_done_graph: outputs that a loop left unfilled get a     *)
(* vector of zeros, the epilogs of the outlets are added, and ugen_doit    *)
(* of the subpatch goes on.                                                *)
(***************************************************************************)
BelatedFillNone(w, p, s) == p                                    \* mutant
BelatedFill(w, p, s) ==
  IF Unfilled(p, s)
  THEN LET new == NewReal(p, VecSizeOf[Parent(w)])
           lent == Counted(SetBorrowed(new.pool, s, new.sig), s, 1)
       IN Put(lent, w, new.sig, EmptyBag)
  ELSE p

Epilog(w, p, outs, x) ==
  CASE Reblock(w) -> Put(p, Parent(w), outs[Box[x].port], buf[x])
    [] Switched(w) /\ ~Reblock(w) /\ ~setting[w].on ->
         Put(p, Parent(w), outs[Box[x].port], EmptyBag)
    [] OTHER -> p

EndSort ==
  /\ stack # <<>> /\ Head(stack).call = "sort" /\ Head(stack).left = {}
  /\ LET w == Head(stack).w
     IN IF w = Top
        THEN stack' = <<>> /\ UNCHANGED pool
        ELSE LET c      == Holder(w)
                 outs   == outsig[c]
                 filled == IF \A b \in InWindow(w) : done[b] THEN pool
                           ELSE FoldLeft(LAMBDA p, s : BelatedFill(w, p, s), pool, outs)
                 ended  == FoldSet(LAMBDA x, p : Epilog(w, p, outs, x), filled,
                                   Ends(w, "outlet"))
             IN /\ pool' = FreeUnused(ended, outs)
                /\ stack' = <<Pass(c)>> \o Tail(Tail(stack))
  /\ UNCHANGED <<patch, boxVars, heard, clash>>

(***************************************************************************)
(* The loops of ugen_doit over outlets and connections: fill or sum into   *)
(* the inlet at the other end, and do the box there when that was its last *)
(* one.  Inputs of different sizes make ugen_doit return on the spot.      *)
(***************************************************************************)
FirstOutlet(left) == {c \in left : \A d \in left : c.out <= d.out}

OverFilled(b, got) ==                                            \* mutant
  \A i \in Inlets(b) : got[b][i] > Cardinality(In(b, i))
LastFilled(b, got) == \A i \in Inlets(b) : got[b][i] >= Cardinality(In(b, i))

Summed(p, s1, s2) ==
  LET new == NewReal(p, p.sigs[s1].n)
      sum == Counted(new.pool, new.sig, 1)
  IN [pool |-> sum, sig |-> new.sig]

Arrive(c, p, s) ==
  /\ pool' = p
  /\ insig' = [insig EXCEPT ![c.to][c.in] = s]
  /\ ngot' = [ngot EXCEPT ![c.to][c.in] = @ + 1]
  /\ stack' = LET rest == <<[Head(stack) EXCEPT !.left = @ \ {c}]>> \o Tail(stack)
              IN IF LastFilled(c.to, ngot') THEN <<Doit(c.to)>> \o rest ELSE rest
  /\ UNCHANGED <<done, clash>>

AddTo(c, p, s1, s2) ==
  LET sum   == Summed(p, s1, s2)
      heardAt == Put(sum.pool, Win(c.to), sum.sig, Data(p, s1) (+) Data(p, s2))
  IN Arrive(c, FreeUnused(heardAt, <<s1, s2>>), sum.sig)

GiveUp(p) ==
  /\ pool' = p
  /\ stack' = Tail(stack)
  /\ clash' = TRUE
  /\ UNCHANGED <<insig, ngot, done>>

PassOn ==
  /\ stack # <<>> /\ Head(stack).call = "pass"
  /\ \E c \in FirstOutlet(Head(stack).left) :
       LET s1 == outsig[c.from][c.out]
           s2 == insig[c.to][c.in]
           p  == Counted(Counted(pool, s1, -1), s2, -1)
       IN CASE s2 = Null -> Arrive(c, pool, s1)
            [] s2 # Null /\ Compatible(pool, s1, s2) -> AddTo(c, p, s1, s2)
            [] OTHER -> GiveUp(p)
  /\ UNCHANGED <<patch, outsig, direct, buf, heard>>

EndDoit ==
  /\ stack # <<>> /\ Head(stack).call = "pass" /\ Head(stack).left = {}
  /\ done' = [done EXCEPT ![Head(stack).b] = TRUE]
  /\ stack' = Tail(stack)
  /\ UNCHANGED <<patch, pool, insig, ngot, outsig, direct, buf, heard, clash>>

GraphInit ==
  /\ wires \in Wirings
  /\ setting \in Settings
  /\ pool = EmptyPool
  /\ insig = [b \in Boxes |-> [i \in Inlets(b) |-> Null]]
  /\ ngot = [b \in Boxes |-> [i \in Inlets(b) |-> 0]]
  /\ outsig = [b \in Boxes |-> <<>>]
  /\ done = [b \in Boxes |-> FALSE]
  /\ direct = [b \in Boxes |-> Null]
  /\ buf = [b \in Boxes |-> EmptyBag]
  /\ stack = <<Sort(Top)>>
  /\ heard = [b \in Boxes |-> <<>>]
  /\ clash = FALSE

GraphNext == DoitBox \/ EnterCanvas \/ StartAtRoot \/ EndSort \/ PassOn \/ EndDoit

GraphSpec == GraphInit /\ [][GraphNext]_graphVars

(***************************************************************************)
(* What the sort is meant to achieve.  A box is settled when no loop leads *)
(* to it inside its window: the smallest set of boxes of the window with   *)
(* every one all of whose sources are in it.  It is reached when every     *)
(* subpatch around it is settled too.                                      *)
(***************************************************************************)
FedBy(w, S) == {b \in InWindow(w) : \A c \in wires : c.to = b => c.from \in S}
SettledIn(w) ==
  LET closed == {S \in SUBSET InWindow(w) : FedBy(w, S) \subseteq S}
  IN {b \in InWindow(w) : \A S \in closed : b \in S}
Settled == UNION {SettledIn(w) : w \in Windows}

InsideOf(V, B) ==
  {w \in Windows : w = Top \/ (Holder(w) \in B /\ Parent(w) \in V)}
ReachedWindows(B) ==
  LET closed == {V \in SUBSET Windows : InsideOf(V, B) \subseteq V}
  IN {w \in Windows : \A V \in closed : w \in V}
Reached ==
  LET settled == Settled  windows == ReachedWindows(settled)
  IN {b \in settled : Win(b) \in windows}

Finished == stack = <<>>

(* The vectors hold signals of the pool, every inlet that has got as many  *)
(* signals as it has connections belongs to a box that is being or has     *)
(* been done, and free vectors are free once.                              *)
GraphTypeOK ==
  /\ \A b \in Boxes : \A i \in Inlets(b) :
       /\ insig[b][i] \in 0..Len(pool.sigs)
       /\ ngot[b][i] \in 0..Cardinality(In(b, i))
  /\ \A l \in 0..MaxLog : IsInjective(pool.free[l])
  /\ IsInjective(pool.freeborrowed)
  /\ ~clash => \A s \in 1..Len(pool.sigs) : pool.sigs[s].refcount >= 0

(* The "DSP loop detected" of ugen_done_graph is right: when the sort is   *)
(* over, exactly the boxes in a loop or behind one were not done; where    *)
(* inputs were incompatible, boxes behind those are missing too.           *)
OnlyLoopsLeft ==
  Finished => LET reached == Reached
              IN \A b \in Boxes : /\ done[b] => b \in reached
                                  /\ ~clash /\ b \in reached => done[b]

(* A subpatch hands nothing on without a vector: when its dsp method is    *)
(* over, each of its outputs has been filled in, whichever boxes in it a   *)
(* loop or incompatible inputs have kept from being done.                  *)
OutputsFilled ==
  stack # <<>> /\ Head(stack).call = "pass" /\ Class(Head(stack).b) = "canvas"
    => \A c \in Head(stack).left : ~Unfilled(pool, outsig[c.from][c.out])

(* Plain subpatches borrow and give back: when a patch without loops, and  *)
(* without subpatches that copy, is sorted, every signal is free again, at *)
(* the end of every chain of borrowings too.                               *)
FreeSignals(p) ==
  ToSet(p.freeborrowed) \cup UNION {ToSet(p.free[l]) : l \in 0..MaxLog}

AllComesBack ==
  Finished /\ ~clash /\ (\A w \in Windows \ {Top} : ~CopiesOut(w)) /\ Boxes = Settled
    => FreeSignals(pool) = 1..Len(pool.sigs)

(* No signal is freed twice and none is borrowed from nobody: the bug()    *)
(* messages of signal_makereusable are never met.                        *)
NeverFreedTwice == ~pool.bug

(* s_vecsize is the "allocated size of array in points" (m_pd.h:607).      *)
(* Not so for odd sizes: README, 5.2.                                      *)
VecSizeIsAllocated ==
  \A s \in 1..Len(pool.sigs) :
    ~pool.sigs[s].isborrowed => pool.sigs[s].vecsize <= pool.sigs[s].allocated
=============================================================================
