----------------------------- MODULE UgenMeaning ------------------------------
(***************************************************************************)
(* What the objects of a sorted DSP graph should hear, by the connections  *)
(* alone: the specification the sort of UgenGraph is held against.         *)
(***************************************************************************)
EXTENDS UgenGraph

(* The sum of signals an inlet is connected to, seen through subpatches:   *)
(* that of an inlet or outlet box is what its other end is connected to.   *)
RECURSIVE MeantIn(_, _)
RECURSIVE MeantOut(_, _)
MeantIn(b, i) ==
  FoldSet(LAMBDA c, d : d (+) MeantOut(c.from, c.out), EmptyBag, In(b, i))
MeantOut(b, o) ==
  CASE Class(b) = "ugen" -> Source(b, o)
    [] Class(b) = "inlet" -> MeantIn(Holder(Win(b)), Box[b].port)
    [] Class(b) = "canvas" ->
         LET x == CHOOSE x \in Ends(Box[b].sub, "outlet") : Box[x].port = o
         IN IF x \in SettledIn(Win(x)) /\ Runs[Box[b].sub] THEN MeantIn(x, 1) ELSE EmptyBag

(* Every object runs on the sum of exactly the signals it is connected to: *)
(* no vector is handed out again while somebody still has to read it       *)
(* (u_freelist, the reference counts and the borrowing of ugen_doit and    *)
(* g_io.c), whatever the patch and the order it was made in.  A switched   *)
(* subpatch with a loop in it is left out: its outlets are then nobody's.  *)
LoopUnderSwitch ==
  \E w \in Windows : Switched(w) /\ SettledIn(w) # InWindow(w)

InputsAreMeant ==
  Finished /\ ~LoopUnderSwitch /\ ~clash =>
    \A b \in Boxes : Class(b) # "canvas" /\ heard[b] # <<>> =>
      \A i \in Inlets(b) : heard[b][i] = MeantIn(b, i)
===============================================================================
