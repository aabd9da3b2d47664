------------------------------ MODULE SignalPool ------------------------------
(***************************************************************************)
(* The pool of audio signals a DSP graph is sorted with (src/src/d_ugen.c):*)
(* vectors that objects write and read, counted by the inlets that still   *)
(* have to read them and handed out again when the count comes to zero.    *)
(* A "borrowed" signal is the outlet of a subpatch: it has no vector of    *)
(* its own and points to the signal inside (or outside) that has.          *)
(*                                                                         *)
(* data is what the vector holds when the chain has run up to the place    *)
(* the sort has reached: the bag of the signals summed in it.  The sort    *)
(* appends to the chain in the order in which the chain will run, so what  *)
(* is in a vector at a place of the chain is what is in it at that step.   *)
(***************************************************************************)
EXTENDS Integers, Sequences, SequencesExt, Bags

CONSTANT MaxLog      \* MAXLOGSIG, with which the free lists are indexed

Null == 0            \* no signal

ILog2(n) ==
  IF n = 0 THEN 0 ELSE CHOOSE k \in 0..MaxLog : 2^k <= n /\ n < 2^(k + 1)

EmptyPool ==
  [sigs |-> <<>>, free |-> [l \in 0..MaxLog |-> <<>>], freeborrowed |-> <<>>,
   bug |-> FALSE]

Data(p, s) == p.sigs[p.sigs[s].vec].data
Fill(p, s, d) == [p EXCEPT !.sigs[p.sigs[s].vec].data = d]
Counted(p, s, n) == [p EXCEPT !.sigs[s].refcount = @ + n]

(* The free list of a size, and the size it has room for.                  *)
VecSize(n) == IF 2^ILog2(n) = n THEN n ELSE 2 * 2^ILog2(n)

(* signal_new: the pool after it and the signal it returns.                *)
Reused(p, s, n, v) ==
  [p.sigs[s] EXCEPT !.n = n, !.vecsize = v, !.refcount = 0, !.borrowedfrom = Null]

NewReal(p, n) ==
  LET l == ILog2(n)  v == VecSize(n)  s == Len(p.sigs) + 1
      fresh == [n |-> n, vecsize |-> v, allocated |-> v, refcount |-> 0, vec |-> s,
                isborrowed |-> FALSE, borrowedfrom |-> Null, data |-> EmptyBag]
  IN IF p.free[l] # <<>>
     THEN LET f == Head(p.free[l])
          IN [sig  |-> f,
              pool |-> [p EXCEPT !.free[l] = Tail(@),
                                 !.sigs[f] = Reused(p, f, n, v)]]
     ELSE [sig |-> s, pool |-> [p EXCEPT !.sigs = Append(@, fresh)]]

NewBorrowed(p) ==
  LET s == Len(p.sigs) + 1
      fresh == [n |-> 0, vecsize |-> 0, allocated |-> 0, refcount |-> 0, vec |-> Null,
                isborrowed |-> TRUE, borrowedfrom |-> Null, data |-> EmptyBag]
  IN IF p.freeborrowed # <<>>
     THEN LET f == Head(p.freeborrowed)
          IN [sig  |-> f,
              pool |-> [p EXCEPT !.freeborrowed = Tail(@),
                                 !.sigs[f] = Reused(p, f, 0, 0)]]
     ELSE [sig |-> s, pool |-> [p EXCEPT !.sigs = Append(@, fresh)]]

(***************************************************************************)
(* signal_makereusable: a signal is put on the free list of its size.  One *)
(* that is borrowed gives back what it is borrowed from, which goes before *)
(* it when nobody else reads that, and so on.  To free a signal twice, or  *)
(* one borrowed from nobody, is met with bug().                            *)
(***************************************************************************)
IsFree(p, s) ==
  Contains(p.freeborrowed, s) \/ Contains(p.free[ILog2(p.sigs[s].vecsize)], s)

Lender(p, s) == p.sigs[s].borrowedfrom
GivesBack(p, s) == p.sigs[s].isborrowed /\ Lender(p, s) # Null /\ ~IsFree(p, s)

PutFree(p, s) ==
  CASE IsFree(p, s) -> [p EXCEPT !.bug = TRUE]
    [] GivesBack(p, s) ->
         [Counted(p, Lender(p, s), -1) EXCEPT !.freeborrowed = <<s>> \o @]
    [] p.sigs[s].isborrowed /\ Lender(p, s) = Null -> [p EXCEPT !.bug = TRUE]
    [] OTHER -> [p EXCEPT !.free[ILog2(p.sigs[s].vecsize)] = <<s>> \o @]

FreedWith(p, s) ==
  LET freed[t \in 1..Len(p.sigs)] ==
        IF GivesBack(p, t) /\ p.sigs[Lender(p, t)].refcount = 1
        THEN Append(freed[Lender(p, t)], t) ELSE <<t>>
  IN freed[s]

MakeReusableAlone(p, s) == PutFree(p, s)                         \* mutant
MakeReusable(p, s) == FoldLeft(PutFree, p, FreedWith(p, s))

Release(p, s) ==
  LET q == Counted(p, s, -1)
  IN IF q.sigs[s].refcount = 0 THEN MakeReusable(q, s) ELSE q

(* signal_setborrowed: s from now on stands for t.                         *)
SetBorrowed(p, s, t) ==
  LET sig == p.sigs[s]
  IN [p EXCEPT !.bug = @ \/ ~sig.isborrowed \/ sig.borrowedfrom # Null,
               !.sigs[s] = [sig EXCEPT !.borrowedfrom = t, !.vec = p.sigs[t].vec,
                              !.n = p.sigs[t].n, !.vecsize = p.sigs[t].vecsize]]

Unfilled(p, s) == p.sigs[s].isborrowed /\ p.sigs[s].borrowedfrom = Null

Compatible(p, s, t) == p.sigs[s].n = p.sigs[t].n
===============================================================================
