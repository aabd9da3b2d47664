------------------------------- MODULE BindList -------------------------------
(***************************************************************************)
(* What is bound to a symbol (src/src/m_pd.c): nothing, one thing, or a    *)
(* list of things that passes every message on to each of them.  A method  *)
(* that is called on the way may bind and unbind and send to the symbol    *)
(* again, so deliveries are nested and the list changes under them: each   *)
(* stands at an element, and reads e_next of it when the call returns.     *)
(*                                                                         *)
(* An element that is freed may be allocated again at once.  What is read  *)
(* of one that was not is undefined: the zero that pd_unbind left there,   *)
(* or what the allocator has written over it.                              *)
(***************************************************************************)
EXTENDS Integers, Sequences, SequencesExt

CONSTANTS
  Things,     \* what can be bound
  Addrs,      \* the addresses of elements
  Null,
  List,       \* the class of what is bound: bindlist_class
  MaxDepth    \* bound: deliveries inside deliveries

ASSUME BindAssumption ==
  /\ Null \notin Things \union Addrs
  /\ List \notin Things \union {Null}
  /\ MaxDepth \in Nat

VARIABLES
  thing,      \* s_thing: Null, a thing or List
  b_list,     \* the first element of the bindlist
  elem,       \* the elements: e_who and e_next
  live,       \* those that are allocated
  stack,      \* the deliveries under way, the innermost last
  bound,      \* history: what was bound and not unbound, the latest first
  crashed     \* the program followed a pointer that was none

vars == <<thing, b_list, elem, live, stack, bound, crashed>>

Elem(who, next) == [e_who |-> who, e_next |-> next]
Free == Addrs \ live
IsBound(x) == \E i \in DOMAIN bound : bound[i] = x

(* A sequence without x, which is in it at most once.                      *)
Drop(s, x) ==
  IF \E i \in DOMAIN s : s[i] = x
  THEN RemoveAt(s, CHOOSE i \in DOMAIN s : s[i] = x)
  ELSE s

(* A delivery: the element it stands at (Null when a thing was called      *)
(* directly), history: whom it has still to call, and whether its element  *)
(* was freed under it.                                                     *)
Delivery(e, due) == [at |-> e, due |-> due, freed |-> FALSE]

-----------------------------------------------------------------------------
(* pd_bind.                                                                *)
BindFirst(x) ==
  /\ thing = Null
  /\ thing' = x
  /\ UNCHANGED <<b_list, elem, live>>

BindSecond(x) ==
  /\ thing \in Things
  /\ \E e1, e2 \in Free :
       /\ e1 # e2
       /\ elem' = [elem EXCEPT ![e1] = Elem(x, e2), ![e2] = Elem(thing, Null)]
       /\ b_list' = e1
       /\ live' = live \union {e1, e2}
  /\ thing' = List

BindBehind(x) ==                                                 \* mutant
  /\ thing = List
  /\ \E e \in Free :
       /\ elem' = [elem EXCEPT ![e] = Elem(x, elem[b_list].e_next),
                               ![b_list].e_next = e]
       /\ live' = live \union {e}
  /\ UNCHANGED <<thing, b_list>>
BindMore(x) ==
  /\ thing = List
  /\ \E e \in Free :
       /\ elem' = [elem EXCEPT ![e] = Elem(x, b_list)]
       /\ b_list' = e
       /\ live' = live \union {e}
  /\ UNCHANGED thing

Bind(x) ==
  /\ ~crashed /\ ~IsBound(x)
  /\ BindFirst(x) \/ BindSecond(x) \/ BindMore(x)
  /\ bound' = <<x>> \o bound
  /\ UNCHANGED <<stack, crashed>>

-----------------------------------------------------------------------------
(* pd_unbind.  The element is taken out and emptied; a list that has one   *)
(* element left is given up for it.                                        *)
TakenOut(e) ==
  LET rest == IF e = b_list THEN elem[e].e_next ELSE b_list
      linked == [a \in Addrs |->
                   IF a \in live /\ elem[a].e_next = e
                   THEN Elem(elem[a].e_who, elem[e].e_next) ELSE elem[a]]
  IN [first |-> rest, elem |-> [linked EXCEPT ![e] = Elem(Null, Null)]]

WithoutKeeping(e) ==                                             \* mutant
  LET l == TakenOut(e)
  IN /\ elem' = l.elem
     /\ b_list' = l.first
     /\ live' = live \ {e}
     /\ UNCHANGED thing
Without(e) ==
  LET l == TakenOut(e)
  IN /\ elem' = l.elem
     /\ IF l.elem[l.first].e_next # Null
        THEN b_list' = l.first /\ live' = live \ {e} /\ UNCHANGED thing
        ELSE /\ thing' = l.elem[l.first].e_who
             /\ b_list' = Null
             /\ live' = live \ {e, l.first}

(* What that does to the deliveries under way.                             *)
Unbound(d, x) ==
  [d EXCEPT !.due = Drop(@, x),
            !.freed = @ \/ d.at \in live \ live']

Unbind(x) ==
  /\ ~crashed /\ IsBound(x)
  /\ IF thing = x
     THEN thing' = Null /\ UNCHANGED <<b_list, elem, live>>
     ELSE \E e \in live : elem[e].e_who = x /\ Without(e)
  /\ bound' = Drop(bound, x)
  /\ stack' = [i \in DOMAIN stack |-> Unbound(stack[i], x)]
  /\ UNCHANGED crashed

-----------------------------------------------------------------------------
(* A message to the symbol: bindlist_bang, _float, _symbol, _pointer,      *)
(* _list and _anything are one loop.                                       *)
Send ==
  /\ ~crashed /\ Len(stack) < MaxDepth /\ thing # Null
  /\ stack' = Append(stack, IF thing = List THEN Delivery(b_list, Tail(bound))
                                            ELSE Delivery(Null, <<>>))
  /\ UNCHANGED <<thing, b_list, elem, live, bound, crashed>>

Top == stack[Len(stack)]
DueAfter(d) == IF d.due = <<>> THEN <<>> ELSE Tail(d.due)

(* The loop ends, or calls the thing at the next element.                  *)
Step(next) ==
  IF next = Null
  THEN stack' = Front(stack)
  ELSE stack' = [stack EXCEPT ![Len(stack)] =
                   [@ EXCEPT !.at = next, !.due = DueAfter(Top)]]

ReadNext ==
  IF Top.at \in live
  THEN Step(elem[Top.at].e_next) /\ UNCHANGED crashed
  ELSE \/ Step(Null) /\ UNCHANGED crashed
       \/ crashed' = TRUE /\ UNCHANGED stack

Return ==
  /\ ~crashed /\ stack # <<>>
  /\ IF Top.at = Null THEN Step(Null) /\ UNCHANGED crashed ELSE ReadNext
  /\ UNCHANGED <<thing, b_list, elem, live, bound>>

Init ==
  /\ thing = Null /\ b_list = Null
  /\ elem = [a \in Addrs |-> Elem(Null, Null)]
  /\ live = {}
  /\ stack = <<>> /\ bound = <<>> /\ crashed = FALSE

Next ==
  \/ \E x \in Things : Bind(x) \/ Unbind(x)
  \/ Send
  \/ Return

Spec == Init /\ [][Next]_vars

-----------------------------------------------------------------------------
(* The types of what is in memory, and of the history.                     *)
TypeOK ==
  /\ thing \in Things \union {Null, List}
  /\ b_list \in Addrs \union {Null}
  /\ elem \in [Addrs -> [e_who : Things \union {Null},
                         e_next : Addrs \union {Null}]]
  /\ live \subseteq Addrs
  /\ stack \in Seq([at : Addrs \union {Null}, due : Seq(Things),
                    freed : BOOLEAN])
  /\ bound \in Seq(Things)
  /\ crashed \in BOOLEAN

(* The links from e on lead through exactly these things, in this order:   *)
(* e holds the first of them, and whichever holds one leads to the next.   *)
LeadsTo(e, things) ==
  IF things = <<>> THEN e = Null
  ELSE e \in live /\ elem[e].e_who = things[1]
Chain(e, things) ==
  /\ LeadsTo(e, things)
  /\ \A i \in DOMAIN things : \E a \in live :
       /\ elem[a].e_who = things[i]
       /\ LeadsTo(elem[a].e_next, SubSeq(things, i + 1, Len(things)))

(* Whatever is bound and unbound, in whatever order and from wherever, the *)
(* symbol has exactly what was bound and not unbound, the latest first;    *)
(* "bindlists always have at least two elements" (m_pd.c, pd_unbind), each *)
(* holds one thing, and no element is lost.                                *)
ListIsBound ==
  /\ Len(bound) = 0 => thing = Null
  /\ Len(bound) = 1 => thing = bound[1]
  /\ Len(bound) >= 2 => thing = List /\ Chain(b_list, bound)
  /\ Len(bound) < 2 => live = {}
  /\ \A a \in live : IsBound(elem[a].e_who)
  /\ \A a, b \in live : elem[a].e_who = elem[b].e_who => a = b

(* Unbinding is safe under a delivery except of the element it stands at:  *)
(* unless that was freed under it, it has still to call everyone who was   *)
(* bound when it began and is bound still, once, in order, and nobody      *)
(* else; whoever is bound meanwhile does not get the message.              *)
StillToCome ==
  \A i \in DOMAIN stack :
    stack[i].at # Null /\ ~stack[i].freed =>
      stack[i].at \in live /\ Chain(elem[stack[i].at].e_next, stack[i].due)

(* "a collection object ... which forwards messages sent to the symbol"    *)
(* (m_pd.c:48-50): a delivery does not end before everyone who was bound   *)
(* when it began, and is bound still, was called.  Not so when a thing     *)
(* unbinds itself while it is called: README, section 5.2.                 *)
EndsAfterAll ==
  [][Len(stack') < Len(stack) => Top.due = <<>>]_vars
===============================================================================
