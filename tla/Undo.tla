--------------------------------- MODULE Undo ---------------------------------
(***************************************************************************)
(* The undo queue of a window (src/src/g_undo.c) and the editor's use of   *)
(* it (src/src/g_editor.c): edits are appended behind the last one that is *)
(* not undone, and what was undone before is thrown away; sequences of     *)
(* edits are undone and redone as one; the position at which the patch was *)
(* saved is remembered as a pointer into the queue.                        *)
(*                                                                         *)
(* The patch is the set of the edits that are applied and the order they   *)
(* were applied in, as a relation.  An edit is its kind and a number.  Some*)
(* kinds are recorded only while nothing is being undone (u_doing), and    *)
(* undoing some kinds can fail: when the object is a changed abstraction,  *)
(* the code asks the user first and gives up.                              *)
(***************************************************************************)
EXTENDS Integers, Sequences, FiniteSets

CONSTANTS
  Kinds,       \* the kinds of edits
  Checked,     \* those recorded only when u_doing is not set
  Fallible,    \* those whose undo may be refused
  Typing,      \* the kinds recorded, in order, when a typed text is taken
  MaxEdits,    \* bound: how many edits are made in all
  MaxDepth,    \* bound: sequences inside sequences
  MaxQueue     \* bound: sequences are begun while the queue is shorter

ASSUME UndoAssumption ==
  /\ Checked \subseteq Kinds /\ Fallible \subseteq Kinds
  /\ Typing \in Seq(Kinds) /\ Typing # <<>>
  /\ {MaxEdits, MaxDepth, MaxQueue} \subseteq Nat

VARIABLES
  queue,     \* u_queue: the actions, followed through next
  last,      \* u_last, as a place in the queue
  clean,     \* u_cleanstate, as a place in the queue
  doing,     \* u_doing
  typing,    \* e_textdirty: a box is being typed in
  dirty,     \* gl_dirty
  depth,     \* sequences the editor has begun and not ended
  made,      \* how many edits were made
  patch,     \* the pairs of applied edits, the second applied no earlier
  saved,     \* history: the patch when it was saved last
  strayed,   \* history: an edit was made or skipped behind the queue's back
  aliased,   \* history: an action got the address u_cleanstate still had
  unmarked,  \* history: the editor changed a saved window and did not mark it
  bug        \* history: an unpaired sequence was met

vars == <<queue, last, clean, doing, typing, dirty, depth, made, patch, saved,
          strayed, aliased, unmarked, bug>>

Edit(k, n) == [kind |-> k, n |-> n]
NoEdit == [kind |-> "", n |-> 0]
Nowhere == -1                \* the (void *)1 of a window never saved
Freed == 0                   \* the address of an action that was freed
Action(t, e) == [type |-> t, edit |-> e]

(* The edits of the actions i to j, and their order.                       *)
EditPlaces(q, i, j) == {k \in i..j : q[k].type = "edit"}
EditsAt(q, i, j) == {q[k].edit : k \in EditPlaces(q, i, j)}
InTurn(q, i, j) ==
  UNION {{<<q[k].edit, q[m].edit>> : m \in EditPlaces(q, k, j)} :
           k \in EditPlaces(q, i, j)}

(* A patch with more edits applied, and one with some taken back.          *)
Applied(p) == {pair[1] : pair \in p}
AndThen(p, more) == p \union more \union (Applied(p) \X Applied(more))
Without(p, edits) == {pair \in p : pair[1] \notin edits /\ pair[2] \notin edits}

(***************************************************************************)
(* canvas_undo_init and canvas_undo_add.  h is the queue, the place of its *)
(* last action, u_cleanstate, and which of the actions that are added gets *)
(* the address u_cleanstate still has of one that was freed, if any does:  *)
(* the first is allocated before the undone ones are freed.                *)
(***************************************************************************)
Here(take) == [queue |-> queue, last |-> last, clean |-> clean,
               aliased |-> aliased, take |-> take]

Reused(h) ==
  h.take > 0 /\ (h.clean = Freed \/ (h.clean > h.last /\ h.take > 1))
CleanAfter(h) ==
  IF Reused(h) THEN h.last + h.take
  ELSE IF h.clean > h.last THEN Freed ELSE h.clean

AddBehind(h, new) ==                                             \* mutant
  [queue |-> h.queue \o new, last |-> h.last + Len(new), clean |-> CleanAfter(h),
   aliased |-> h.aliased \/ Reused(h), take |-> 0]
Add(h, new) ==
  [queue |-> SubSeq(h.queue, 1, h.last) \o new, last |-> h.last + Len(new),
   clean |-> CleanAfter(h), aliased |-> h.aliased \/ Reused(h), take |-> 0]

(* The end of a sequence nothing was recorded in removes its start.        *)
Start == Action("start", NoEdit)
End == Action("end", NoEdit)
EndSequence(h) ==
  IF h.queue[h.last].type = "start"
  THEN [queue |-> SubSeq(h.queue, 1, h.last - 1), last |-> h.last - 1,
        clean |-> IF h.clean >= h.last THEN Freed ELSE h.clean,
        aliased |-> h.aliased, take |-> 0]
  ELSE Add(h, <<End>>)

(* A typed text is taken when its box is deselected: a sequence of its own.*)
TypedActions ==
  [i \in 1..(Len(Typing) + 2) |->
     CASE i = 1 -> Start
       [] i \in 2..(Len(Typing) + 1) -> Action("edit", Edit(Typing[i - 1], made + i - 1))
       [] i = Len(Typing) + 2 -> End]
TypedEdits == InTurn(TypedActions, 1, Len(TypedActions))
Typed(h) == Add(h, TypedActions)
TypedTakes == 0..Len(TypedActions)
MayType == made + Len(Typing) <= MaxEdits

Put(h) ==
  queue' = h.queue /\ last' = h.last /\ clean' = h.clean /\ aliased' = h.aliased

(* canvas_undo_isdirty.                                                    *)
IsDirty(h) == h.last # h.clean

(***************************************************************************)
(* The editor: an edit, sequences of edits, typing, and saving.  Not every *)
(* operation that records an edit calls canvas_dirty (marks): cutting,     *)
(* pasting, moving and drawing a connection do, the font dialog and        *)
(* connecting or disconnecting selected boxes do not, a box from the menu  *)
(* does when the mouse moves it.                                           *)
(***************************************************************************)
MakeEdit(k, marks) ==
  /\ made < MaxEdits
  /\ patch' = AndThen(patch, {<<Edit(k, made + 1), Edit(k, made + 1)>>})
  /\ made' = made + 1
  /\ dirty' = (dirty \/ marks)
  /\ unmarked' = (unmarked \/ ~(dirty \/ marks))
  /\ IF k \in Checked /\ doing
     THEN strayed' = TRUE /\ UNCHANGED <<queue, last, clean, aliased>>
     ELSE /\ \E take \in 0..1 :
               Put(Add(Here(take), <<Action("edit", Edit(k, made + 1))>>))
          /\ UNCHANGED strayed
  /\ UNCHANGED <<doing, typing, depth, saved, bug>>

BeginSequence ==
  /\ depth < MaxDepth /\ last < MaxQueue
  /\ \E take \in 0..1 : Put(Add(Here(take), <<Start>>))
  /\ depth' = depth + 1
  /\ UNCHANGED <<doing, typing, dirty, made, patch, saved, strayed, unmarked, bug>>

FinishSequence ==
  /\ depth > 0
  /\ \E take \in 0..1 : Put(EndSequence(Here(take)))
  /\ depth' = depth - 1
  /\ UNCHANGED <<doing, typing, dirty, made, patch, saved, strayed, unmarked, bug>>

Type ==
  /\ ~typing /\ depth = 0 /\ MayType
  /\ typing' = TRUE
  /\ dirty' = TRUE
  /\ UNCHANGED <<queue, last, clean, doing, depth, made, patch, saved, strayed,
                 aliased, unmarked, bug>>

Deselect ==
  /\ typing /\ depth = 0 /\ MayType
  /\ typing' = FALSE
  /\ \E take \in TypedTakes : Put(Typed(Here(take)))
  /\ patch' = AndThen(patch, TypedEdits)
  /\ made' = made + Len(Typing)
  /\ unmarked' = (unmarked \/ ~dirty)
  /\ UNCHANGED <<doing, dirty, depth, saved, strayed, bug>>

SaveOnly ==                                                      \* mutant
  /\ depth = 0
  /\ dirty' = FALSE
  /\ saved' = patch
  /\ unmarked' = FALSE
  /\ UNCHANGED <<queue, last, clean, doing, typing, depth, made, patch, strayed,
                 aliased, bug>>
Save ==
  /\ depth = 0
  /\ dirty' = FALSE
  /\ clean' = last
  /\ saved' = patch
  /\ aliased' = FALSE /\ unmarked' = FALSE
  /\ UNCHANGED <<queue, last, doing, typing, depth, made, patch, strayed, bug>>

(***************************************************************************)
(* canvas_undo_undo.  It takes a text that is being typed, which adds to   *)
(* the queue, and then undoes the last action or, back to its start, the   *)
(* last sequence.  refused are the edits whose undo is given up.           *)
(***************************************************************************)
Count(q, type, i, j) == Cardinality({k \in i..j : q[k].type = type})
Nested(q, i, j) == Count(q, "start", i, j) - Count(q, "end", i, j)
Balanced(q, i, j) == Nested(q, i, j) = 0

PartnerNearest(q, j) ==                                          \* mutant
  LET starts == {i \in 1..(j - 1) : q[i].type = "start"}
  IN IF starts = {} THEN 1 ELSE CHOOSE i \in starts : \A k \in starts : k <= i
StartOf(q, j) ==
  LET starts == {i \in 2..(j - 1) : Balanced(q, i, j)}
  IN IF starts = {} THEN 1 ELSE CHOOSE i \in starts : \A k \in starts : k <= i

EndOf(q, i) ==
  LET ends == {j \in (i + 1)..Len(q) : Balanced(q, i, j)}
  IN IF ends = {} THEN Len(q) ELSE CHOOSE j \in ends : \A k \in ends : j <= k

UndoTo(h, p, i, refused) ==
  LET undone == EditsAt(h.queue, i, h.last)
      kept   == {e \in undone : e.kind \in Fallible /\ e \in refused}
  IN /\ patch' = Without(p, undone \ kept)
     /\ strayed' = (strayed \/ kept # {})
     /\ Put([h EXCEPT !.last = i - 1])
     /\ doing' = FALSE
     /\ dirty' = IsDirty([h EXCEPT !.last = i - 1])
     /\ unmarked' = FALSE

(* What is undone with one call: back to i, or nothing when it is refused, *)
(* and then u_doing is left set.                                           *)
GiveUp(h, p) ==
  /\ patch' = p
  /\ Put(h)
  /\ doing' = TRUE
  /\ unmarked' = (unmarked \/ (typing /\ ~dirty))
  /\ UNCHANGED <<strayed, dirty>>

UndoneWith(h, p, refused) ==
  LET q == h.queue  a == q[h.last]  i == IF a.type = "end" THEN StartOf(q, h.last)
                                         ELSE h.last
  IN /\ bug' = (bug \/ (a.type = "end" /\ ~Balanced(q, i, h.last)))
     /\ IF q[i].type = "init" \/ (a.type = "edit" /\ a.edit.kind \in Fallible
                                                   /\ a.edit \in refused)
        THEN GiveUp([h EXCEPT !.last = i], p)
        ELSE UndoTo(h, p, i, refused)

Undo ==
  /\ depth = 0 /\ last # 1
  /\ typing => MayType
  /\ \E take \in IF typing THEN TypedTakes ELSE {0} :
     LET h == IF typing THEN Typed(Here(take)) ELSE Here(take)
         p == IF typing THEN AndThen(patch, TypedEdits) ELSE patch
         all == EditsAt(h.queue, 1, h.last)
     IN \E refused \in SUBSET {e \in all : e.kind \in Fallible} :
          UndoneWith(h, p, refused)
  /\ typing' = FALSE
  /\ made' = IF typing THEN made + Len(Typing) ELSE made
  /\ UNCHANGED <<depth, saved>>

(***************************************************************************)
(* canvas_undo_redo.  It moves on to the action to be redone before it     *)
(* takes a text that is being typed: that is then added behind an action   *)
(* which is not done again any more, and all that was left to redo is      *)
(* thrown away.                                                            *)
(***************************************************************************)
RedoTo(j) ==
  LET h == [Here(0) EXCEPT !.last = j]
  IN /\ patch' = AndThen(patch, InTurn(queue, last + 1, j))
     /\ Put(h)
     /\ dirty' = IsDirty(h) /\ unmarked' = FALSE

RedoNext ==
  LET start == queue[last + 1].type = "start"
      j == IF start THEN EndOf(queue, last + 1) ELSE last + 1
  IN /\ RedoTo(j)
     /\ bug' = (bug \/ (start /\ ~Balanced(queue, last + 1, j)))
     /\ strayed' = (strayed \/ (start /\ ~Balanced(queue, last + 1, j)))
     /\ UNCHANGED <<typing, made>>

RedoTyped ==
  \E take \in TypedTakes :
  LET h == Typed([Here(take) EXCEPT !.last = last + 1])
  IN /\ MayType
     /\ patch' = AndThen(patch, TypedEdits)
     /\ Put(h)
     /\ dirty' = IsDirty(h) /\ unmarked' = FALSE
     /\ strayed' = TRUE
     /\ typing' = FALSE
     /\ made' = made + Len(Typing)
     /\ UNCHANGED bug

Redo ==
  /\ depth = 0 /\ last < Len(queue)
  /\ doing' = FALSE
  /\ IF typing THEN RedoTyped ELSE RedoNext
  /\ UNCHANGED <<depth, saved>>

(* A window is new: empty, and an abstraction also counts as saved.        *)
Init ==
  /\ queue = <<Action("init", NoEdit)>>
  /\ last = 1
  /\ clean \in {1, Nowhere}
  /\ doing = FALSE /\ typing = FALSE /\ dirty = FALSE /\ depth = 0 /\ made = 0
  /\ patch = {} /\ saved = {}
  /\ strayed = FALSE /\ aliased = FALSE /\ unmarked = FALSE /\ bug = FALSE

Next ==
  \/ \E k \in Kinds, marks \in BOOLEAN : MakeEdit(k, marks)
  \/ BeginSequence
  \/ FinishSequence
  \/ Type
  \/ Deselect
  \/ Save
  \/ Undo
  \/ Redo

Spec == Init /\ [][Next]_vars

-----------------------------------------------------------------------------
(* The queue begins with its init action, the last action is one of it,    *)
(* every edit is in it at most once, and u_cleanstate is one of its actions*)
(* or one that is gone.                                                    *)
TypeOK ==
  /\ queue[1].type = "init"
  /\ \A i \in 2..Len(queue) : queue[i].type \in {"start", "end", "edit"}
  /\ \A i, j \in DOMAIN queue :
       i # j /\ queue[i].edit = queue[j].edit => queue[i].edit = NoEdit
  /\ last \in DOMAIN queue
  /\ clean \in DOMAIN queue \union {Freed, Nowhere}
  /\ depth \in 0..MaxDepth /\ made \in 0..MaxEdits

(* Whatever was edited, undone, redone, typed and nested, the patch is     *)
(* what the queue up to u_last says, in that order: each undo takes back   *)
(* the edit made last (canvas_undo_undo, _redo, _rebranch).  The ways out  *)
(* are in strayed: part of a sequence refused, an edit while u_doing is    *)
(* left set, a redo while a text is being typed.                           *)
PatchIsHistory ==
  ~strayed => patch = InTurn(queue, 1, last)

(* Between the editor's operations a window stands before or after whole   *)
(* sequences, and so does the end of what can be redone.                   *)
WholeSequences ==
  ~strayed /\ depth = 0 =>
    /\ \A k \in 1..Len(queue) : Nested(queue, 1, k) >= 0
    /\ Balanced(queue, 1, last) /\ Balanced(queue, 1, Len(queue))

(* Undo and redo decide by u_cleanstate (g_undo.h:88) whether the window   *)
(* holds what was saved, and so does what was edited, thrown away and saved*)
(* since: a window that is not marked as changed holds the saved patch.    *)
(* Two ways out.  The editor itself changed an unmarked window and left it *)
(* so: an edit without canvas_dirty, or a text that was typed before the   *)
(* window was saved and is taken after it (unmarked).  Or the memory of the*)
(* action u_cleanstate stands for was freed and given to another (aliased).*)
CleanIsSaved ==
  ~dirty /\ ~strayed /\ ~aliased /\ ~unmarked => patch = saved

(* What the flag says by its comment, "patch has changed" (gl_dirty,       *)
(* g_canvas.h:200): without it the patch is the one that was saved.  It    *)
(* does not hold.                                                          *)
ChangedIsMarked == ~dirty => patch = saved

(* What u_cleanstate is by its comment, the "pointer to non-dirty state"   *)
(* (g_undo.h:88): a window that undo, redo and every edit that calls       *)
(* canvas_dirty left unmarked holds the saved patch.  It does not hold:    *)
(* canvas_undo_rebranch frees that action and keeps the pointer to it.     *)
PointsToCleanState ==
  ~dirty /\ ~strayed /\ ~unmarked => patch = saved

(* The bug() messages of undo and redo about unpaired sequences are never  *)
(* met.  Not so when a redo comes while text is typed: README, 5.2.        *)
SequencesArePaired == ~bug
===============================================================================
