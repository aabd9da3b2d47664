------------------------------- MODULE GuiQueue -------------------------------
(***************************************************************************)
(* How Pd's windows are kept up to date (src/src/s_inter.c:716-1030).  A   *)
(* widget whose value has changed is put on a queue once, and drawn with   *)
(* the value it has when the scheduler comes to poll the GUI.  So that the *)
(* GUI, a process behind a socket, is not swamped, Pd sends "pdtk_ping"    *)
(* after every GUI_BYTESPERPING bytes and draws nothing more from the queue*)
(* before the answer is there.  What patches print and windows that are    *)
(* opened are sent at once, and count.                                     *)
(*                                                                         *)
(* Everything here runs in one thread at a time, under sys_lock; the GUI   *)
(* and the socket (external) run by themselves.                            *)
(***************************************************************************)
EXTENDS Naturals, FiniteSets, SequencesExt

CONSTANTS
  Scalars, Arrays, Iemguis,  \* the widgets, by the way they use the queue
  DrawSize,       \* the bytes it takes to draw each
  Sizes,          \* how many bytes everything else may take
  BytesPerPing,   \* GUI_BYTESPERPING
  UpdateSlice,    \* GUI_UPDATESLICE
  QuietStops,     \* TRUE: the GUI is not stopped while a ping is not answered
  MaxEvents       \* bound: what patches and users do

Widgets == Scalars \cup Arrays \cup Iemguis
ASSUME GuiAssumption ==
  /\ Scalars \cap Arrays = {} /\ Scalars \cap Iemguis = {} /\ Arrays \cap Iemguis = {}
  /\ DrawSize \in [Widgets -> Nat \ {0}] /\ Sizes \subseteq Nat
  /\ BytesPerPing \in Nat \ {0} /\ UpdateSlice \in Nat \ {0}
  /\ QuietStops \in BOOLEAN /\ MaxEvents \in Nat

VARIABLES
  queue,      \* i_guiqueuehead: whom to draw, in the order they asked
  waiting,    \* i_waitingforping
  since,      \* i_bytessincelastping
  pc,         \* where Pd is: idle, or inside canvas_map or sys_poll_togui
  todraw,     \* canvas_map: what is still to be drawn
  stop,       \* sys_flushqueue: wherestop
  buf,        \* i_guibuf, from i_guitail to i_guihead
  havegui,    \* i_havegui
  mapped,     \* gl_mapped of the window
  alive, val, \* the widgets there are, and their values
  left,       \* history: who is gone and could not take itself off the queue
  sock,       \* what the GUI has not read yet
  answers,    \* the GUI's answers to pings that Pd has not read yet
  shown,      \* what the GUI has drawn for each widget
  events      \* how much has happened

poll == <<pc, todraw, stop>>
link == <<sock, answers, shown>>
patch == <<mapped, alive, val, left>>
vars == <<queue, waiting, since, poll, buf, havegui, patch, link, events>>

(* What is sent says what it shows for which widgets, and why it was sent: *)
(* from the queue, as a ping, or straight away.                            *)
Values == {0, 1}
NotDrawn == 2
Message(kind, widgets) == [kind |-> kind, vals |-> [c \in widgets |-> val[c]]]
Ping == Message("ping", {})

Init ==
  /\ queue = <<>> /\ waiting = FALSE /\ since = 0
  /\ pc = "idle" /\ todraw = {} /\ stop = 0
  /\ buf = <<>> /\ sock = <<>> /\ answers = 0
  /\ havegui = TRUE /\ mapped = FALSE
  /\ alive = Widgets /\ val = [c \in Widgets |-> 0] /\ left = {}
  /\ shown = [c \in Widgets |-> NotDrawn]
  /\ events = 0

-------------------------------------------------------------------------------
(* sys_queuegui: a widget is on the queue once.                             *)
Queued(q, c) == IF c \in ToSet(q) THEN q ELSE Append(q, c)

(* sys_unqueuegui takes the entry out, wherever it is.                      *)
Place(q, c) == CHOOSE i \in DOMAIN q : q[i] = c
UnqueuedAtHead(q, c) == IF q # <<>> /\ Head(q) = c THEN Tail(q) ELSE q  \* mutant
UnqueuedWithRest(q, c) ==                                       \* mutant
  IF c \in ToSet(q) THEN SubSeq(q, 1, Place(q, c) - 1) ELSE q
Unqueued(q, c) == IF c \in ToSet(q) THEN RemoveAt(q, Place(q, c)) ELSE q

(* Whether deleting a widget takes it off the queue.  Number boxes, sliders *)
(* and the like do so only when they are erased (iemgui_vis).               *)
TakesItself(c) == mapped \/ c \notin Iemguis

(* sys_vgui: what is sent at once.  Without a GUI it is not sent at all.    *)
Sends(widgets, n) ==
  /\ buf' = IF havegui THEN Append(buf, Message("direct", widgets)) ELSE buf
  /\ since' = IF havegui THEN since + n ELSE since

(* sys_flushtogui: the socket may take a part of what there is.             *)
Flushes(b) ==
  \E k \in IF b = <<>> THEN {0} ELSE 1..Len(b) :
    /\ sock' = sock \o SubSeq(b, 1, k)
    /\ buf' = SubSeq(b, k + 1, Len(b))

-------------------------------------------------------------------------------
(* Patches and users, between two polls.                                    *)
Happens == pc = "idle" /\ events < MaxEvents /\ events' = events + 1

(* A value changes.  Scalars and arrays look whether they can be seen.      *)
MayAsk(c) == mapped \/ c \in Iemguis
Changes(c) ==
  /\ Happens /\ c \in alive
  /\ val' = [val EXCEPT ![c] = 1 - @]
  /\ queue' = IF MayAsk(c) THEN Queued(queue, c) ELSE queue
  /\ UNCHANGED <<waiting, since, poll, buf, havegui, mapped, alive, left, link>>

(* Something is printed, or an object counts work of another kind as bytes  *)
(* (sys_pretendguibytes).                                                   *)
Prints(n) ==
  /\ Happens /\ Sends({}, n)
  /\ UNCHANGED <<queue, waiting, poll, havegui, patch, link>>

Pretends(n) ==
  /\ Happens /\ since' = since + n
  /\ UNCHANGED <<queue, waiting, poll, buf, havegui, patch, link>>

(* canvas_map: the window comes up and everything in it is drawn, which    *)
(* takes scalars off the queue; and it goes, which leaves the queue alone.  *)
Shows ==
  /\ Happens /\ havegui /\ ~mapped
  /\ pc' = "map" /\ todraw' = alive
  /\ UNCHANGED <<queue, waiting, since, stop, buf, havegui, patch, link>>

DrawsNext ==
  /\ pc = "map" /\ todraw # {}
  /\ LET c == CHOOSE c \in todraw : TRUE IN
       /\ todraw' = todraw \ {c}
       /\ Sends({c}, DrawSize[c])
       /\ queue' = IF c \in Scalars THEN Unqueued(queue, c) ELSE queue
  /\ UNCHANGED <<waiting, pc, stop, havegui, patch, link, events>>

HasDrawn ==
  /\ pc = "map" /\ todraw = {}
  /\ mapped' = TRUE /\ pc' = "idle"
  /\ UNCHANGED <<queue, waiting, since, todraw, stop, buf, havegui, alive, val, left, link, events>>

Hides(n) ==
  /\ Happens /\ mapped
  /\ mapped' = FALSE
  /\ Sends({}, n)
  /\ UNCHANGED <<queue, waiting, poll, havegui, alive, val, left, link>>

(* An object is made, perhaps at the address of one that was deleted: an    *)
(* entry left behind is then its own.  In a window that can be seen it is   *)
(* drawn.                                                                   *)
Creates(c) ==
  /\ Happens /\ c \notin alive
  /\ alive' = alive \cup {c} /\ left' = left \ {c}
  /\ IF mapped THEN Sends({c}, DrawSize[c]) ELSE UNCHANGED <<buf, since>>
  /\ UNCHANGED <<queue, waiting, poll, havegui, mapped, val, link>>

(* glist_delete erases it if it can be seen, with an unqueue, and frees it: *)
(* with another unqueue, except for number boxes, sliders and the like: of  *)
(* one that is deleted in a hidden window the entry stays.                  *)
Deletes(c, n) ==
  /\ Happens /\ c \in alive
  /\ alive' = alive \ {c} /\ val' = [val EXCEPT ![c] = 0]
  /\ queue' = IF TakesItself(c) THEN Unqueued(queue, c) ELSE queue
  /\ left' = IF TakesItself(c) THEN left ELSE left \cup ({c} \cap ToSet(queue))
  /\ IF mapped THEN Sends({}, n) ELSE UNCHANGED <<buf, since>>
  /\ UNCHANGED <<waiting, poll, havegui, mapped, link>>

(* libpd_stop_gui closes the windows and the socket; libpd_start_gui starts *)
(* another GUI, with an empty buffer and the flags as they were.            *)
StopGui(n) ==
  /\ Happens /\ havegui
  /\ QuietStops => ~waiting
  /\ havegui' = FALSE /\ mapped' = FALSE
  /\ Sends({}, n) /\ sock' = <<>> /\ answers' = 0
  /\ UNCHANGED <<queue, waiting, poll, alive, val, left, shown>>

StartGui ==
  /\ Happens /\ ~havegui
  /\ havegui' = TRUE /\ buf' = <<>>
  /\ shown' = [c \in Widgets |-> NotDrawn]
  /\ UNCHANGED <<queue, waiting, since, poll, patch, sock, answers>>

Event ==
  \/ \E c \in Widgets : Changes(c) \/ Creates(c)
  \/ \E n \in Sizes : Prints(n) \/ Pretends(n) \/ Hides(n) \/ StopGui(n)
  \/ \E c \in Widgets, n \in Sizes : Deletes(c, n)
  \/ Shows \/ StartGui

-------------------------------------------------------------------------------
(* sys_poll_togui: what is left in the buffer goes first, and if all of it  *)
(* has gone, the queue is served, up to wherestop.                          *)
Never == 2147483647
StopAt == LET where == since + UpdateSlice
          IN IF where + UpdateSlice \div 2 > BytesPerPing THEN Never ELSE where
MayServeUnasked == queue # <<>>                                 \* mutant
MayServe == ~waiting /\ queue # <<>>

Polls ==
  /\ pc = "idle" /\ havegui
  /\ Flushes(buf)
  /\ IF buf' = <<>> /\ MayServe
     THEN pc' = "flush" /\ stop' = StopAt
     ELSE UNCHANGED <<pc, stop>>
  /\ UNCHANGED <<queue, waiting, since, todraw, havegui, patch, answers, shown, events>>

(* sys_flushqueue: once enough has been sent, the GUI is asked ...          *)
SinceAfterPing0 == since                                        \* mutant
SinceAfterPing == 0
Pings ==
  /\ pc = "flush" /\ since >= BytesPerPing
  /\ buf' = Append(buf, Ping)
  /\ since' = SinceAfterPing /\ waiting' = TRUE /\ pc' = "idle"
  /\ UNCHANGED <<queue, todraw, stop, havegui, patch, link, events>>

(* ... and before that the next in the queue draws itself, with the value   *)
(* it has now, if it can be seen.  Calling one that was deleted is undefined*)
(* behaviour, with which the model ends.                                    *)
Serves ==
  /\ pc = "flush" /\ since < BytesPerPing /\ queue # <<>>
  /\ queue' = Tail(queue)
  /\ IF mapped
     THEN /\ buf' = Append(buf, Message("update", {Head(queue)}))
          /\ since' = since + DrawSize[Head(queue)]
     ELSE UNCHANGED <<buf, since>>
  /\ pc' = IF Head(queue) \notin alive THEN "crashed"
           ELSE IF since' >= stop THEN "send" ELSE "flush"
  /\ UNCHANGED <<waiting, todraw, stop, havegui, patch, link, events>>

HasServed ==
  /\ pc = "flush" /\ since < BytesPerPing /\ queue = <<>>
  /\ pc' = "send"
  /\ UNCHANGED <<queue, waiting, since, todraw, stop, buf, havegui, patch, link, events>>

SendsIt ==
  /\ pc = "send" /\ Flushes(buf) /\ pc' = "idle"
  /\ UNCHANGED <<queue, waiting, since, todraw, stop, havegui, patch, answers, shown, events>>

(* glob_ping: the answer is there.                                          *)
PingArrives ==
  /\ pc = "idle" /\ answers > 0
  /\ answers' = answers - 1 /\ waiting' = FALSE
  /\ UNCHANGED <<queue, since, poll, buf, havegui, patch, sock, shown, events>>

(* The GUI (external) does what it is told, in the order it is told.        *)
Shown(item, pictures) == [c \in Widgets |-> IF c \in DOMAIN item.vals THEN item.vals[c]
                                            ELSE pictures[c]]
GuiReads ==
  /\ sock # <<>>
  /\ sock' = Tail(sock)
  /\ shown' = Shown(Head(sock), shown)
  /\ answers' = IF Head(sock).kind = "ping" THEN answers + 1 ELSE answers
  /\ UNCHANGED <<queue, waiting, since, poll, buf, havegui, patch, events>>

Inside == DrawsNext \/ HasDrawn \/ Pings \/ Serves \/ HasServed \/ SendsIt
Next == Event \/ Polls \/ Inside \/ PingArrives \/ GuiReads

Spec == Init /\ [][Next]_vars
FairSpec == /\ Spec
            /\ WF_vars(Polls) /\ WF_vars(Inside)
            /\ WF_vars(PingArrives) /\ WF_vars(GuiReads)

-------------------------------------------------------------------------------
(* The type invariant.                                                      *)
Messages == [kind : {"direct", "update", "ping"},
             vals : UNION {[S -> Values] : S \in SUBSET Widgets}]
TypeOK ==
  /\ queue \in Seq(Widgets) /\ waiting \in BOOLEAN /\ since \in Nat
  /\ pc \in {"idle", "map", "flush", "send", "crashed"}
  /\ todraw \subseteq Widgets /\ stop \in Nat
  /\ buf \in Seq(Messages) /\ sock \in Seq(Messages) /\ answers \in Nat
  /\ havegui \in BOOLEAN /\ mapped \in BOOLEAN
  /\ alive \subseteq Widgets /\ left \subseteq Widgets /\ val \in [Widgets -> Values]
  /\ shown \in [Widgets -> Values \cup {NotDrawn}]
  /\ events \in Nat

(* What the queue points to exists, over any changes, shows, hides, stops   *)
(* and deletions (sys_unqueuegui), but for one way: a number box, a slider  *)
(* or the like that was on the queue when it was deleted in a hidden window *)
(* (glist_delete erases only what can be seen, iemgui_vis alone unqueues).  *)
(* Only such an entry can make sys_flushqueue call a widget that is gone.   *)
QueuedAreAlive ==
  /\ \A i \in DOMAIN queue : queue[i] \in alive \cup left
  /\ pc = "crashed" => left # {}

(* What has been sent and is not read yet.                                  *)
stream == sock \o buf

(* What the GUI shows of c once it has read everything: what it was sent   *)
(* last, or else what it shows.                                             *)
Draws(i, c) == c \in DOMAIN stream[i].vals
WillShow(c, v) ==
  IF \E i \in DOMAIN stream : Draws(i, c)
  THEN \E i \in DOMAIN stream :
         /\ Draws(i, c) /\ stream[i].vals[c] = v
         /\ \A j \in DOMAIN stream : j > i => ~Draws(j, c)
  ELSE shown[c] = v

(* Nobody's last change is forgotten: in a window that is up, what the GUI  *)
(* shows once it has read everything is the value, or a redraw is queued,   *)
(* although a widget is queued once for many changes and drawing a window   *)
(* takes entries off.                                                       *)
ShownOrQueued ==
  mapped => \A c \in alive : WillShow(c, val[c]) \/ c \in ToSet(queue)

(* What is drawn from the queue and not read yet, byte by byte.             *)
Bytes(item) ==
  IF item.kind = "update" THEN DrawSize[CHOOSE c \in DOMAIN item.vals : TRUE]
                          ELSE 0
UnreadBytes == UNION {{i} \X (1..Bytes(stream[i])) : i \in DOMAIN stream}
Unread == Cardinality(UnreadBytes)

(* The flow control: that is never more than GUI_BYTESPERPING, but for the  *)
(* last widget, however slow the GUI is.                                    *)
UnreadIsBounded ==
  Unread = 0 \/ \E c \in Widgets : Unread < BytesPerPing + DrawSize[c]

(* Nothing is drawn from the queue behind a ping before it is answered      *)
(* (sys_flushqueue, i_waitingforping).                                      *)
UpdatesWait ==
  /\ \A i, j \in DOMAIN stream :
       stream[i].kind = "ping" /\ i < j => stream[j].kind # "update"
  /\ answers > 0 => \A i \in DOMAIN stream : stream[i].kind # "update"

(* Once patches and users are quiet, the GUI shows what is: no redraw stays *)
(* on the queue for want of an answer (glob_ping) or of a poll.             *)
AllIsShown ==
  []<>(pc = "crashed" \/ (mapped => \A c \in alive : shown[c] = val[c]))
===============================================================================
