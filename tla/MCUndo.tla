-------------------------------- MODULE MCUndo --------------------------------
(* The undo queue for TLC: an edit of each sort, typing as glist_deselect  *)
(* records it.                                                             *)
EXTENDS Undo

(* A window is followed until something is done behind the queue's back:   *)
(* from then on nothing is promised of it.                                 *)
Followed == ~strayed

TheTyping == <<"arrange", "recreate">>
===============================================================================
