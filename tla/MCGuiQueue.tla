------------------------------ MODULE MCGuiQueue ------------------------------
(* The redraw queue for TLC: a widget of each kind, one of them large.      *)
EXTENDS GuiQueue

TheDrawSizes == [c \in Widgets |-> IF c \in Arrays THEN 3 ELSE 1]
===============================================================================
