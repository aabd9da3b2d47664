----------------------------- MODULE MCLibpdQueue -----------------------------
(* A queue of libpd for TLC: a ring of four words, so that three fit, for  *)
(* messages of one to three words and one that never fits.                 *)
EXTENDS LibpdQueue

TheArgCounts == 0..3
===============================================================================
