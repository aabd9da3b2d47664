----------------------------- MODULE MCMainLoop -------------------------------
(* The module TLC runs for the main loop: the constants are given in the   *)
(* configurations.                                                         *)
EXTENDS MainLoop
===============================================================================
