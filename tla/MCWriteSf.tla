------------------------------ MODULE MCWriteSf ------------------------------
(* The module TLC runs for writesf~: all the constants are numbers and     *)
(* switches, given in the configurations.                                  *)
EXTENDS WriteSf
===============================================================================
