------------------------------ MODULE MCPaFifo -------------------------------
(* The module TLC runs for the PortAudio rings: the constants are given in *)
(* the configurations.                                                     *)
EXTENDS PaFifo
===============================================================================
