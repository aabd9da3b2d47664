------------------------------- MODULE MCSched --------------------------------
(* The scheduler for TLC: one DSP tick is as long as two units, so that a  *)
(* clock can be due inside a tick as well as at its end, and a clock set   *)
(* for instant 1 from later on is set in the past.                         *)
EXTENDS Sched

TheTick == 2
TheTimes == {1}
TheDelays == {0, 1}
===============================================================================
