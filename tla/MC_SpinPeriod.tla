---------------------------- MODULE MC_SpinPeriod ----------------------------
(* A 2 ms period with one tick = 250 us.  spin_some takes 0.25 ms, 1.5 ms  *)
(* or 2.75 ms; the last one overruns the period.                           *)
EXTENDS SpinPeriod

MC_Durations == {1, 6, 11}
MC_Oversleep == {0, 1}
=============================================================================
