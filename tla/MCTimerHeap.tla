---------------------------- MODULE MCTimerHeap ----------------------------
(* Six timers, so that the percolation down passes two levels and meets     *)
(* elements with two children, one and none.                                *)
EXTENDS TimerHeap, TLC

CONSTANTS t1, t2, t3, t4, t5, t6, idle

MCTimers == {t1, t2, t3, t4, t5, t6}
MCTimes == 0 .. 2
Symmetry == Permutations(MCTimers)
=============================================================================
