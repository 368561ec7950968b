----------------------------- MODULE MCTimerFifo -----------------------------
(***************************************************************************)
(* A small wheel for TimerFifo.                                            *)
(***************************************************************************)
EXTENDS TimerFifo, TLC

TimerSymmetry == Permutations(Timers)

\* Timeouts in the past, the next tick, and in an inner and two outer vectors.
FifoDelays == {-2, 0, 3, 6, 13}
=============================================================================
