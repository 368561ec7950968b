---------------------------- MODULE MCTimerWheel ----------------------------
(***************************************************************************)
(* Small wheels for TLC.                                                   *)
(***************************************************************************)
EXTENDS TimerWheel, TLC

TimerSymmetry == Permutations(Timers)

\* Timeouts in the past, in every vector, beyond IDX_MAX and beyond the sign
\* of the word.
LongDelays == {-3, 1, 9, 63, 71, 90, 600}
=============================================================================
