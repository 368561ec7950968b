---------------------------- MODULE MCTimerRace ----------------------------
(***************************************************************************)
(* Few threads and timers for TLC.                                           *)
(***************************************************************************)
EXTENDS TimerRace, TLC

RaceSymmetry == Permutations(Clients) \cup Permutations(Entries)
=============================================================================
