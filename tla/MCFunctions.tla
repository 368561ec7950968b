----------------------------- MODULE MCFunctions -----------------------------
(***************************************************************************)
(* The functions without a state, called one at a time, with words for     *)
(* TLC: all with at most two ones, and all runs of ones.                   *)
(***************************************************************************)
EXTENDS BitOps, Math64, Calendar, Delays

Sparse(N) == {{}} \cup {{i, j} : i, j \in 0..(N - 1)}

Runs(N) == {i..j : i, j \in 0..(N - 1)}

MCWords32 == Sparse(32) \cup Runs(32)

MCWords64 ==
    Sparse(32) \cup Runs(32)
    \cup {{i, j} : i \in {0, 31, 32, 62, 63}, j \in 0..63}
    \cup {i..j : i \in {0, 31, 32, 62, 63}, j \in 0..63}

\* BitInit, MathInit, CalendarInit, ConvInit and DelayInit are all this.
FunctionsInit == call = Idle

FunctionsSpec ==
    /\ FunctionsInit
    /\ [][BitNext \/ MathNext \/ CalendarNext \/ ConvNext \/ DelayNext]_call
=============================================================================
