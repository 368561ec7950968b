---------------------------- MODULE TimerService ----------------------------
(***************************************************************************)
(* What the timers of src/timer.c promise their clients: an armed timer is *)
(* run in the tick it is due, unless it is cancelled or armed anew first.  *)
(* No wheel, no lists, no worker.                                          *)
(*                                                                         *)
(* The promise has a hole.  mod_timer may file a timer under an expiry     *)
(* that is not its own; such a timer is loose, and runs in some tick.      *)
(***************************************************************************)
EXTENDS Integers

CONSTANTS
    Timers,  \* the timers of the clients
    Ticks,   \* the ticks a client may name
    LAST     \* the last tick the clock reaches

VARIABLES
    now,    \* the next tick to be processed
    armed,  \* the timers that wait
    due,    \* the tick an armed timer waits for
    loose,  \* the armed timers that are not bound to their tick
    running \* the timer whose callback runs: {} or {t}

vars == <<now, armed, due, loose, running>>

Init ==
    /\ now \in 0 .. LAST
    /\ armed = {}
    /\ due = [t \in Timers |-> 0]
    /\ loose = {}
    /\ running = {}

\* The earliest tick a client may ask for is the next one.
Set(t, d) ==
    /\ d >= now
    /\ armed' = armed \cup {t}
    /\ due' = [due EXCEPT ![t] = d]
    /\ \/ loose' = loose \ {t}
       \/ loose' = loose \cup {t}
    /\ UNCHANGED <<now, running>>

Drop(t) ==
    /\ t \in armed
    /\ armed' = armed \ {t}
    /\ due' = [due EXCEPT ![t] = 0]
    /\ loose' = loose \ {t}
    /\ UNCHANGED now

Cancel(t) == Drop(t) /\ UNCHANGED running

\* The callback of t is entered: in the tick now - 1, the one being processed,
\* and one callback at a time.
Run(t) ==
    /\ running = {}
    /\ t \notin loose => due[t] = now - 1
    /\ Drop(t)
    /\ running' = {t}

Return ==
    /\ running # {}
    /\ running' = {}
    /\ UNCHANGED <<now, armed, due, loose>>

\* Time goes on only when nobody is left behind.
Tick ==
    /\ now <= LAST
    /\ running = {}
    /\ \A t \in armed \ loose : due[t] >= now
    /\ now' = now + 1
    /\ UNCHANGED <<armed, due, loose, running>>

Next ==
    \/ Tick
    \/ Return
    \/ \E t \in Timers : Cancel(t) \/ Run(t) \/ \E d \in Ticks : Set(t, d)

Spec == Init /\ [][Next]_vars

Fairness ==
    /\ WF_vars(Tick)
    /\ WF_vars(Return)
    /\ WF_vars(\E t \in armed \ loose : Run(t))

FairSpec == Spec /\ Fairness
=============================================================================
