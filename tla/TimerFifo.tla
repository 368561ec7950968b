------------------------------ MODULE TimerFifo ------------------------------
(***************************************************************************)
(* The order in which timers that are due in the same tick run.            *)
(*                                                                         *)
(* internal_add_timer says "Timers are FIFO" above its list_add_tail       *)
(* (src/timer.c, lines 353-356).  This module remembers the order in which *)
(* the clients armed their timers, and the vector each was filed in then,  *)
(* and compares with the work list.                                        *)
(***************************************************************************)
EXTENDS TimerWheel

VARIABLES
    order,  \* history: the pending timers, the first armed first
    vector  \* history: the vector a pending timer was first filed in

fifoVars == <<vars, order, vector>>

Arms(t) == \E e \in Timeouts :
              AddTimer(t, e) \/ ModTimer(t, e) \/ ModTimerPending(t, e)

VectorOf(t, lists) == CHOOSE l \in Levels :
                         \E i \in 0 .. Size(l) - 1 : t \in Range(lists[<<l, i>>])

FifoInit ==
    /\ Init
    /\ order = <<>>
    /\ vector = [t \in Timers |-> 0]

Forget(t) ==
    /\ order' = RemoveFirst(order, t)
    /\ vector' = [vector EXCEPT ![t] = 0]

FifoNext ==
    \/ \E t \in Timers :
          /\ Arms(t)
          /\ order' = Append(RemoveFirst(order, t), t)
          /\ vector' = [vector EXCEPT ![t] = VectorOf(t, list')]
    \/ \E t \in Timers : (DelTimer(t) \/ Expire(t)) /\ Forget(t)
    \/ /\ \/ Lock \/ StartTick \/ CascadeTimer \/ CascadeDone
          \/ FnReturn \/ EndRun
          \/ \E k \in Advances : Wake(k)
       /\ UNCHANGED <<order, vector>>

FifoSpec == FifoInit /\ [][FifoNext]_fifoVars

\* t is ahead of u in the sequence q.
Ahead(q, t, u) == \E i, j \in DOMAIN q : i < j /\ q[i] = t /\ q[j] = u

\* Of two timers due in the same tick and filed in the same vector, the one
\* armed first runs first, however many cascades lie between; a timer
\* overtakes only by being filed in a nearer vector.  (The comment in
\* internal_add_timer promises more: first in, first out for all timers.)  The
\* work list holds the timers of one tick in the order they run.  A timer
\* whose expiry is capped may be overtaken within tv5: it is filed again when
\* the bucket of its capped expiry comes up, behind timers armed since.
FifoPerVector ==
    \A t, u \in pending \ misfiled :
        Ahead(list[WorkList], t, u) => \/ Ahead(order, t, u)
                                       \/ vector[t] < vector[u]

\* No expiry is capped: every timer filed by its own expiry is due within
\* IDX_MAX ticks.  Where unsigned long has 32 bits this always holds.
WithinReach ==
    \A t \in pending \ misfiled : due[t] - timer_jiffies <= IDX_MAX
=============================================================================
