----------------------------- MODULE TimerRace -----------------------------
(***************************************************************************)
(* Client threads and the worker thread of src/timer.c on the same lists,  *)
(* one pointer assignment at a time.                                       *)
(*                                                                         *)
(* lock_timer_base does not lock, so nothing keeps a call of mod_timer or  *)
(* del_timer out of the section that __run_timers runs under base->lock,   *)
(* nor out of another call; and each call ends with the spin_unlock that   *)
(* would belong to it.  A step of a thread reads the pointers its next     *)
(* list operation needs and queues the assignments; they then reach the    *)
(* memory one by one, between those of the other threads.                  *)
(*                                                                         *)
(* TimerWheel takes a list for a sequence and timer_pending for membership *)
(* in it; here seq is that sequence and the pointers have to live up to    *)
(* it: detach_timer does not always clear entry.next, and cascade walks a  *)
(* list whose entries it links elsewhere without unlinking them.  Ticks    *)
(* and expiry times are left out: a timer may be filed in any bucket, and  *)
(* the worker may cascade or open any bucket at any time.                  *)
(***************************************************************************)
EXTENDS KernelList

CONSTANTS
    Clients,           \* the threads that call the timer API
    Worker,            \* the thread of jiffies_worker
    Calls,             \* what is called: "mod", "mod_pending", "del"
    WorkList, TvList   \* the list heads on the worker's stack

ASSUME ThreadsAssumption ==
    /\ Worker \notin Clients
    /\ Calls \subseteq {"mod", "mod_pending", "del"}
    /\ WorkList # TvList /\ {WorkList, TvList} \subseteq Heads

VARIABLES
    pc,       \* where each thread is
    call,     \* the API function it is in
    timer,    \* its local variable `timer`
    tmp,      \* cascade's look-ahead
    taken,    \* the bucket and the head that list_replace_init works on
    stores,   \* the assignments it is about to make
    locked,   \* base->lock
    fault,    \* a pointer was followed that does not point to a list node
    gone      \* history: timers that del_timer has deactivated for good

raceVars == <<vars, pc, call, timer, tmp, taken, stores, locked, fault, gone>>

Threads == Clients \cup {Worker}
Timers == Entries
Buckets == Heads \ {WorkList, TvList}

timer_pending(t) == mem.next[t] # NULL
-----------------------------------------------------------------------------
(***************************************************************************)
(* The assignments of the list operations, in the order of the code, with  *)
(* the values the thread has read.                                         *)
(***************************************************************************)
Assign(field, node, value) == [field |-> field, node |-> node, value |-> value]

\* Mutant: the last assignment of __list_add is missing.
AddTailHalf(t, head) ==
    << Assign("prev", head, t), Assign("next", t, head),
       Assign("prev", t, mem.prev[head]) >>

\* list_add_tail(&timer->entry, head)
AddTail(t, head) ==
    << Assign("prev", head, t), Assign("next", t, head),
       Assign("prev", t, mem.prev[head]), Assign("next", mem.prev[head], t) >>

\* Mutant: entry.next is kept when it should be cleared.
DetachKeep(t, clear_pending) ==
    << Assign("prev", mem.next[t], mem.prev[t]),
       Assign("next", mem.prev[t], mem.next[t]),
       Assign("prev", t, LIST_POISON2) >>

\* Mutant: the poison goes to next.
DetachSwapped(t, clear_pending) ==
    << Assign("prev", mem.next[t], mem.prev[t]),
       Assign("next", mem.prev[t], mem.next[t]) >>
    \o (IF clear_pending THEN << Assign("prev", t, NULL) >> ELSE << >>)
    \o << Assign("next", t, LIST_POISON2) >>

\* detach_timer(timer, clear_pending)
Detach(t, clear_pending) ==
    << Assign("prev", mem.next[t], mem.prev[t]),
       Assign("next", mem.prev[t], mem.next[t]) >>
    \o (IF clear_pending THEN << Assign("next", t, NULL) >> ELSE << >>)
    \o << Assign("prev", t, LIST_POISON2) >>

\* list_replace_init(old, new), up to the assignment of new->next->prev,
\* which may be the old->prev that the rest reads.
ReplaceNext(old, new) ==
    << Assign("next", new, mem.next[old]), Assign("prev", mem.next[old], new) >>

ReplacePrev(old, new) ==
    << Assign("prev", new, mem.prev[old]), Assign("next", mem.prev[old], new),
       Assign("next", old, old), Assign("prev", old, old) >>

At(th, label) == ~ fault /\ pc[th] = label /\ stores[th] = << >>

Goto(th, label) == pc' = [pc EXCEPT ![th] = label]

Queue(th, assignments) == stores' = [stores EXCEPT ![th] = assignments]

\* Where a thread is when it is in no API call.
Outside(th) == IF th = Worker THEN "fn" ELSE "idle"

RaceInit ==
    /\ mem = [next |-> [n \in Nodes |-> IF n \in Buckets THEN n ELSE NULL],
              prev |-> [n \in Nodes |-> IF n \in Buckets THEN n ELSE NULL]]
    /\ seq = [h \in Heads |-> << >>]
    /\ live = Buckets
    /\ pc = [th \in Threads |-> IF th = Worker THEN "sleep" ELSE "idle"]
    /\ call = [th \in Threads |-> "none"]
    /\ timer = [th \in Threads |-> NULL]
    /\ tmp = NULL
    /\ taken = << >>
    /\ stores = [th \in Threads |-> << >>]
    /\ locked = FALSE
    /\ fault = FALSE
    /\ gone = {}

\* The next assignment reaches the memory.
Store(th) ==
    /\ ~ fault
    /\ stores[th] # << >>
    /\ LET a == Head(stores[th])
       IN  IF a.node \in Nodes
           THEN /\ mem' = [mem EXCEPT ![a.field][a.node] = a.value]
                /\ stores' = [stores EXCEPT ![th] = Tail(@)]
                /\ UNCHANGED fault
           ELSE fault' = TRUE /\ UNCHANGED <<mem, stores>>
    /\ UNCHANGED <<seq, live, pc, call, timer, tmp, taken, locked, gone>>
-----------------------------------------------------------------------------
(***************************************************************************)
(* The API, called by a client thread or by the worker from a callback.    *)
(* Calls that return before lock_timer_base change nothing and are no      *)
(* steps; lock_timer_base itself changes nothing either.                   *)
(***************************************************************************)
\* The entry of __mod_timer or del_timer.  add_timer and mod_timer always
\* file the timer; del_timer has seen it pending.
Enter(th, f, t) ==
    /\ At(th, Outside(th))
    /\ f = "del" => timer_pending(t)
    /\ Goto(th, "check")
    /\ call' = [call EXCEPT ![th] = f]
    /\ timer' = [timer EXCEPT ![th] = t]
    /\ gone' = IF f = "mod" THEN gone \ {t} ELSE gone
    /\ UNCHANGED <<vars, tmp, taken, stores, locked, fault>>

\* A call under way that may arm t again.
BeingArmed(t) == \E th \in Threads : call[th] = "mod" /\ timer[th] = t

\* Mutants: the timer is detached without being pending; mod_timer_pending
\* files a timer that was not.
CheckNothing(th) ==
    LET t == timer[th]
    IN  /\ At(th, "check")
        /\ Queue(th, Detach(t, call[th] = "del"))
        /\ Goto(th, IF call[th] = "del" THEN "leave" ELSE "file")
        /\ seq' = Without(t)
        /\ gone' = IF call[th] = "del" /\ ~ BeingArmed(t) THEN gone \cup {t}
                                                         ELSE gone
        /\ UNCHANGED <<mem, live, call, timer, tmp, taken, locked, fault>>

CheckReviving(th) ==
    LET t == timer[th]
        del == call[th] = "del"
    IN  /\ At(th, "check")
        /\ IF timer_pending(t)
           THEN /\ Queue(th, Detach(t, del))
                /\ Goto(th, IF del THEN "leave" ELSE "file")
                /\ seq' = Without(t)
                /\ gone' = IF del /\ ~ BeingArmed(t) THEN gone \cup {t} ELSE gone
           ELSE /\ Goto(th, IF call[th] = "del" THEN "leave" ELSE "file")
                /\ UNCHANGED <<stores, seq, gone>>
        /\ UNCHANGED <<mem, live, call, timer, tmp, taken, locked, fault>>

\* timer_pending, again, and detach_timer.  A timer that is not pending is
\* filed by mod_timer and left alone by the others.
Check(th) ==
    LET t == timer[th]
        del == call[th] = "del"
    IN  /\ At(th, "check")
        /\ IF timer_pending(t)
           THEN /\ Queue(th, Detach(t, del))
                /\ Goto(th, IF del THEN "leave" ELSE "file")
                /\ seq' = Without(t)
                /\ gone' = IF del /\ ~ BeingArmed(t) THEN gone \cup {t} ELSE gone
           ELSE /\ Goto(th, IF call[th] = "mod" THEN "file" ELSE "leave")
                /\ UNCHANGED <<stores, seq, gone>>
        /\ UNCHANGED <<mem, live, call, timer, tmp, taken, locked, fault>>

\* internal_add_timer
File(th, b) ==
    /\ At(th, "file")
    /\ Queue(th, AddTail(timer[th], b))
    /\ Goto(th, "leave")
    /\ seq' = [seq EXCEPT ![b] = Append(@, timer[th])]
    /\ UNCHANGED <<mem, live, call, timer, tmp, taken, locked, fault, gone>>

\* spin_unlock, whoever holds the lock.
Leave(th) ==
    /\ At(th, "leave")
    /\ Goto(th, Outside(th))
    /\ locked' = FALSE
    /\ call' = [call EXCEPT ![th] = "none"]
    /\ timer' = [timer EXCEPT ![th] = NULL]
    /\ UNCHANGED <<vars, tmp, taken, stores, fault, gone>>
-----------------------------------------------------------------------------
(***************************************************************************)
(* The worker.                                                             *)
(***************************************************************************)
\* jiffies_worker calls __run_timers.
Wake ==
    /\ At(Worker, "sleep")
    /\ Goto(Worker, "lock")
    /\ UNCHANGED <<vars, call, timer, tmp, taken, stores, locked, fault, gone>>

\* spin_lock_irq, on entry and after a callback.
Lock ==
    /\ \/ At(Worker, "lock") /\ Goto(Worker, "loop")
       \/ At(Worker, "relock") /\ Goto(Worker, "next")
    /\ ~ locked
    /\ locked' = TRUE
    /\ UNCHANGED <<vars, call, timer, tmp, taken, stores, fault, gone>>

\* list_replace_init of a bucket, by cascade into tv_list or by __run_timers
\* into work_list.
Take(b, head) ==
    /\ At(Worker, "loop")
    /\ Goto(Worker, "take")
    /\ taken' = <<b, head>>
    /\ Queue(Worker, ReplaceNext(b, head))
    /\ UNCHANGED <<vars, call, timer, tmp, locked, fault, gone>>

TakeRest ==
    LET b == taken[1]
        head == taken[2]
    IN  /\ At(Worker, "take")
        /\ Goto(Worker, IF head = TvList THEN "walk" ELSE "next")
        /\ taken' = << >>
        /\ Queue(Worker, ReplacePrev(b, head))
        /\ seq' = [seq EXCEPT ![head] = seq[b], ![b] = << >>]
        /\ live' = IF head = WorkList THEN live \cup {head} ELSE live
        /\ UNCHANGED <<mem, call, timer, tmp, locked, fault, gone>>

\* The cursor of list_for_each_entry_safe goes to `at`.
GoOn(at) ==
    IF at \in Nodes
    THEN /\ timer' = [timer EXCEPT ![Worker] = at]
         /\ tmp' = mem.next[at]
         /\ Goto(Worker, "cascade")
         /\ UNCHANGED fault
    ELSE fault' = TRUE /\ UNCHANGED <<timer, tmp, pc>>

Walk ==
    /\ At(Worker, "walk")
    /\ GoOn(mem.next[TvList])
    /\ UNCHANGED <<vars, call, taken, stores, locked, gone>>

\* The body of the loop: the timer is filed again.  A cursor on another list
\* head takes that for a timer.
Cascade(b) ==
    LET t == timer[Worker]
    IN  /\ At(Worker, "cascade")
        /\ t # TvList
        /\ IF t \in Timers
           THEN /\ Queue(Worker, AddTail(t, b))
                /\ seq' = [Without(t) EXCEPT ![b] = Append(@, t)]
                /\ Goto(Worker, "step")
                /\ UNCHANGED fault
           ELSE fault' = TRUE /\ UNCHANGED <<stores, seq, pc>>
        /\ UNCHANGED <<mem, live, call, timer, tmp, taken, locked, gone>>

\* Mutant: list_for_each_entry, which follows the timer's own next pointer.
StepUnsafe ==
    /\ At(Worker, "step")
    /\ GoOn(mem.next[timer[Worker]])
    /\ UNCHANGED <<vars, call, taken, stores, locked, gone>>

Step ==
    /\ At(Worker, "step")
    /\ GoOn(tmp)
    /\ UNCHANGED <<vars, call, taken, stores, locked, gone>>

CascadeDone ==
    /\ At(Worker, "cascade")
    /\ timer[Worker] = TvList
    /\ Goto(Worker, "loop")
    /\ timer' = [timer EXCEPT ![Worker] = NULL]
    /\ tmp' = NULL
    /\ UNCHANGED <<vars, call, taken, stores, locked, fault, gone>>

\* The next timer of the work list is detached.
Expire ==
    LET t == mem.next[WorkList]
    IN  /\ At(Worker, "next")
        /\ t # WorkList
        /\ IF t \in Timers
           THEN /\ Queue(Worker, Detach(t, TRUE))
                /\ timer' = [timer EXCEPT ![Worker] = t]
                /\ seq' = Without(t)
                /\ Goto(Worker, "release")
                /\ UNCHANGED fault
           ELSE fault' = TRUE /\ UNCHANGED <<stores, timer, seq, pc>>
        /\ UNCHANGED <<mem, live, call, tmp, taken, locked, gone>>

\* The work list is empty; its head goes out of scope.
TickDone ==
    /\ At(Worker, "next")
    /\ mem.next[WorkList] = WorkList
    /\ live' = live \ {WorkList}
    /\ Goto(Worker, "loop")
    /\ UNCHANGED <<mem, seq, call, timer, tmp, taken, stores, locked, fault, gone>>

\* Mutant: the lock is kept for the callback.
CallFnLocked ==
    /\ At(Worker, "release")
    /\ timer' = [timer EXCEPT ![Worker] = NULL]
    /\ Goto(Worker, "fn")
    /\ UNCHANGED <<vars, call, tmp, taken, stores, locked, fault, gone>>

\* The lock is released and the callback entered.
CallFn ==
    /\ At(Worker, "release")
    /\ locked' = FALSE
    /\ timer' = [timer EXCEPT ![Worker] = NULL]
    /\ Goto(Worker, "fn")
    /\ UNCHANGED <<vars, call, tmp, taken, stores, fault, gone>>

FnReturn ==
    /\ At(Worker, "fn")
    /\ Goto(Worker, "relock")
    /\ UNCHANGED <<vars, call, timer, tmp, taken, stores, locked, fault, gone>>

\* __run_timers has caught up and unlocks.
EndRun ==
    /\ At(Worker, "loop")
    /\ locked' = FALSE
    /\ Goto(Worker, "sleep")
    /\ UNCHANGED <<vars, call, timer, tmp, taken, stores, fault, gone>>

RunTimers ==
    \/ Wake \/ Lock
    \/ \E b \in Buckets, head \in {WorkList, TvList} : Take(b, head)
    \/ TakeRest
    \/ Walk \/ Step \/ CascadeDone
    \/ \E b \in Buckets : Cascade(b)
    \/ Expire \/ TickDone \/ CallFn \/ FnReturn \/ EndRun

RaceNext ==
    \/ \E th \in Threads :
          \/ Store(th)
          \/ Check(th)
          \/ Leave(th)
          \/ \E b \in Buckets : File(th, b)
          \/ \E f \in Calls, t \in Timers : Enter(th, f, t)
    \/ RunTimers

RaceSpec == RaceInit /\ [][RaceNext]_raceVars
-----------------------------------------------------------------------------
(***************************************************************************)
(* What would be enough: threads that keep apart.                          *)
(***************************************************************************)
\* The nodes a thread has read or is about to write and has not finished
\* with: the ends of its queued assignments, the timer a call is about to
\* file, the two lists of list_replace_init with the entries next to their
\* heads, and what the cascade's cursor and look-ahead point at.
Relied(th) ==
    LET queued == UNION {{stores[th][i].node, stores[th][i].value}
                            : i \in DOMAIN stores[th]}
        called == IF pc[th] = "file" THEN {timer[th]} ELSE {}
        replaced == IF th = Worker /\ pc[th] = "take"
                    THEN Range(taken)
                         \cup {mem.next[taken[2]], mem.prev[taken[1]]}
                    ELSE {}
        walked == IF th = Worker /\ pc[th] \in {"walk", "cascade", "step"}
                  THEN {TvList, timer[th], tmp, mem.next[TvList]} ELSE {}
    IN  Nodes \cap (queued \cup called \cup replaced \cup walked)

\* No two threads rely on one node.
Apart == \A th, other \in Threads :
             th # other => Relied(th) \cap Relied(other) = {}

\* The threads as they are, but never two of them at one node.
ApartSpec == RaceInit /\ [][RaceNext /\ Apart']_raceVars
-----------------------------------------------------------------------------
(***************************************************************************)
(* Properties.                                                             *)
(***************************************************************************)
Labels == {"idle", "check", "file", "leave", "sleep", "lock", "loop", "take",
           "walk", "cascade", "step", "next", "release", "fn", "relock"}

AtRest(nodes) == \A th \in Threads : Relied(th) \cap nodes = {}

\* The type invariant of the threads and of the memory they share.
RaceTypeOK ==
    /\ mem \in [next : [Nodes -> Nodes \cup {NULL}],
                prev : [Nodes -> Nodes \cup {NULL, LIST_POISON2}]]
    /\ pc \in [Threads -> Labels]
    /\ call \in [Threads -> {"none"} \cup Calls]
    /\ timer \in [Threads -> Nodes \cup {NULL}]
    /\ tmp \in Nodes \cup {NULL}
    /\ locked \in BOOLEAN
    /\ gone \subseteq Timers

\* base->lock never makes anybody wait: whenever the worker goes to take it,
\* on entry to __run_timers or after a callback, it is free, since nobody
\* else takes it and every call releases it.
LockExcludesNobody == pc[Worker] \in {"lock", "relock"} => ~ locked

\* No thread writes through NULL or LIST_POISON2, or takes a list head for a
\* timer.
NoFault == ~ fault

\* A list no thread is working on is a ring with the timers the calls have
\* put there, in the order of the calls, although the assignments of calls
\* on neighbouring lists, and of the worker, were mixed.
RingsAtRest ==
    \A h \in live : AtRest({h} \cup Range(seq[h])) => IsRing(mem, h, seq[h])

\* timer_pending tells whether a timer nobody is working on is on a list.
PendingAtRest ==
    \A t \in Timers : AtRest({t}) =>
        (timer_pending(t) <=> \E h \in Heads : t \in Range(seq[h]))

\* A timer that del_timer has deactivated, with no call that arms it under
\* way or following, stays off every list, so its callback is not entered by
\* a later expiry.
GoneIsGone == \A t \in gone : AtRest({t}) => ~ timer_pending(t)

\* cascade reaches every timer of the bucket once, although it links them
\* elsewhere without unlinking them and other calls come in between: the
\* cursor is the first timer left on tv_list, or its head, the look-ahead the
\* next, and the pointers lead from there through all that are left.
CascadeReachesAll ==
    LET left == seq[TvList] \o <<TvList>>
        ahead == [cascade |-> <<timer[Worker], tmp>>, step |-> <<tmp>>]
    IN  /\ pc[Worker] \in DOMAIN ahead
        /\ \A c \in Clients : Relied(c) \cap Range(left) = {}
        => /\ \A i \in DOMAIN ahead[pc[Worker]] \cap DOMAIN left :
                ahead[pc[Worker]][i] = left[i]
           /\ \A i \in 1 .. Len(left) - 1 : mem.next[left[i]] = left[i + 1]

\* The mixed assignments keep the lists at rest, and the types.
RaceInv == RaceTypeOK /\ RingsAtRest
=============================================================================
