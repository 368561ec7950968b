----------------------------- MODULE TimerWheel -----------------------------
(***************************************************************************)
(* The timer wheel of src/timer.c: five vectors of timer lists, the client *)
(* calls that file and detach timers, and the worker thread that advances  *)
(* the wheel and runs the callbacks.                                       *)
(*                                                                         *)
(* Granularity.  timer.h (lines 115-117) makes the callers responsible for *)
(* serialisation, so a client call is one step here and never falls inside *)
(* a section the worker runs with base->lock held (Serialized).  The worker*)
(* itself takes one step per tick, per cascaded timer and per callback.    *)
(* What happens when calls do overlap is the subject of TimerRace.         *)
(***************************************************************************)
EXTENDS Integers, SequencesExt

CONSTANTS
    Timers,       \* the struct timer_list objects of the clients
    TVR_SIZE,     \* buckets of tv1            (64 in the code)
    TVN_SIZE,     \* buckets of tv2 .. tv5     (16 in the code)
    WORD,         \* 2^(bits of unsigned long), the modulus of expires
    IDX_MAX,      \* the longest timeout filed as it is (0xffffffff)
    JIFFIES_MAX,  \* where timespec_to_jiffies saturates
    Starts,       \* values of jiffies when init_timers runs
    Leftover,     \* values of ->expires before anyone has set it
    Delays,       \* a client asks for expires = jiffies + d, d \in Delays
    Advances      \* ticks the clock may gain between two wake-ups

\* A wheel has buckets.
ASSUME WheelAssumption ==
    /\ TVR_SIZE \in Nat \ {0}
    /\ TVN_SIZE \in Nat \ {0}

\* The word is wide enough for the signed comparisons (MAX_JIFFY_OFFSET is
\* (LONG_MAX >> 1) - 1) and for the vectors tv1 .. tv4, and so is IDX_MAX.
ASSUME WordAssumption ==
    /\ WORD \in Nat
    /\ IDX_MAX \in Nat
    /\ JIFFIES_MAX \in Nat
    /\ 4 * (JIFFIES_MAX + 2) <= WORD
    /\ 2 * (TVR_SIZE * TVN_SIZE * TVN_SIZE * TVN_SIZE) <= WORD
    /\ TVR_SIZE * TVN_SIZE * TVN_SIZE * TVN_SIZE <= IDX_MAX

ASSUME ClientAssumption ==
    /\ Starts \subseteq 0 .. JIFFIES_MAX
    /\ Leftover \subseteq 0 .. WORD - 1
    /\ Delays \subseteq Int
    /\ Advances \subseteq Nat

VARIABLES
    jiffies,       \* the clock, written by the worker only
    timer_jiffies, \* base->timer_jiffies, the next tick to process
    list,          \* every list_head: bucket or local list -> its timers
    worker,        \* where the worker thread is
    level,         \* the vector being cascaded, 0 when none is
    expires,       \* timer->expires
    pending,       \* the timers with entry.next # NULL
    running,       \* the timer whose callback runs: {} or {t}
    due,           \* history: the tick promised when the timer was armed
    misfiled       \* history: timers filed under an expiry not their own

vars == <<jiffies, timer_jiffies, list, worker, level, expires, pending,
          running, due, misfiled>>
-----------------------------------------------------------------------------
(***************************************************************************)
(* The shape of the wheel.                                                 *)
(***************************************************************************)
Levels == 1 .. 5

\* The ticks one bucket of a level covers.
Gran == <<1, TVR_SIZE, TVR_SIZE * TVN_SIZE, TVR_SIZE * TVN_SIZE * TVN_SIZE,
          TVR_SIZE * TVN_SIZE * TVN_SIZE * TVN_SIZE>>

Size(l) == IF l = 1 THEN TVR_SIZE ELSE TVN_SIZE

\* The bucket of level l that tick x falls into: x & TVR_MASK, INDEX(l - 2).
Index(l, x) == (x \div Gran[l]) % Size(l)

Buckets == UNION {{l} \X (0 .. Size(l) - 1) : l \in Levels}

\* The two list heads on the worker's stack.
WorkList == <<0, 0>>
TvList == <<0, 1>>

ListHeads == Buckets \cup {WorkList, TvList}

Words == 0 .. WORD - 1

\* (signed long)(a - b) >= 0
TimeAfterEq(a, b) == (a - b) % WORD < WORD \div 2

\* Mutants: a vector reaches one tick too far; a timer from the past goes into
\* the bucket of its own expiry instead of the next tick's.
BucketTooFar(e) ==
    LET idx == (e - timer_jiffies) % WORD
        near == {l \in 1 .. 4 : idx <= Gran[l] * Size(l)}
    IN  IF near # {} THEN <<Min(near), Index(Min(near), e)>>
        ELSE IF TimeAfterEq(e, timer_jiffies) THEN <<5, Index(5, e)>>
        ELSE <<1, Index(1, timer_jiffies)>>

BucketOfPast(e) ==
    LET idx == (e - timer_jiffies) % WORD
        near == {l \in 1 .. 4 : idx < Gran[l] * Size(l)}
    IN  IF near # {} THEN <<Min(near), Index(Min(near), e)>>
        ELSE IF TimeAfterEq(e, timer_jiffies) THEN <<5, Index(5, e)>>
        ELSE <<1, Index(1, e)>>

\* internal_add_timer: the bucket a timer expiring at e is filed in.  The
\* nearest vector that reaches idx takes it; a timer from the past goes into
\* the bucket of the next tick; a timer too far away is filed by IDX_MAX.
Bucket(e) ==
    LET idx == (e - timer_jiffies) % WORD
        near == {l \in 1 .. 4 : idx < Gran[l] * Size(l)}
        capped == IF idx > IDX_MAX THEN (IDX_MAX + timer_jiffies) % WORD ELSE e
    IN  IF near # {} THEN <<Min(near), Index(Min(near), e)>>
        ELSE IF TimeAfterEq(e, timer_jiffies) THEN <<5, Index(5, capped)>>
        ELSE <<1, Index(1, timer_jiffies)>>

\* The first tick still to be processed at which a timer set for e is owed.
DueTick(e) == IF TimeAfterEq(e, timer_jiffies) THEN e ELSE timer_jiffies

\* The timers linked into a list.
On(h) == Range(list[h])

\* detach_timer unlinks a timer from whatever list it is on.
Detached(t) == [h \in ListHeads |-> RemoveFirst(list[h], t)]

\* Mutant: list_add instead of list_add_tail.
LinkedFirst(ls, t, b) == [ls EXCEPT ![b] = <<t>> \o @]

Linked(ls, t, b) == [ls EXCEPT ![b] = Append(@, t)]

Init ==
    /\ jiffies \in Starts
    /\ timer_jiffies = jiffies
    /\ list = [h \in ListHeads |-> <<>>]
    /\ worker = "sleep"
    /\ level = 0
    /\ expires \in [Timers -> Leftover]
    /\ pending = {}
    /\ running = {}
    /\ due = [t \in Timers |-> 0]
    /\ misfiled = {}
-----------------------------------------------------------------------------
(***************************************************************************)
(* Client calls, from any thread or from a callback.                       *)
(***************************************************************************)
\* base->lock is free: the worker sleeps, has not locked yet, or runs a
\* callback.
Serialized == worker \in {"sleep", "woken", "fn"}

\* The values a client passes as an absolute timeout.
Timeouts == {(jiffies + d) % WORD : d \in Delays}

\* Mutant: the timer is filed without being detached first.
ArmTwice(t, filed, e) ==
    /\ list' = Linked(list, t, Bucket(filed))
    /\ pending' = pending \cup {t}
    /\ expires' = [expires EXCEPT ![t] = e]
    /\ due' = [due EXCEPT ![t] = DueTick(e)]
    /\ misfiled' = IF Bucket(filed) = Bucket(e) THEN misfiled \ {t}
                                                ELSE misfiled \cup {t}
    /\ UNCHANGED <<jiffies, timer_jiffies, worker, level, running>>

\* __mod_timer: the timer leaves its list and is filed by `filed`, the
\* value ->expires has when internal_add_timer reads it; ->expires becomes e.
Arm(t, filed, e) ==
    /\ list' = Linked(Detached(t), t, Bucket(filed))
    /\ pending' = pending \cup {t}
    /\ expires' = [expires EXCEPT ![t] = e]
    /\ due' = [due EXCEPT ![t] = DueTick(e)]
    /\ misfiled' = IF Bucket(filed) = Bucket(e) THEN misfiled \ {t}
                                                ELSE misfiled \cup {t}
    /\ UNCHANGED <<jiffies, timer_jiffies, worker, level, running>>

\* The timer leaves its list for good; its callback will not run.
Disarm(t) ==
    /\ list' = Detached(t)
    /\ pending' = pending \ {t}
    /\ due' = [due EXCEPT ![t] = 0]
    /\ misfiled' = misfiled \ {t}

\* The client sets ->expires and calls add_timer, which asserts that the
\* timer is not pending.
AddTimer(t, e) ==
    /\ Serialized
    /\ t \notin pending
    /\ Arm(t, e, e)

\* mod_timer returns at once when the timer is pending for e already.
ModTimer(t, e) ==
    /\ Serialized
    /\ ~ (t \in pending /\ expires[t] = e)
    /\ Arm(t, expires[t], e)

\* mod_timer_pending leaves a timer that is not pending alone.
ModTimerPending(t, e) ==
    /\ Serialized
    /\ t \in pending
    /\ Arm(t, expires[t], e)

DelTimer(t) ==
    /\ Serialized
    /\ t \in pending
    /\ Disarm(t)
    /\ UNCHANGED <<jiffies, timer_jiffies, worker, level, expires, running>>

Client ==
    \E t \in Timers :
        \/ DelTimer(t)
        \/ \E e \in Timeouts :
              AddTimer(t, e) \/ ModTimer(t, e) \/ ModTimerPending(t, e)
-----------------------------------------------------------------------------
(***************************************************************************)
(* The worker thread.                                                      *)
(***************************************************************************)
\* Mutants: the conversion to jiffies does not saturate; the worker sleeps
\* but does not bring jiffies up to date.
WakeUnbounded(k) ==
    /\ worker = "sleep"
    /\ jiffies' = jiffies + k
    /\ worker' = "woken"
    /\ UNCHANGED <<timer_jiffies, list, level, expires, pending, running, due,
                   misfiled>>

WakeStale(k) ==
    /\ worker = "sleep"
    /\ worker' = "woken"
    /\ UNCHANGED <<jiffies, timer_jiffies, list, level, expires, pending,
                   running, due, misfiled>>

\* jiffies_worker reads the clock; the conversion to jiffies saturates.
Wake(k) ==
    /\ worker = "sleep"
    /\ jiffies' = IF jiffies + k <= JIFFIES_MAX THEN jiffies + k
                                                ELSE JIFFIES_MAX
    /\ worker' = "woken"
    /\ UNCHANGED <<timer_jiffies, list, level, expires, pending, running, due,
                   misfiled>>

\* __run_timers takes base->lock.
Lock ==
    /\ worker = "woken"
    /\ worker' = "run"
    /\ UNCHANGED <<jiffies, timer_jiffies, list, level, expires, pending,
                   running, due, misfiled>>

\* list_replace_init(from, to): `to` takes the timers over.
Moved(from, to) == [list EXCEPT ![to] = list[from], ![from] = <<>>]

\* cascade, first half: the bucket of level l at the current tick becomes
\* tv_list.
BeginCascade(l) ==
    /\ list' = Moved(<<l, Index(l, timer_jiffies)>>, TvList)
    /\ level' = l
    /\ worker' = "cascade"
    /\ UNCHANGED timer_jiffies

\* Mutant: timer_jiffies is not incremented.
OpenTickAgain ==
    /\ list' = Moved(<<1, Index(1, timer_jiffies)>>, WorkList)
    /\ level' = 0
    /\ worker' = "run"
    /\ UNCHANGED timer_jiffies

\* The tick's bucket of tv1 becomes the work list.
OpenTick ==
    /\ list' = Moved(<<1, Index(1, timer_jiffies)>>, WorkList)
    /\ timer_jiffies' = timer_jiffies + 1
    /\ level' = 0
    /\ worker' = "run"

\* The next round of the loop of __run_timers.
StartTick ==
    /\ worker = "run"
    /\ list[WorkList] = <<>>
    /\ TimeAfterEq(jiffies, timer_jiffies)
    /\ IF Index(1, timer_jiffies) = 0 THEN BeginCascade(2) ELSE OpenTick
    /\ UNCHANGED <<jiffies, expires, pending, running, due, misfiled>>

\* cascade, second half: the first timer of tv_list is filed again.
CascadeTimer ==
    /\ worker = "cascade"
    /\ list[TvList] # <<>>
    /\ LET t == Head(list[TvList])
       IN  list' = Linked([list EXCEPT ![TvList] = Tail(@)], t,
                          Bucket(expires[t]))
    /\ UNCHANGED <<jiffies, timer_jiffies, worker, level, expires, pending,
                   running, due, misfiled>>

\* Mutant: the vectors beyond tv2 are never cascaded.
CascadeOnce ==
    /\ worker = "cascade"
    /\ list[TvList] = <<>>
    /\ OpenTick
    /\ UNCHANGED <<jiffies, expires, pending, running, due, misfiled>>

\* A cascade that emptied bucket 0 of its vector goes on with the next.
CascadeDone ==
    /\ worker = "cascade"
    /\ list[TvList] = <<>>
    /\ IF level < 5 /\ Index(level, timer_jiffies) = 0
       THEN BeginCascade(level + 1)
       ELSE OpenTick
    /\ UNCHANGED <<jiffies, expires, pending, running, due, misfiled>>

\* The first timer of the work list is detached and its callback entered,
\* with the lock released.
Expire(t) ==
    /\ worker = "run"
    /\ list[WorkList] # <<>>
    /\ t = Head(list[WorkList])
    /\ Disarm(t)
    /\ worker' = "fn"
    /\ running' = {t}
    /\ UNCHANGED <<jiffies, timer_jiffies, level, expires>>

\* The callback returns and the worker locks again.
FnReturn ==
    /\ worker = "fn"
    /\ worker' = "run"
    /\ running' = {}
    /\ UNCHANGED <<jiffies, timer_jiffies, list, level, expires, pending, due,
                   misfiled>>

\* __run_timers has caught up with the clock; the worker goes to usleep.
EndRun ==
    /\ worker = "run"
    /\ list[WorkList] = <<>>
    /\ ~ TimeAfterEq(jiffies, timer_jiffies)
    /\ worker' = "sleep"
    /\ UNCHANGED <<jiffies, timer_jiffies, list, level, expires, pending,
                   running, due, misfiled>>

RunTimers ==
    \/ Lock
    \/ StartTick
    \/ CascadeTimer
    \/ CascadeDone
    \/ \E t \in Timers : Expire(t)
    \/ FnReturn
    \/ EndRun

Next == Client \/ RunTimers \/ \E k \in Advances : Wake(k)

Spec == Init /\ [][Next]_vars

\* The worker thread keeps running and callbacks return; usleep(10 ms) is
\* one tick at HZ = 100, so the clock gains on every sleep that no signal
\* cuts short.  Clients owe nothing.
Fairness ==
    /\ WF_vars(RunTimers)
    /\ WF_vars(\E k \in Advances : Wake(k))
    /\ SF_vars(\E k \in Advances : k > 0 /\ Wake(k))

FairSpec == Spec /\ Fairness
-----------------------------------------------------------------------------
(***************************************************************************)
(* Properties.                                                             *)
(***************************************************************************)
\* The type invariant of the wheel's variables.
TypeOK ==
    /\ jiffies \in 0 .. JIFFIES_MAX
    /\ timer_jiffies \in 0 .. JIFFIES_MAX + 1
    /\ list \in [ListHeads -> Seq(Timers)]
    /\ worker \in {"sleep", "woken", "run", "cascade", "fn"}
    /\ level \in {0} \cup 2 .. 5
    /\ expires \in [Timers -> Words]
    /\ pending \subseteq Timers
    /\ running \subseteq Timers
    /\ due \in [Timers -> Words]
    /\ misfiled \subseteq pending

\* Structure of the wheel: timer_pending tells the truth.  A pending timer is
\* linked into exactly one list at exactly one place and an idle one into
\* none, through every filing, cascade, expiry and detach; and the worker's
\* local lists are in use only while it is in the code that owns them.
OnePlaceEach ==
    /\ \A h \in ListHeads : IsInjective(list[h])
    /\ \A h, g \in ListHeads : h # g => On(h) \cap On(g) = {}
    /\ pending = {t \in Timers : \E h \in ListHeads : t \in On(h)}
    /\ worker # "cascade" => list[TvList] = <<>>
    /\ worker \notin {"run", "fn"} => list[WorkList] = <<>>

\* The time a timer has: it is on the work list in the tick it was promised
\* for, and anywhere else only while that tick is still to come.
InTime(t) == IF t \in On(WorkList) THEN due[t] = timer_jiffies - 1
                                   ELSE due[t] >= timer_jiffies

\* internal_add_timer, cascade and __run_timers together: a timer filed by
\* its own expiry is never run early and never late.
OnTime == \A t \in pending \ misfiled : InTime(t)

\* mod_timer's comment: mod_timer(timer, expires) is equivalent to
\* del_timer, setting ->expires and add_timer.  Then every pending timer,
\* however it was armed, is on time.
ModTimerOnTime == \A t \in pending : InTime(t)

\* Why timers are on time.  A timer in tv1 is due within one turn of tv1, in
\* the tick of its bucket.  A timer in an outer bucket is due no earlier than
\* the tick, not yet past, at which some block k sends that bucket down; while
\* a cascade is at or beyond its level, that tick is not the current one.
Placed(t, l, i) ==
    IF l = 1
    THEN /\ due[t] % TVR_SIZE = i
         /\ due[t] \in timer_jiffies .. timer_jiffies + TVR_SIZE - 1
    ELSE /\ due[t] = expires[t]
         /\ due[t] < timer_jiffies + WORD \div 2
         /\ \E k \in 0 .. due[t] :
               /\ k % TVN_SIZE = i
               /\ timer_jiffies <= k * Gran[l]
               /\ k * Gran[l] <= due[t]
               /\ level >= l => timer_jiffies # k * Gran[l]

\* The inductive strengthening of OnTime.
Placement ==
    /\ \A b \in Buckets : \A t \in On(b) \ misfiled : Placed(t, b[1], b[2])
    /\ \A t \in On(TvList) \ misfiled :
          /\ due[t] = expires[t]
          /\ due[t] \in timer_jiffies .. timer_jiffies + WORD \div 2 - 1
    /\ \A t \in On(WorkList) \ misfiled : due[t] = timer_jiffies - 1

\* The worker's place in the code agrees with the level being cascaded, and
\* it processes no tick that the clock has not reached.
WorkerShape ==
    /\ worker = "cascade" <=> level # 0
    /\ worker = "cascade" => timer_jiffies <= jiffies
    /\ worker = "fn" <=> running # {}

\* The inductive invariant behind the theorems of TimerWheelProofs.
IInv == TypeOK /\ OnePlaceEach /\ WorkerShape /\ Placement

\* __run_timers terminates: whatever callbacks and clients arm meanwhile,
\* the worker gets back to sleep.
WorkerRests == []<>(worker = "sleep")

-----------------------------------------------------------------------------
(***************************************************************************)
(* The wheel implements the timer service.                                 *)
(***************************************************************************)
Service == INSTANCE TimerService WITH
    Ticks <- Words, LAST <- JIFFIES_MAX,
    now <- timer_jiffies, armed <- pending, loose <- misfiled

\* Safety: no timer filed by its own expiry is passed over by the tick it is
\* due in, or run in another one, whatever the cascades did to it before.
ImplementsService == Service!Spec

\* Liveness: the wheel keeps turning as long as the clock does, and a timer
\* that is due is run, deleted or armed anew; none is forgotten in an outer
\* vector.
ServesTimers == Service!Fairness
=============================================================================
