----------------------------- MODULE TimerClock -----------------------------
(***************************************************************************)
(* How the timers of src/timer.c start and how they keep the time: the     *)
(* steps of init_timers, the loop of jiffies_worker, and clients that read *)
(* jiffies, which the worker alone brings up to date, between its sleeps.  *)
(*                                                                         *)
(* Time is counted in units, UNITS of them in a tick.  The wheel is what   *)
(* TimerWheel shows it to be: a timer runs in the tick it is due in.       *)
(* Uptimes whose product wraps in timespec_to_jiffies, 174 years for a     *)
(* long of 64 bits, are left out.                                          *)
(*                                                                         *)
(* Scheduling.  A thread may be late, by LATE units at most from the step  *)
(* that woke it to its next sleep, callbacks included.  This is assumed of *)
(* the system and the clients; no code asks for it.                        *)
(***************************************************************************)
EXTENDS Integers, FiniteSets

CONSTANTS
    Callers,          \* threads that call init_timers, each once
    Timers,           \* timers, each with a client of its own
    UNITS,            \* units of time in a tick
    LATE,             \* how late a thread may be
    Waits,            \* a client asks for expires = jiffies + n, n \in Waits
    INITIAL_JIFFIES,  \* jiffies before init_timers
    MAX_TICKS,        \* the ticks of MAX_SEC_IN_JIFFIES seconds, and no more
    END               \* the last unit of time TLC looks at

ASSUME ClockAssumption ==
    /\ UNITS \in Nat \ {0} /\ LATE \in Nat /\ END \in Nat /\ UNITS <= END
    /\ Waits \subseteq Nat
    /\ INITIAL_JIFFIES \in Nat /\ INITIAL_JIFFIES > END
    /\ MAX_TICKS \in Nat

VARIABLES
    now,            \* CLOCK_BOOTTIME
    ti,             \* the static struct timespec
    jiffies,
    timer_jiffies,
    start,          \* how many steps of init_timers a caller has done
    worker,         \* where the worker is that a caller has created
    work,           \* the timers on its work_list
    locked,         \* base->lock
    by,             \* when a thread has to go on, at the latest
    due,            \* the tick a timer is filed for, or one of the three below
    asked           \* history: what a client wants of its timer

clockVars == <<now, ti, jiffies, timer_jiffies, start, worker, work, locked, by,
               due, asked>>

Idle == -1
Counted == -2   \* its client has read jiffies
Lost == -3      \* pending, and in no list of the wheel

\* What a client counted with, and when it read jiffies and added the timer.
Nothing == [expires |-> 0, wait |-> 0, at |-> 0, since |-> 0]
-----------------------------------------------------------------------------
\* Mutant: what is left of a tick does not count.
time_to_jiffies_down(time) ==
    IF time >= MAX_TICKS * UNITS THEN MAX_TICKS ELSE time \div UNITS

\* timespec_to_jiffies rounds up, and from MAX_SEC_IN_JIFFIES seconds on it
\* gives their ticks.
time_to_jiffies(time) ==
    IF time >= MAX_TICKS * UNITS THEN MAX_TICKS ELSE (time + UNITS - 1) \div UNITS

\* What init_timers does, in its order.
\* Mutant: the wheel first, then the clock.
StepsWheelFirst == <<"read", "wheel", "set", "create">>
Steps == <<"read", "set", "wheel", "create">>

Returned(c) == start[c] = 4

Ready == \E c \in Callers : Returned(c)

ClockInit ==
    /\ now \in 0 .. UNITS - 1
    /\ ti = 0
    /\ jiffies = INITIAL_JIFFIES
    /\ timer_jiffies = 0
    /\ start = [c \in Callers |-> 0]
    /\ worker = [c \in Callers |-> "none"]
    /\ work = [c \in Callers |-> {}]
    /\ locked = FALSE
    /\ by = [c \in Callers |-> END]
    /\ due = [t \in Timers |-> Idle]
    /\ asked = [t \in Timers |-> Nothing]

\* Time passes unless a thread would be late.
Pass ==
    /\ now < END
    /\ \A c \in Callers : now < by[c]
    /\ now' = now + 1
    /\ UNCHANGED <<ti, jiffies, timer_jiffies, start, worker, work, locked, by,
                   due, asked>>
-----------------------------------------------------------------------------
\* The next step of init_timers.
InitStep(c, step) ==
    /\ start[c] < 4 /\ Steps[start[c] + 1] = step
    /\ start' = [start EXCEPT ![c] = @ + 1]

\* BUG_ON(initialized) lets every caller in: nothing sets it.
InitRead(c) ==
    /\ InitStep(c, "read")
    /\ ti' = now
    /\ by' = [by EXCEPT ![c] = now + LATE]
    /\ UNCHANGED <<now, jiffies, timer_jiffies, worker, work, locked, due, asked>>

InitSet(c) ==
    /\ InitStep(c, "set")
    /\ jiffies' = time_to_jiffies(ti)
    /\ UNCHANGED <<now, ti, timer_jiffies, worker, work, locked, by, due, asked>>

\* The timers on somebody's work_list: no list of the wheel.
OnWork == UNION {work[c] : c \in Callers}

\* init_timers_uki: the lock and the lists are made anew.
InitWheel(c) ==
    /\ InitStep(c, "wheel")
    /\ locked' = FALSE
    /\ timer_jiffies' = jiffies
    /\ due' = [t \in Timers |->
                 IF due[t] \in {Idle, Counted} \/ t \in OnWork THEN due[t] ELSE Lost]
    /\ UNCHANGED <<now, ti, jiffies, worker, work, by, asked>>

InitCreate(c) ==
    /\ InitStep(c, "create")
    /\ worker' = [worker EXCEPT ![c] = "created"]
    /\ by' = [by EXCEPT ![c] = now + LATE]
    /\ UNCHANGED <<now, ti, jiffies, timer_jiffies, work, locked, due, asked>>
-----------------------------------------------------------------------------
Goto(c, label) == worker' = [worker EXCEPT ![c] = label]

\* Back from uki_usleep, which a signal may cut short, or just created.
ReadClock(c) ==
    /\ worker[c] \in {"created", "sleep"}
    /\ ti' = now
    /\ Goto(c, "read")
    /\ by' = [by EXCEPT ![c] = now + LATE]
    /\ UNCHANGED <<now, jiffies, timer_jiffies, start, work, locked, due, asked>>

\* Mutant: the worker rounds down.
SetJiffiesDown(c) ==
    /\ worker[c] = "read"
    /\ jiffies' = time_to_jiffies_down(ti)
    /\ Goto(c, "lock")
    /\ UNCHANGED <<now, ti, timer_jiffies, start, work, locked, by, due, asked>>

SetJiffies(c) ==
    /\ worker[c] = "read"
    /\ jiffies' = time_to_jiffies(ti)
    /\ Goto(c, "lock")
    /\ UNCHANGED <<now, ti, timer_jiffies, start, work, locked, by, due, asked>>

\* spin_lock_irq, before the loop and after a callback
Lock(c) ==
    /\ worker[c] = "lock" /\ ~ locked
    /\ locked' = TRUE
    /\ Goto(c, "run")
    /\ UNCHANGED <<now, ti, jiffies, timer_jiffies, start, work, by, due, asked>>

\* Mutant: a tick is opened before its time.
OpenTickEarly(c) ==
    /\ worker[c] = "run" /\ work[c] = {} /\ jiffies + 1 >= timer_jiffies
    /\ timer_jiffies' = timer_jiffies + 1
    /\ work' = [work EXCEPT ![c] = {t \in Timers \ OnWork : due[t] = timer_jiffies}]
    /\ UNCHANGED <<now, ti, jiffies, start, worker, locked, by, due, asked>>

\* The loop of __run_timers, its cascades done.
OpenTick(c) ==
    /\ worker[c] = "run" /\ work[c] = {} /\ jiffies >= timer_jiffies
    /\ timer_jiffies' = timer_jiffies + 1
    /\ work' = [work EXCEPT ![c] = {t \in Timers \ OnWork : due[t] = timer_jiffies}]
    /\ UNCHANGED <<now, ti, jiffies, start, worker, locked, by, due, asked>>

Expire(c, t) ==
    /\ worker[c] = "run" /\ t \in work[c]
    /\ work' = [work EXCEPT ![c] = @ \ {t}]
    /\ due' = [due EXCEPT ![t] = Idle]
    /\ asked' = [asked EXCEPT ![t] = Nothing]
    /\ locked' = FALSE
    /\ Goto(c, "fn")
    /\ UNCHANGED <<now, ti, jiffies, timer_jiffies, start, by>>

FnReturn(c) ==
    /\ worker[c] = "fn"
    /\ Goto(c, "lock")
    /\ UNCHANGED <<now, ti, jiffies, timer_jiffies, start, work, locked, by, due,
                   asked>>

\* Mutant: uki_usleep(30 * USEC_PER_MSEC).
SleepLong(c) ==
    /\ worker[c] = "run" /\ work[c] = {} /\ jiffies < timer_jiffies
    /\ locked' = FALSE
    /\ Goto(c, "sleep")
    /\ by' = [by EXCEPT ![c] = now + 3 * UNITS + LATE]
    /\ UNCHANGED <<now, ti, jiffies, timer_jiffies, start, work, due, asked>>

\* The end of __run_timers; uki_usleep(10 * USEC_PER_MSEC), one tick.
Sleep(c) ==
    /\ worker[c] = "run" /\ work[c] = {} /\ jiffies < timer_jiffies
    /\ locked' = FALSE
    /\ Goto(c, "sleep")
    /\ by' = [by EXCEPT ![c] = now + UNITS + LATE]
    /\ UNCHANGED <<now, ti, jiffies, timer_jiffies, start, work, due, asked>>
-----------------------------------------------------------------------------
\* Clients start when init_timers has returned, as timer_test.c does: before,
\* the lists of the wheel hold null pointers.

\* timer->expires = jiffies + n
Ask(t, n) ==
    /\ Ready /\ due[t] = Idle
    /\ due' = [due EXCEPT ![t] = Counted]
    /\ asked' = [asked EXCEPT ![t] =
                   [expires |-> jiffies + n, wait |-> n, at |-> now, since |-> now]]
    /\ UNCHANGED <<now, ti, jiffies, timer_jiffies, start, worker, work, locked, by>>

\* add_timer(timer), filed for the next tick when its own is past; not within
\* the worker's locked section, as timer.h asks of the callers.
AddTimer(t) ==
    /\ due[t] = Counted /\ ~ locked
    /\ due' = [due EXCEPT ![t] = IF asked[t].expires >= timer_jiffies
                                  THEN asked[t].expires ELSE timer_jiffies]
    /\ asked' = [asked EXCEPT ![t].since = now]
    /\ UNCHANGED <<now, ti, jiffies, timer_jiffies, start, worker, work, locked, by>>

ClockNext ==
    \/ Pass
    \/ \E c \in Callers :
        \/ InitRead(c) \/ InitSet(c) \/ InitWheel(c) \/ InitCreate(c)
        \/ ReadClock(c) \/ SetJiffies(c) \/ Lock(c) \/ OpenTick(c)
        \/ FnReturn(c) \/ Sleep(c)
        \/ \E t \in Timers : Expire(c, t)
    \/ \E t \in Timers : AddTimer(t) \/ \E n \in Waits : Ask(t, n)

ClockSpec == ClockInit /\ [][ClockNext]_clockVars
-----------------------------------------------------------------------------
(***************************************************************************)
(* With one call of init_timers: the type invariant, how old jiffies may   *)
(* be in every step of a round, and what holds of every timer.             *)
(***************************************************************************)
Asked == [expires : Nat, wait : Nat, at : Nat, since : Nat]

ClockTypeOK ==
    /\ now \in Nat /\ ti \in Nat /\ jiffies \in Nat /\ timer_jiffies \in Nat
    /\ start \in [Callers -> 0 .. 4]
    /\ worker \in [Callers -> {"none", "created", "read", "lock", "run", "fn", "sleep"}]
    /\ work \in [Callers -> SUBSET Timers]
    /\ locked \in BOOLEAN
    /\ by \in [Callers -> Nat]
    /\ due \in [Timers -> Int]
    /\ asked \in [Timers -> Asked]

Starting(c) ==
    /\ worker[c] = "none" <=> start[c] < 4
    /\ start[c] \in 1 .. 3 => by[c] = ti + LATE
    /\ start[c] \in 2 .. 3 => jiffies = time_to_jiffies(ti)
    /\ start[c] = 3 => timer_jiffies = jiffies
    /\ start[c] < 4 => \A t \in Timers : due[t] = Idle

Round(c) ==
    /\ ti <= now /\ now <= by[c]
    /\ worker[c] \in {"created", "lock", "run", "fn", "sleep"} =>
          jiffies = time_to_jiffies(ti)
    /\ worker[c] = "created" => /\ timer_jiffies = jiffies
                                /\ by[c] <= ti + 2 * LATE /\ by[c] <= now + LATE
    /\ worker[c] = "read" => jiffies <= time_to_jiffies(ti) /\ by[c] = ti + LATE
    /\ worker[c] \in {"lock", "run", "fn"} => by[c] = ti + LATE
    /\ worker[c] = "sleep" => /\ timer_jiffies = jiffies + 1
                              /\ by[c] <= ti + UNITS + 2 * LATE
    /\ start[c] = 4 => /\ timer_jiffies <= jiffies + 1
                       /\ \/ jiffies = MAX_TICKS /\ timer_jiffies >= MAX_TICKS
                          \/ by[c] <= timer_jiffies * UNITS + 3 * LATE
                       /\ by[c] <= now + UNITS + LATE

Waiting(c, t) ==
    /\ due[t] \in {Idle, Counted} \/ due[t] >= 0
    /\ t \in work[c] => /\ worker[c] \in {"lock", "run", "fn"}
                        /\ due[t] >= 0 /\ due[t] = timer_jiffies - 1
    /\ due[t] >= 0 => /\ t \notin work[c] => due[t] >= timer_jiffies
                      /\ due[t] >= asked[t].expires
                      /\ worker[c] = "created" => by[c] <= asked[t].since + LATE
                      /\ \/ due[t] > MAX_TICKS
                         \/ by[c] <= due[t] * UNITS + 3 * LATE
                         \/ by[c] <= asked[t].since + UNITS + 3 * LATE
    /\ due[t] # Idle =>
          /\ asked[t].at <= now
          /\ \/ asked[t].expires - asked[t].wait = MAX_TICKS
             \/ asked[t].at <= (asked[t].expires - asked[t].wait) * UNITS
                                 + UNITS + 3 * LATE

ClockInv ==
    /\ ClockTypeOK
    /\ \A c \in Callers : Starting(c) /\ Round(c) /\ \A t \in Timers : Waiting(c, t)
-----------------------------------------------------------------------------
\* The timer that is about to run in a step.
Runs(t) == due[t] >= 0 /\ due'[t] = Idle

\* jiffies is never seen to go back once init_timers has set it: timer_test.c
\* asserts it of the running clock.
JiffiesRise == [][Ready => jiffies' >= jiffies]_clockVars

\* The wheel keeps up with the clock, from the first tick after init_timers
\* on: the ticks of the past are processed but for those of one round, up to
\* the last tick that the conversion to jiffies gives.
KeepsPace ==
    Ready => /\ timer_jiffies <= time_to_jiffies(now) + 1
             /\ timer_jiffies < MAX_TICKS => now <= timer_jiffies * UNITS + 3 * LATE

\* No timer runs before the clock reads the expiry it was given, however old
\* the jiffies was that the client counted from.
NeverEarly ==
    [][\A t \in Timers :
          Runs(t) => time_to_jiffies(now) >= asked[t].expires]_clockVars

\* A timer waits for the ticks it was given but two, one for the rounding up
\* and one for the sleep jiffies may be behind by, and the worker's lateness.
WaitsLong ==
    [][\A t \in Timers :
          Runs(t) => now - asked[t].at
                       > (asked[t].wait - 2) * UNITS - 3 * LATE]_clockVars

\* A timer runs within a round of the worker once its tick has come: the test
\* waits for 1.2 seconds at most for a timer of one second.  This is so of the
\* ticks that come: jiffies stops at MAX_TICKS, and what is due later never runs.
RunsSoon ==
    \A t \in Timers : due[t] \in 0 .. MAX_TICKS =>
        \/ now <= due[t] * UNITS + 3 * LATE
        \/ now <= asked[t].since + UNITS + 3 * LATE

\* BUG_ON(initialized) (timer.c, 770): init_timers is done once.  The code:
\* initialized is never set, and every call starts one more worker.
InitializedOnce == Cardinality({c \in Callers : worker[c] # "none"}) <= 1
=============================================================================
