-------------------------- MODULE TimerClockProofs --------------------------
(***************************************************************************)
(* With one call of init_timers, and for every length of a tick and every  *)
(* bound on the lateness of a thread: the wheel keeps pace with the clock, *)
(* jiffies never goes back, and no timer runs before its time, after less  *)
(* than it was given but two ticks, or later than a round after its tick,  *)
(* until jiffies comes to the last tick it counts.                         *)
(***************************************************************************)
EXTENDS TimerClock, TLAPS

\* Multiples of a tick.
LEMMA Ticks ==
    /\ \A k \in Int : k * UNITS \in Int /\ (k + 1) * UNITS = k * UNITS + UNITS
    /\ \A k, l \in Int : k <= l => k * UNITS <= l * UNITS
    /\ \A k, l \in Int : k * UNITS < l * UNITS + UNITS => k <= l
<1>0. UNITS \in Int /\ UNITS > 0
    BY ClockAssumption
<1>1. ASSUME NEW k \in Int
      PROVE  k * UNITS \in Int /\ (k + 1) * UNITS = k * UNITS + UNITS
    BY <1>0
<1>2. ASSUME NEW k \in Int, NEW l \in Int, k <= l PROVE k * UNITS <= l * UNITS
    BY <1>0, <1>2
<1>3. ASSUME NEW k \in Int, NEW l \in Int, k * UNITS < l * UNITS + UNITS PROVE k <= l
    <2>1. SUFFICES ASSUME l + 1 <= k PROVE FALSE
        OBVIOUS
    <2>2. (l + 1) * UNITS <= k * UNITS /\ (l + 1) * UNITS = l * UNITS + UNITS
        BY <1>0, <1>1, <1>2, <2>1
    <2> QED BY <1>0, <1>1, <1>3, <2>2
<1> QED BY <1>1, <1>2, <1>3

\* The conversion to jiffies rounds up, by less than a tick, as long as it does
\* not saturate.
LEMMA RoundsUp ==
    \A x \in Nat : LET j == time_to_jiffies(x)
                   IN  /\ j \in Nat /\ j <= MAX_TICKS /\ j * UNITS < x + UNITS
                       /\ j < MAX_TICKS => x <= j * UNITS
<1> SUFFICES ASSUME NEW x \in Nat
             PROVE  /\ time_to_jiffies(x) \in Nat /\ time_to_jiffies(x) <= MAX_TICKS
                    /\ time_to_jiffies(x) * UNITS < x + UNITS
                    /\ time_to_jiffies(x) < MAX_TICKS => x <= time_to_jiffies(x) * UNITS
    OBVIOUS
<1>0. UNITS \in Nat \ {0} /\ MAX_TICKS \in Nat /\ MAX_TICKS * UNITS \in Int
    BY ClockAssumption
<1>1. CASE x >= MAX_TICKS * UNITS
    <2>1. time_to_jiffies(x) = MAX_TICKS
        BY <1>1 DEF time_to_jiffies
    <2> QED BY <1>0, <1>1, <2>1
<1>2. CASE ~ (x >= MAX_TICKS * UNITS)
    <2> DEFINE q == (x + UNITS - 1) \div UNITS
               r == (x + UNITS - 1) % UNITS
    <2>1. q \in Nat /\ r \in 0 .. UNITS - 1 /\ x + UNITS - 1 = UNITS * q + r
        BY <1>0
    <2>2. UNITS * q = q * UNITS /\ q * UNITS \in Int
        BY <1>0, <2>1
    <2>3. time_to_jiffies(x) = q
        BY <1>2 DEF time_to_jiffies
    <2> HIDE DEF q, r
    <2>4. x <= q * UNITS /\ q * UNITS < x + UNITS
        BY <1>0, <2>1, <2>2
    <2>5. q * UNITS < MAX_TICKS * UNITS + UNITS
        BY <1>0, <1>2, <2>2, <2>4
    <2>6. q \in Int /\ MAX_TICKS \in Int
        BY <1>0, <2>1
    <2>7. q <= MAX_TICKS
        BY <2>5, <2>6, Ticks
    <2> QED BY <2>1, <2>3, <2>4, <2>7
<1> QED BY <1>1, <1>2

\* A later time is no fewer jiffies.
LEMMA Rises ==
    \A x, y \in Nat : x <= y => time_to_jiffies(x) <= time_to_jiffies(y)
<1> SUFFICES ASSUME NEW x \in Nat, NEW y \in Nat, x <= y
             PROVE  time_to_jiffies(x) <= time_to_jiffies(y)
    OBVIOUS
<1> DEFINE a == time_to_jiffies(x)
           b == time_to_jiffies(y)
<1>1. /\ a \in Nat /\ b \in Nat /\ a * UNITS < x + UNITS
      /\ a <= MAX_TICKS /\ b <= MAX_TICKS
      /\ b < MAX_TICKS => y <= b * UNITS
    BY RoundsUp
<1> HIDE DEF a, b
<1>2. ASSUME b < MAX_TICKS PROVE a <= b
    <2>1. a * UNITS < b * UNITS + UNITS
        BY <1>1, <1>2, Ticks, ClockAssumption
    <2> QED BY <1>1, <2>1, Ticks
<1>3. ASSUME ~ (b < MAX_TICKS) PROVE a <= b
    BY <1>1, <1>3, ClockAssumption
<1> QED BY <1>2, <1>3 DEF a, b

\* The order of init_timers.
LEMMA InOrder ==
    ASSUME NEW m \in Callers, ClockTypeOK
    PROVE  /\ InitStep(m, "read") => start[m] = 0 /\ start'[m] = 1
           /\ InitStep(m, "set") => start[m] = 1 /\ start'[m] = 2
           /\ InitStep(m, "wheel") => start[m] = 2 /\ start'[m] = 3
           /\ InitStep(m, "create") => start[m] = 3 /\ start'[m] = 4
           /\ \A step : InitStep(m, step) => start' \in [Callers -> 0 .. 4]
<1>1. start \in [Callers -> 0 .. 4]
    BY DEF ClockTypeOK
<1>2. /\ Steps[1] = "read" /\ Steps[2] = "set"
      /\ Steps[3] = "wheel" /\ Steps[4] = "create"
    BY DEF Steps
<1>3. \A k \in 0 .. 4 : k < 4 =>
        k \in {0, 1, 2, 3} /\ k + 1 \in {1, 2, 3, 4}
    OBVIOUS
<1>4. ASSUME NEW step, InitStep(m, step)
      PROVE  /\ start[m] \in {0, 1, 2, 3} /\ Steps[start[m] + 1] = step
             /\ start'[m] = start[m] + 1 /\ start' \in [Callers -> 0 .. 4]
    BY <1>1, <1>4 DEF InitStep
<1> QED BY <1>2, <1>4

\* ClockInv holds initially.
LEMMA ClockInvInit == ClockInit => ClockInv
<1> SUFFICES ASSUME ClockInit PROVE ClockInv
    OBVIOUS
<1>1. ClockTypeOK
    <2>1. now \in Nat /\ END \in Nat /\ INITIAL_JIFFIES \in Nat
        BY ClockAssumption DEF ClockInit
    <2>2. Nothing \in Asked /\ Idle \in Int
        BY DEF Nothing, Asked, Idle
    <2>3. asked \in [Timers -> Asked] /\ due \in [Timers -> Int]
        BY <2>2 DEF ClockInit
    <2>4. by \in [Callers -> Nat] /\ start \in [Callers -> 0 .. 4]
        BY <2>1 DEF ClockInit
    <2> QED BY <2>1, <2>3, <2>4 DEF ClockInit, ClockTypeOK
<1>2. ASSUME NEW c \in Callers PROVE Starting(c)
    BY <1>2 DEF ClockInit, Starting
<1>3. ASSUME NEW c \in Callers PROVE Round(c)
    BY <1>3, ClockAssumption DEF ClockInit, Round
<1>4. ASSUME NEW c \in Callers, NEW t \in Timers PROVE Waiting(c, t)
    BY <1>4 DEF ClockInit, Waiting, Idle
<1> QED BY <1>1, <1>2, <1>3, <1>4 DEF ClockInv

\* Time passes.
LEMMA PassKeeps ==
    ASSUME NEW m, Callers = {m}, ClockInv, Pass
    PROVE  ClockInv'
<1>0. /\ m \in Callers /\ ClockTypeOK /\ Starting(m) /\ Round(m)
      /\ \A t \in Timers : Waiting(m, t)
    BY DEF ClockInv
<1>1. ClockTypeOK'
    BY <1>0, ClockAssumption, RoundsUp DEF Pass, ClockTypeOK, Asked
<1>2. Starting(m)'
    BY <1>0, ClockAssumption DEF Pass, ClockTypeOK, Starting, Round
<1>3. Round(m)'
    BY <1>0, <1>1, ClockAssumption DEF Pass, ClockTypeOK, Round
<1>4. ASSUME NEW t \in Timers PROVE Waiting(m, t)'
    BY <1>0, <1>1, ClockAssumption, RoundsUp, Ticks
           DEF Pass, ClockTypeOK, Asked, Starting, Round, Waiting
<1> QED BY <1>1, <1>2, <1>3, <1>4 DEF ClockInv

\* init_timers reads the clock.
LEMMA InitReadKeeps ==
    ASSUME NEW m, Callers = {m}, ClockInv, InitRead(m)
    PROVE  ClockInv'
<1>0. /\ m \in Callers /\ ClockTypeOK /\ Starting(m) /\ Round(m)
      /\ \A t \in Timers : Waiting(m, t)
    BY DEF ClockInv
<1>1. ClockTypeOK'
    BY <1>0, InOrder, ClockAssumption DEF InitRead, ClockTypeOK
<1>2. Starting(m)'
    BY <1>0, InOrder, ClockAssumption DEF InitRead, ClockTypeOK, Starting, Round
<1>3. Round(m)'
    BY <1>0, <1>1, InOrder, ClockAssumption
           DEF InitRead, ClockTypeOK, Starting, Round
<1>4. ASSUME NEW t \in Timers PROVE Waiting(m, t)'
    BY <1>0, InOrder DEF InitRead, ClockTypeOK, Starting, Round, Waiting, Idle
<1> QED BY <1>1, <1>2, <1>3, <1>4 DEF ClockInv

\* init_timers sets jiffies.
LEMMA InitSetKeeps ==
    ASSUME NEW m, Callers = {m}, ClockInv, InitSet(m)
    PROVE  ClockInv'
<1>0. /\ m \in Callers /\ ClockTypeOK /\ Starting(m) /\ Round(m)
      /\ \A t \in Timers : Waiting(m, t)
    BY DEF ClockInv
<1>1. ClockTypeOK'
    BY <1>0, InOrder, ClockAssumption, RoundsUp DEF InitSet, ClockTypeOK, Asked
<1>2. Starting(m)'
    BY <1>0, InOrder, ClockAssumption DEF InitSet, ClockTypeOK, Starting, Round
<1>3. Round(m)'
    BY <1>0, <1>1, InOrder, ClockAssumption
           DEF InitSet, ClockTypeOK, Starting, Round
<1>4. ASSUME NEW t \in Timers PROVE Waiting(m, t)'
    BY <1>0, <1>1, InOrder, ClockAssumption, RoundsUp, Ticks
           DEF InitSet, ClockTypeOK, Asked, Starting, Round, Waiting
<1> QED BY <1>1, <1>2, <1>3, <1>4 DEF ClockInv

\* init_timers_uki makes the wheel.
LEMMA InitWheelKeeps ==
    ASSUME NEW m, Callers = {m}, ClockInv, InitWheel(m)
    PROVE  ClockInv'
<1>0. /\ m \in Callers /\ ClockTypeOK /\ Starting(m) /\ Round(m)
      /\ \A t \in Timers : Waiting(m, t)
    BY DEF ClockInv
<1>1. ClockTypeOK'
    <2>1. due' = due
        BY <1>0, InOrder DEF InitWheel, Starting, ClockTypeOK
    <2> QED BY <1>0, <2>1, InOrder DEF InitWheel, ClockTypeOK
<1>2. Starting(m)'
    BY <1>0, InOrder, ClockAssumption
           DEF InitWheel, OnWork, Idle, Counted, ClockTypeOK, Starting, Round
<1>3. Round(m)'
    BY <1>0, <1>1, InOrder, ClockAssumption, RoundsUp, Rises, Ticks
           DEF InitWheel, OnWork, Idle, Counted, ClockTypeOK, Starting, Round
<1>4. ASSUME NEW t \in Timers PROVE Waiting(m, t)'
    <2>1. due[t] = Idle /\ due' = due /\ t \notin work[m]
        BY <1>0, InOrder DEF InitWheel, Starting, Waiting, ClockTypeOK
    <2> QED BY <1>0, <2>1 DEF InitWheel, Waiting, Idle
<1> QED BY <1>1, <1>2, <1>3, <1>4 DEF ClockInv

\* The worker is created.
LEMMA InitCreateKeeps ==
    ASSUME NEW m, Callers = {m}, ClockInv, InitCreate(m)
    PROVE  ClockInv'
<1>0. /\ m \in Callers /\ ClockTypeOK /\ Starting(m) /\ Round(m)
      /\ \A t \in Timers : Waiting(m, t)
    BY DEF ClockInv
<1>1. ClockTypeOK'
    BY <1>0, InOrder, ClockAssumption DEF InitCreate, ClockTypeOK
<1>2. Starting(m)'
    BY <1>0, InOrder, ClockAssumption DEF InitCreate, ClockTypeOK, Starting, Round
<1>3. Round(m)'
    <2>1. /\ start[m] = 3 /\ start'[m] = 4
          /\ by' = [by EXCEPT ![m] = now + LATE]
          /\ worker' = [worker EXCEPT ![m] = "created"]
          /\ UNCHANGED <<now, ti, jiffies, timer_jiffies>>
        BY <1>0, InOrder DEF InitCreate
    <2>2. /\ jiffies = time_to_jiffies(ti) /\ timer_jiffies = jiffies
          /\ ti <= now /\ now <= ti + LATE
        BY <1>0, <2>1 DEF Starting, Round
    <2>3. /\ jiffies <= MAX_TICKS
          /\ jiffies < MAX_TICKS => ti <= jiffies * UNITS
          /\ jiffies * UNITS \in Int
        BY <1>0, <2>2, RoundsUp, Ticks DEF ClockTypeOK
    <2>4. by'[m] = now + LATE /\ worker'[m] = "created"
        BY <1>0, <2>1 DEF ClockTypeOK
    <2> QED BY <1>0, <2>1, <2>2, <2>3, <2>4, ClockAssumption
            DEF Round, ClockTypeOK, time_to_jiffies
<1>4. ASSUME NEW t \in Timers PROVE Waiting(m, t)'
    BY <1>0, InOrder DEF InitCreate, ClockTypeOK, Starting, Round, Waiting, Idle
<1> QED BY <1>1, <1>2, <1>3, <1>4 DEF ClockInv

\* The worker reads the clock.
LEMMA ReadClockKeeps ==
    ASSUME NEW m, Callers = {m}, ClockInv, ReadClock(m)
    PROVE  ClockInv'
<1>0. /\ m \in Callers /\ ClockTypeOK /\ Starting(m) /\ Round(m)
      /\ \A t \in Timers : Waiting(m, t)
    BY DEF ClockInv
<1>1. ClockTypeOK'
    BY <1>0, ClockAssumption, RoundsUp DEF ReadClock, Goto, ClockTypeOK, Asked
<1>2. Starting(m)'
    BY <1>0, ClockAssumption DEF ReadClock, Goto, ClockTypeOK, Starting, Round
<1>3. Round(m)'
    <2>1. /\ by'[m] = now + LATE /\ worker'[m] = "read" /\ ti' = now
          /\ start'[m] = 4
          /\ UNCHANGED <<now, jiffies, timer_jiffies>>
        BY <1>0 DEF ReadClock, Goto, ClockTypeOK, Starting
    <2>2. /\ jiffies = time_to_jiffies(ti) /\ ti <= now /\ now <= by[m]
          /\ \/ timer_jiffies = jiffies /\ now <= ti + 2 * LATE
             \/ timer_jiffies = jiffies + 1 /\ now <= ti + UNITS + 2 * LATE
        BY <1>0, ClockAssumption DEF ReadClock, Round, ClockTypeOK
    <2>3. /\ jiffies <= MAX_TICKS
          /\ jiffies < MAX_TICKS => ti <= jiffies * UNITS
          /\ jiffies * UNITS \in Int
          /\ (jiffies + 1) * UNITS = jiffies * UNITS + UNITS
          /\ time_to_jiffies(ti) <= time_to_jiffies(now)
        <3>1. ti \in Nat /\ now \in Nat /\ jiffies \in Int
            BY <1>0 DEF ClockTypeOK
        <3>2. time_to_jiffies(ti) <= time_to_jiffies(now)
            BY <2>2, <3>1, Rises
        <3>3. jiffies * UNITS \in Int /\ (jiffies + 1) * UNITS = jiffies * UNITS + UNITS
            BY <3>1, Ticks
        <3>4. /\ jiffies <= MAX_TICKS
              /\ jiffies < MAX_TICKS => ti <= jiffies * UNITS
            BY <2>2, <3>1, RoundsUp
        <3> QED BY <3>2, <3>3, <3>4
    <2>4. \/ jiffies = MAX_TICKS /\ timer_jiffies >= MAX_TICKS
          \/ now + LATE <= timer_jiffies * UNITS + 3 * LATE
        BY <1>0, <2>2, <2>3, ClockAssumption DEF ClockTypeOK
    <2> QED BY <1>0, <2>1, <2>2, <2>3, <2>4, ClockAssumption DEF Round, ClockTypeOK
<1>4. ASSUME NEW t \in Timers PROVE Waiting(m, t)'
    <2>1. /\ by'[m] = now + LATE /\ worker'[m] = "read" /\ start[m] = 4
          /\ UNCHANGED <<now, due, asked, work, timer_jiffies, jiffies>>
          /\ t \notin work[m]
        BY <1>0 DEF ReadClock, Goto, ClockTypeOK, Starting, Waiting
    <2>2. /\ jiffies = time_to_jiffies(ti) /\ jiffies <= MAX_TICKS
          /\ jiffies < MAX_TICKS => ti <= jiffies * UNITS
          /\ jiffies * UNITS \in Int
          /\ (jiffies + 1) * UNITS = jiffies * UNITS + UNITS
        <3>1. jiffies = time_to_jiffies(ti)
            BY <1>0 DEF ReadClock, Round
        <3>2. ti \in Nat /\ jiffies \in Int
            BY <1>0 DEF ClockTypeOK
        <3>3. jiffies * UNITS \in Int /\ (jiffies + 1) * UNITS = jiffies * UNITS + UNITS
            BY <3>2, Ticks
        <3>4. /\ jiffies <= MAX_TICKS
              /\ jiffies < MAX_TICKS => ti <= jiffies * UNITS
            BY <3>1, <3>2, RoundsUp
        <3> QED BY <3>1, <3>3, <3>4
    <2>3. ASSUME due[t] >= 0, ~ (due[t] > MAX_TICKS), worker[m] = "sleep"
          PROVE  now + LATE <= due[t] * UNITS + 3 * LATE
        <3>1. timer_jiffies <= due[t] /\ timer_jiffies * UNITS <= due[t] * UNITS
            BY <1>0, <2>1, <2>3, Ticks DEF ClockTypeOK, Waiting
        <3>2. due[t] * UNITS \in Int /\ timer_jiffies * UNITS \in Int
            BY <1>0, Ticks DEF ClockTypeOK
        <3>3. timer_jiffies = jiffies + 1 /\ now <= ti + UNITS + 2 * LATE
            BY <1>0, <2>3, ClockAssumption DEF Round, ClockTypeOK
        <3>4. jiffies < MAX_TICKS
            BY <1>0, <2>3, <3>1, <3>3, ClockAssumption DEF ClockTypeOK
        <3> QED BY <1>0, <2>2, <3>1, <3>2, <3>3, <3>4, ClockAssumption DEF ClockTypeOK
    <2>4. due[t] >= 0 => \/ due[t] > MAX_TICKS
                         \/ now + LATE <= due[t] * UNITS + 3 * LATE
                         \/ now + LATE <= asked[t].since + UNITS + 3 * LATE
        <3>1. CASE worker[m] = "sleep"
            BY <2>3, <3>1
        <3>2. CASE worker[m] = "created"
            <4>1. due[t] >= 0 => by[m] <= asked[t].since + LATE /\ now <= by[m]
                BY <1>0, <3>2 DEF Round, Waiting
            <4>2. asked[t].since \in Nat /\ by[m] \in Nat /\ now \in Nat
                BY <1>0 DEF ClockTypeOK, Asked
            <4> QED BY <4>1, <4>2, ClockAssumption
        <3> QED BY <3>1, <3>2 DEF ReadClock
    <2> QED BY <1>0, <2>1, <2>4 DEF Waiting
<1> QED BY <1>1, <1>2, <1>3, <1>4 DEF ClockInv

\* The worker sets jiffies.
LEMMA SetJiffiesKeeps ==
    ASSUME NEW m, Callers = {m}, ClockInv, SetJiffies(m)
    PROVE  ClockInv'
<1>0. /\ m \in Callers /\ ClockTypeOK /\ Starting(m) /\ Round(m)
      /\ \A t \in Timers : Waiting(m, t)
    BY DEF ClockInv
<1>1. ClockTypeOK'
    BY <1>0, ClockAssumption, RoundsUp DEF SetJiffies, Goto, ClockTypeOK, Asked
<1>2. Starting(m)'
    BY <1>0, ClockAssumption DEF SetJiffies, Goto, ClockTypeOK, Starting, Round
<1>3. Round(m)'
    <2>1. /\ worker[m] = "read" /\ worker'[m] = "lock" /\ start[m] = 4
          /\ jiffies' = time_to_jiffies(ti)
          /\ UNCHANGED <<now, ti, timer_jiffies, start, by>>
        BY <1>0 DEF SetJiffies, Goto, ClockTypeOK, Starting
    <2>2. /\ jiffies <= jiffies' /\ by[m] = ti + LATE
          /\ timer_jiffies <= jiffies + 1 /\ by[m] <= now + UNITS + LATE
          /\ \/ jiffies = MAX_TICKS /\ timer_jiffies >= MAX_TICKS
             \/ by[m] <= timer_jiffies * UNITS + 3 * LATE
        BY <1>0, <2>1 DEF Round
    <2>3. jiffies \in Nat /\ jiffies' \in Nat /\ jiffies' <= MAX_TICKS
        BY <1>0, <2>1, RoundsUp DEF ClockTypeOK
    <2>4. jiffies = MAX_TICKS => jiffies' = MAX_TICKS
        BY <2>2, <2>3, ClockAssumption
    <2>5. timer_jiffies <= jiffies' + 1
        <3>1. PICK j \in Nat : j = jiffies'
            BY <2>3
        <3>2. timer_jiffies <= jiffies + 1 /\ jiffies <= j
            BY <2>2, <3>1
        <3>3. timer_jiffies \in Nat /\ jiffies \in Nat
            BY <1>0 DEF ClockTypeOK
        <3>4. timer_jiffies <= j + 1
            BY <3>2, <3>3
        <3> QED BY <3>1, <3>4
    <2> QED BY <1>0, <2>1, <2>2, <2>4, <2>5 DEF Round
<1>4. ASSUME NEW t \in Timers PROVE Waiting(m, t)'
    BY <1>0, <1>1, ClockAssumption, RoundsUp, Ticks
           DEF SetJiffies, Goto, ClockTypeOK, Asked, Starting, Round, Waiting
<1> QED BY <1>1, <1>2, <1>3, <1>4 DEF ClockInv

\* The worker takes the lock.
LEMMA LockKeeps ==
    ASSUME NEW m, Callers = {m}, ClockInv, Lock(m)
    PROVE  ClockInv'
<1>0. /\ m \in Callers /\ ClockTypeOK /\ Starting(m) /\ Round(m)
      /\ \A t \in Timers : Waiting(m, t)
    BY DEF ClockInv
<1>1. ClockTypeOK'
    BY <1>0, ClockAssumption, RoundsUp DEF Lock, Goto, ClockTypeOK, Asked
<1>2. Starting(m)'
    BY <1>0, ClockAssumption DEF Lock, Goto, ClockTypeOK, Starting, Round
<1>3. Round(m)'
    BY <1>0, <1>1, ClockAssumption, RoundsUp, Rises, Ticks
           DEF Lock, Goto, ClockTypeOK, Starting, Round
<1>4. ASSUME NEW t \in Timers PROVE Waiting(m, t)'
    BY <1>0, <1>1, ClockAssumption, RoundsUp, Ticks
           DEF Lock, Goto, ClockTypeOK, Asked, Starting, Round, Waiting
<1> QED BY <1>1, <1>2, <1>3, <1>4 DEF ClockInv

\* The worker opens a tick.
LEMMA OpenTickKeeps ==
    ASSUME NEW m, Callers = {m}, ClockInv, OpenTick(m)
    PROVE  ClockInv'
<1>0. /\ m \in Callers /\ ClockTypeOK /\ Starting(m) /\ Round(m)
      /\ \A t \in Timers : Waiting(m, t)
    BY DEF ClockInv
<1>1. ClockTypeOK'
    BY <1>0, ClockAssumption, RoundsUp DEF OpenTick, OnWork, ClockTypeOK, Asked
<1>2. Starting(m)'
    BY <1>0, ClockAssumption DEF OpenTick, OnWork, ClockTypeOK, Starting, Round
<1>3. Round(m)'
    BY <1>0, <1>1, ClockAssumption, RoundsUp, Rises, Ticks
           DEF OpenTick, OnWork, ClockTypeOK, Starting, Round
<1>4. ASSUME NEW t \in Timers PROVE Waiting(m, t)'
    <2>1. /\ work[m] = {} /\ timer_jiffies' = timer_jiffies + 1
          /\ work'[m] = {u \in Timers : due[u] = timer_jiffies}
          /\ worker[m] = "run" /\ UNCHANGED <<now, worker, due, asked, by>>
        BY <1>0 DEF OpenTick, OnWork, ClockTypeOK
    <2>2. /\ t \in work'[m] <=> due[t] = timer_jiffies
          /\ due[t] >= 0 => due[t] >= timer_jiffies
        BY <1>0, <2>1 DEF Waiting
    <2> QED BY <1>0, <2>1, <2>2 DEF Waiting, ClockTypeOK
<1> QED BY <1>1, <1>2, <1>3, <1>4 DEF ClockInv

\* A callback is entered.
LEMMA ExpireKeeps ==
    ASSUME NEW m, Callers = {m}, ClockInv, NEW x \in Timers, Expire(m, x)
    PROVE  ClockInv'
<1>0. /\ m \in Callers /\ ClockTypeOK /\ Starting(m) /\ Round(m)
      /\ \A t \in Timers : Waiting(m, t)
    BY DEF ClockInv
<1>1. ClockTypeOK'
    <2>1. Nothing \in Asked /\ Idle \in Int
        BY DEF Nothing, Asked, Idle
    <2> QED BY <1>0, <2>1 DEF Expire, Goto, ClockTypeOK
<1>2. Starting(m)'
    BY <1>0, ClockAssumption
           DEF Expire, Goto, Idle, Counted, Nothing, ClockTypeOK, Starting, Round
<1>3. Round(m)'
    BY <1>0, <1>1, ClockAssumption, RoundsUp, Rises, Ticks
           DEF Expire, Goto, Idle, Counted, Nothing, ClockTypeOK, Starting, Round
<1>4. ASSUME NEW t \in Timers PROVE Waiting(m, t)'
    BY <1>0, <1>1, ClockAssumption, RoundsUp, Ticks
           DEF Expire, Goto, Idle, Counted, Nothing, ClockTypeOK, Asked, Starting, Round, Waiting
<1> QED BY <1>1, <1>2, <1>3, <1>4 DEF ClockInv

\* A callback returns.
LEMMA FnReturnKeeps ==
    ASSUME NEW m, Callers = {m}, ClockInv, FnReturn(m)
    PROVE  ClockInv'
<1>0. /\ m \in Callers /\ ClockTypeOK /\ Starting(m) /\ Round(m)
      /\ \A t \in Timers : Waiting(m, t)
    BY DEF ClockInv
<1>1. ClockTypeOK'
    BY <1>0, ClockAssumption, RoundsUp DEF FnReturn, Goto, ClockTypeOK, Asked
<1>2. Starting(m)'
    BY <1>0, ClockAssumption DEF FnReturn, Goto, ClockTypeOK, Starting, Round
<1>3. Round(m)'
    BY <1>0, <1>1, ClockAssumption, RoundsUp, Rises, Ticks
           DEF FnReturn, Goto, ClockTypeOK, Starting, Round
<1>4. ASSUME NEW t \in Timers PROVE Waiting(m, t)'
    BY <1>0, <1>1, ClockAssumption, RoundsUp, Ticks
           DEF FnReturn, Goto, ClockTypeOK, Asked, Starting, Round, Waiting
<1> QED BY <1>1, <1>2, <1>3, <1>4 DEF ClockInv

\* The worker goes to sleep.
LEMMA SleepKeeps ==
    ASSUME NEW m, Callers = {m}, ClockInv, Sleep(m)
    PROVE  ClockInv'
<1>0. /\ m \in Callers /\ ClockTypeOK /\ Starting(m) /\ Round(m)
      /\ \A t \in Timers : Waiting(m, t)
    BY DEF ClockInv
<1>1. ClockTypeOK'
    <2>1. now + UNITS + LATE \in Nat
        BY <1>0, ClockAssumption DEF ClockTypeOK
    <2> QED BY <1>0, <2>1 DEF Sleep, Goto, ClockTypeOK
<1>2. Starting(m)'
    BY <1>0, ClockAssumption DEF Sleep, Goto, ClockTypeOK, Starting, Round
<1>3. Round(m)'
    <2>1. /\ by'[m] = now + UNITS + LATE /\ worker'[m] = "sleep"
          /\ start[m] = 4 /\ UNCHANGED <<now, ti, jiffies, timer_jiffies, start>>
        BY <1>0 DEF Sleep, Goto, ClockTypeOK, Starting
    <2>2. /\ jiffies = time_to_jiffies(ti) /\ ti <= now /\ now <= ti + LATE
          /\ timer_jiffies = jiffies + 1
        BY <1>0, <2>1 DEF Sleep, Round, ClockTypeOK
    <2>3. /\ jiffies <= MAX_TICKS
          /\ jiffies < MAX_TICKS => ti <= jiffies * UNITS
          /\ jiffies * UNITS \in Int
          /\ timer_jiffies * UNITS = jiffies * UNITS + UNITS
        BY <1>0, <2>2, RoundsUp, Ticks DEF ClockTypeOK
    <2> QED BY <1>0, <2>1, <2>2, <2>3, ClockAssumption
            DEF Round, ClockTypeOK, time_to_jiffies
<1>4. ASSUME NEW t \in Timers PROVE Waiting(m, t)'
    <2>1. /\ by'[m] = now + UNITS + LATE /\ worker'[m] = "sleep"
          /\ UNCHANGED <<now, due, asked, work, timer_jiffies, start>>
          /\ t \notin work[m]
        BY <1>0 DEF Sleep, Goto, ClockTypeOK
    <2>2. jiffies < MAX_TICKS => by'[m] <= timer_jiffies * UNITS + 3 * LATE
        <3>1. start'[m] = 4 /\ jiffies' = jiffies /\ jiffies \in Nat
            BY <1>0 DEF Sleep, Starting, ClockTypeOK
        <3> QED BY <1>3, <2>1, <3>1, ClockAssumption DEF Round
    <2>3. due[t] >= 0 => due[t] > MAX_TICKS \/ by'[m] <= due[t] * UNITS + 3 * LATE
        <3>0. SUFFICES ASSUME due[t] >= 0, ~ (due[t] > MAX_TICKS)
                       PROVE  by'[m] <= due[t] * UNITS + 3 * LATE
            OBVIOUS
        <3>1. timer_jiffies <= due[t] /\ timer_jiffies * UNITS <= due[t] * UNITS
            BY <1>0, <2>1, <3>0, Ticks DEF ClockTypeOK, Waiting
        <3>2. /\ due[t] * UNITS \in Int /\ timer_jiffies * UNITS \in Int
              /\ by'[m] \in Int
            BY <1>0, <1>1, Ticks DEF ClockTypeOK
        <3>3. jiffies < MAX_TICKS
            BY <1>0, <3>0, <3>1, ClockAssumption DEF Sleep, ClockTypeOK
        <3> QED BY <1>0, <2>2, <3>1, <3>2, <3>3, ClockAssumption DEF ClockTypeOK
    <2> QED BY <1>0, <2>1, <2>3 DEF Waiting
<1> QED BY <1>1, <1>2, <1>3, <1>4 DEF ClockInv

\* A client reads jiffies.
LEMMA AskKeeps ==
    ASSUME NEW m, Callers = {m}, ClockInv, NEW x \in Timers, NEW n \in Waits, Ask(x, n)
    PROVE  ClockInv'
<1>0. /\ m \in Callers /\ ClockTypeOK /\ Starting(m) /\ Round(m)
      /\ \A t \in Timers : Waiting(m, t)
    BY DEF ClockInv
<1>1. ClockTypeOK'
    BY <1>0, ClockAssumption, RoundsUp
           DEF Ask, Idle, Counted, Ready, Returned, ClockTypeOK, Asked
<1>2. Starting(m)'
    BY <1>0, ClockAssumption
           DEF Ask, Idle, Counted, Ready, Returned, ClockTypeOK, Starting, Round
<1>3. Round(m)'
    BY <1>0, <1>1, ClockAssumption, RoundsUp, Rises, Ticks
           DEF Ask, Idle, Counted, Ready, Returned, ClockTypeOK, Starting, Round
<1>4. ASSUME NEW t \in Timers PROVE Waiting(m, t)'
    <2>1. CASE t # x
        BY <1>0, <2>1 DEF Ask, Waiting, ClockTypeOK
    <2>2. CASE t = x
        <3>1. /\ due'[t] = Counted /\ asked'[t].at = now /\ start[m] = 4
              /\ asked'[t].expires = jiffies + n /\ asked'[t].wait = n
              /\ t \notin work[m]
              /\ UNCHANGED <<now, work, worker, by, timer_jiffies>>
            BY <1>0, <2>2 DEF Ask, Ready, Returned, Waiting, ClockTypeOK, Idle
        <3>2. n \in Int /\ (jiffies + n) - n = jiffies
            BY <1>0, ClockAssumption DEF ClockTypeOK
        <3>3. jiffies # MAX_TICKS => now <= jiffies * UNITS + UNITS + 3 * LATE
            <4>0. SUFFICES ASSUME jiffies # MAX_TICKS
                           PROVE  now <= jiffies * UNITS + UNITS + 3 * LATE
                OBVIOUS
            <4>1. /\ by[m] <= timer_jiffies * UNITS + 3 * LATE
                  /\ timer_jiffies <= jiffies + 1 /\ now <= by[m]
                BY <1>0, <3>1, <4>0 DEF Round
            <4>2. /\ timer_jiffies * UNITS <= (jiffies + 1) * UNITS
                  /\ (jiffies + 1) * UNITS = jiffies * UNITS + UNITS
                  /\ timer_jiffies * UNITS \in Int /\ jiffies * UNITS \in Int
                <5>1. /\ jiffies \in Int /\ jiffies + 1 \in Int
                      /\ timer_jiffies \in Int
                    BY <1>0 DEF ClockTypeOK
                <5> QED BY <4>1, <5>1, Ticks
            <4> QED BY <1>0, <4>1, <4>2, ClockAssumption DEF ClockTypeOK
        <3>4. asked'[t].expires - asked'[t].wait = jiffies
            BY <3>1, <3>2
        <3>5. now \in Nat /\ -2 # -1 /\ ~ (-2 >= 0)
            BY <1>0 DEF ClockTypeOK
        <3>6. /\ asked'[t].at <= now'
              /\ asked'[t].expires - asked'[t].wait # MAX_TICKS =>
                    asked'[t].at <= (asked'[t].expires - asked'[t].wait) * UNITS
                                      + UNITS + 3 * LATE
            BY <3>1, <3>3, <3>4, <3>5
        <3> QED BY <1>0, <3>1, <3>5, <3>6 DEF Waiting, Idle, Counted
    <2> QED BY <2>1, <2>2
<1> QED BY <1>1, <1>2, <1>3, <1>4 DEF ClockInv

\* A timer is added.
LEMMA AddTimerKeeps ==
    ASSUME NEW m, Callers = {m}, ClockInv, NEW x \in Timers, AddTimer(x)
    PROVE  ClockInv'
<1>0. /\ m \in Callers /\ ClockTypeOK /\ Starting(m) /\ Round(m)
      /\ \A t \in Timers : Waiting(m, t)
    BY DEF ClockInv
<1>1. ClockTypeOK'
    BY <1>0, ClockAssumption, RoundsUp
           DEF AddTimer, Idle, Counted, ClockTypeOK, Asked
<1>2. Starting(m)'
    BY <1>0, ClockAssumption
           DEF AddTimer, Idle, Counted, ClockTypeOK, Starting, Round
<1>3. Round(m)'
    BY <1>0, <1>1, ClockAssumption, RoundsUp, Rises, Ticks
           DEF AddTimer, Idle, Counted, ClockTypeOK, Starting, Round
<1>4. ASSUME NEW t \in Timers PROVE Waiting(m, t)'
    BY <1>0, <1>1, ClockAssumption, RoundsUp, Ticks
           DEF AddTimer, Idle, Counted, ClockTypeOK, Asked, Starting, Round, Waiting
<1> QED BY <1>1, <1>2, <1>3, <1>4 DEF ClockInv
-----------------------------------------------------------------------------
\* Every step keeps ClockInv when there is one caller.
LEMMA ClockStepKeeps ==
    ASSUME NEW m, Callers = {m}, ClockInv, [ClockNext]_clockVars
    PROVE  ClockInv'
<1>1. CASE UNCHANGED clockVars
    BY <1>1 DEF clockVars, ClockInv, ClockTypeOK, Starting, Round, Waiting,
                time_to_jiffies
<1>2. CASE Pass
    BY <1>2, PassKeeps
<1>3. ASSUME NEW c \in Callers,
             InitRead(c) \/ InitSet(c) \/ InitWheel(c) \/ InitCreate(c)
      PROVE  ClockInv'
    <2>1. c = m
        OBVIOUS
    <2> QED BY <1>3, <2>1, InitReadKeeps, InitSetKeeps, InitWheelKeeps, InitCreateKeeps
<1>4. ASSUME NEW c \in Callers,
             \/ ReadClock(c) \/ SetJiffies(c) \/ Lock(c) \/ OpenTick(c)
             \/ FnReturn(c) \/ Sleep(c) \/ \E t \in Timers : Expire(c, t)
      PROVE  ClockInv'
    <2>1. c = m
        OBVIOUS
    <2> QED BY <1>4, <2>1, ReadClockKeeps, SetJiffiesKeeps, LockKeeps, OpenTickKeeps,
               FnReturnKeeps, SleepKeeps, ExpireKeeps
<1>5. ASSUME NEW t \in Timers, AddTimer(t) \/ \E n \in Waits : Ask(t, n)
      PROVE  ClockInv'
    BY <1>5, AddTimerKeeps, AskKeeps
<1> QED BY <1>1, <1>2, <1>3, <1>4, <1>5 DEF ClockNext

\* The inductive invariant holds in every state, with one call of init_timers.
THEOREM ClockInvariance ==
    ASSUME NEW m, Callers = {m}
    PROVE  ClockSpec => []ClockInv
<1>1. ClockInit => ClockInv
    BY ClockInvInit
<1>2. ClockInv /\ [ClockNext]_clockVars => ClockInv'
    BY ClockStepKeeps
<1> QED BY <1>1, <1>2, PTL DEF ClockSpec

\* The wheel keeps up with the clock: __run_timers leaves no tick behind but
\* those of the round under way, until it comes to the last one there is.
THEOREM PaceKept ==
    ASSUME NEW m, Callers = {m}
    PROVE  ClockSpec => []KeepsPace
<1>1. ClockInv => KeepsPace
    <2> SUFFICES ASSUME ClockInv, Ready
                 PROVE  /\ timer_jiffies <= time_to_jiffies(now) + 1
                        /\ \/ timer_jiffies >= MAX_TICKS
                           \/ now <= timer_jiffies * UNITS + 3 * LATE
        <3>1. ClockInv => timer_jiffies \in Nat /\ MAX_TICKS \in Nat
            BY ClockAssumption DEF ClockInv, ClockTypeOK
        <3> QED BY <3>1 DEF KeepsPace
    <2>1. ClockTypeOK /\ Starting(m) /\ Round(m) /\ start[m] = 4
        BY DEF ClockInv, Ready, Returned
    <2>2. /\ timer_jiffies <= jiffies + 1 /\ now <= by[m]
          /\ \/ timer_jiffies >= MAX_TICKS
             \/ by[m] <= timer_jiffies * UNITS + 3 * LATE
        BY <2>1 DEF Round
    <2>3. jiffies <= time_to_jiffies(ti) /\ time_to_jiffies(ti) \in Nat
        BY <2>1, RoundsUp DEF Round, Starting, ClockTypeOK
    <2>4. /\ time_to_jiffies(ti) <= time_to_jiffies(now)
          /\ time_to_jiffies(now) \in Nat
        BY <2>1, Rises, RoundsUp DEF Round, ClockTypeOK
    <2>5. timer_jiffies * UNITS \in Int
        BY <2>1, Ticks DEF ClockTypeOK
    <2> QED BY <2>1, <2>2, <2>3, <2>4, <2>5, ClockAssumption DEF ClockTypeOK
<1> QED BY <1>1, ClockInvariance, PTL

\* A timer that is due runs within a round of the worker, if its tick is one
\* that jiffies comes to.
THEOREM NoTimerLate ==
    ASSUME NEW m, Callers = {m}
    PROVE  ClockSpec => []RunsSoon
<1>1. ClockInv => RunsSoon
    <2> SUFFICES ASSUME ClockInv, NEW t \in Timers, due[t] \in 0 .. MAX_TICKS
                 PROVE  \/ now <= due[t] * UNITS + 3 * LATE
                        \/ now <= asked[t].since + UNITS + 3 * LATE
        BY DEF RunsSoon
    <2>1. ClockTypeOK /\ Round(m) /\ Waiting(m, t)
        BY DEF ClockInv
    <2>2. /\ due[t] * UNITS \in Int /\ asked[t].since \in Int
          /\ now \in Int /\ by[m] \in Int
          /\ due[t] >= 0 /\ ~ (due[t] > MAX_TICKS)
        BY <2>1, Ticks, ClockAssumption DEF ClockTypeOK, Asked
    <2> QED BY <2>1, <2>2, ClockAssumption DEF Round, Waiting
<1> QED BY <1>1, ClockInvariance, PTL

\* jiffies never goes back, the clock being read by one worker only.
THEOREM JiffiesNeverBack ==
    ASSUME NEW m, Callers = {m}
    PROVE  ClockSpec => JiffiesRise
<1>1. ClockInv /\ [ClockNext]_clockVars => [Ready => jiffies' >= jiffies]_clockVars
    <2> SUFFICES ASSUME ClockInv, ClockNext, Ready PROVE jiffies' >= jiffies
        BY DEF clockVars
    <2>1. /\ ClockTypeOK /\ Starting(m) /\ Round(m) /\ start[m] = 4
          /\ \A c \in Callers : c = m
        BY DEF ClockInv, Ready, Returned
    <2>2. CASE SetJiffies(m)
        BY <2>1, <2>2 DEF SetJiffies, Round
    <2>3. CASE ~ SetJiffies(m)
        <3>1. jiffies' = jiffies
            BY <2>1, <2>3 DEF ClockNext, Pass, InitRead, InitSet, InitWheel, InitCreate,
                  InitStep, ReadClock, Lock, OpenTick, Expire, FnReturn, Sleep, Ask,
                  AddTimer
        <3> QED BY <2>1, <3>1 DEF ClockTypeOK
    <2> QED BY <2>2, <2>3
<1> QED BY <1>1, ClockInvariance, PTL DEF ClockSpec, JiffiesRise

\* Only a timer on the work list runs; the clock has reached its expiry, and
\* its client has waited for what it asked for but two ticks.
LEMMA WhenRun ==
    ASSUME NEW m, Callers = {m}, ClockInv, ClockNext, NEW t \in Timers, Runs(t)
    PROVE  /\ time_to_jiffies(now) >= asked[t].expires
           /\ now - asked[t].at > (asked[t].wait - 2) * UNITS - 3 * LATE
<1>1. /\ ClockTypeOK /\ Starting(m) /\ Round(m) /\ Waiting(m, t)
      /\ \A c \in Callers : c = m
    BY DEF ClockInv
<1>2. Expire(m, t)
    <2>1. due[t] >= 0 /\ due'[t] = -1
        BY DEF Runs, Idle
    <2>2. ~ \E c \in Callers : InitWheel(c)
        <3>1. ASSUME InitWheel(m) PROVE FALSE
            BY <1>1, <2>1, <3>1, InOrder DEF InitWheel, Starting, Idle
        <3> QED BY <1>1, <3>1
    <2>3. ~ \E u \in Timers : AddTimer(u) \/ \E n \in Waits : Ask(u, n)
        <3>1. ASSUME NEW u \in Timers, AddTimer(u) PROVE FALSE
            <4>1. timer_jiffies >= 0 /\ asked[u].expires >= 0
                BY <1>1 DEF ClockTypeOK, Asked
            <4> QED BY <1>1, <2>1, <3>1, <4>1 DEF AddTimer, ClockTypeOK
        <3>2. ASSUME NEW u \in Timers, NEW n \in Waits, Ask(u, n) PROVE FALSE
            BY <1>1, <2>1, <3>2 DEF Ask, ClockTypeOK, Counted
        <3> QED BY <3>1, <3>2
    <2>4. ASSUME NEW u \in Timers, Expire(m, u), u # t PROVE FALSE
        BY <1>1, <2>1, <2>4 DEF Expire, ClockTypeOK
    <2> QED BY <1>1, <2>1, <2>2, <2>3, <2>4 DEF ClockNext, Pass, InitRead, InitSet,
               InitCreate, ReadClock, SetJiffies, Lock, OpenTick, FnReturn, Sleep
<1>3. /\ worker[m] = "run" /\ t \in work[m]
      /\ jiffies = time_to_jiffies(ti) /\ ti <= now /\ start[m] = 4
      /\ due[t] = timer_jiffies - 1 /\ due[t] >= asked[t].expires
      /\ timer_jiffies <= jiffies + 1
      /\ asked[t].at <= now
      /\ \/ asked[t].expires - asked[t].wait = MAX_TICKS
         \/ asked[t].at
              <= (asked[t].expires - asked[t].wait) * UNITS + UNITS + 3 * LATE
    BY <1>1, <1>2 DEF Expire, Round, Starting, Waiting, Runs, Idle, ClockTypeOK
<1> DEFINE e == asked[t].expires
           w == asked[t].wait
           a == asked[t].at
<1>4. e \in Nat /\ w \in Nat /\ a \in Nat /\ now \in Nat /\ ti \in Nat /\ jiffies \in Nat
    BY <1>1 DEF ClockTypeOK, Asked
<1>5. e <= jiffies
    BY <1>1, <1>3, <1>4 DEF ClockTypeOK
<1>6. /\ time_to_jiffies(now) \in Nat
      /\ jiffies <= time_to_jiffies(now) /\ jiffies <= MAX_TICKS
    BY <1>3, <1>4, RoundsUp, Rises
<1>7. e * UNITS < now + UNITS
    <2>1. jiffies * UNITS < ti + UNITS /\ jiffies * UNITS \in Int
        BY <1>3, <1>4, RoundsUp, Ticks
    <2>2. e * UNITS <= jiffies * UNITS /\ e * UNITS \in Int
        <3>1. e \in Int /\ jiffies \in Int
            BY <1>4
        <3> HIDE DEF e
        <3> QED BY <1>5, <3>1, Ticks
    <2> QED BY <1>3, <1>4, <2>1, <2>2, ClockAssumption
<1>8. now - a > (w - 2) * UNITS - 3 * LATE
    <2>0. UNITS \in Nat \ {0} /\ LATE \in Nat
        BY ClockAssumption
    <2>1. (e - w) * UNITS = e * UNITS - w * UNITS
        BY <1>4, <2>0
    <2>2. (w - 2) * UNITS = w * UNITS - UNITS - UNITS
        BY <1>4, <2>0
    <2>3. w * UNITS \in Int /\ e * UNITS \in Int
        BY <1>4, <2>0
    <2>4. a <= now /\ (e - w = MAX_TICKS \/ a <= (e - w) * UNITS + UNITS + 3 * LATE)
        BY <1>3
    <2>5. e - w = MAX_TICKS => w = 0
        BY <1>4, <1>5, <1>6, ClockAssumption
    <2> HIDE DEF e, w, a
    <2>6. CASE w = 0
        <3>1. w * UNITS = 0
            BY <2>0, <2>6
        <3> QED BY <1>4, <2>0, <2>2, <2>4, <3>1
    <2>7. CASE w # 0
        BY <1>4, <1>7, <2>0, <2>1, <2>2, <2>3, <2>4, <2>5, <2>7
    <2> QED BY <2>6, <2>7
<1> QED BY <1>4, <1>5, <1>6, <1>8

\* No timer runs before the clock reads the expiry it was given.
THEOREM NoTimerEarly ==
    ASSUME NEW m, Callers = {m}
    PROVE  ClockSpec => NeverEarly
<1>1. ClockInv /\ [ClockNext]_clockVars
        => [\A t \in Timers : Runs(t) =>
              time_to_jiffies(now) >= asked[t].expires]_clockVars
    BY WhenRun DEF clockVars
<1> QED BY <1>1, ClockInvariance, PTL DEF ClockSpec, NeverEarly

\* A client waits for the ticks it asked for but two, and the worker's lateness.
THEOREM LongEnough ==
    ASSUME NEW m, Callers = {m}
    PROVE  ClockSpec => WaitsLong
<1>1. ClockInv /\ [ClockNext]_clockVars
        => [\A t \in Timers : Runs(t) =>
              now - asked[t].at > (asked[t].wait - 2) * UNITS - 3 * LATE]_clockVars
    BY WhenRun DEF clockVars
<1> QED BY <1>1, ClockInvariance, PTL DEF ClockSpec, WaitsLong
=============================================================================
