# A formal model of the user kernel interface (uki)

uki provides Linux kernel data structures and services in user space: kernel
lists, the classic cascading timer wheel with a worker thread, `jiffies` and its
conversions, 64-bit division, times in seconds and nanoseconds, bit operations.
This directory holds TLA+ modules that model the parts with behaviour,
configurations that check them with TLC, and theorems whose proofs TLAPS checks.

Lines are those of `src/` at the commit this was written for; `PROJECT.json`
maps every definition to the lines it models.

## 1. Inventory

| Part | State | Operations | Correct means |
|---|---|---|---|
| Timer wheel (`timer.c`) | `uki_tvec_base`: `timer_jiffies`, tv1 (64 lists), tv2-tv5 (16 lists each), `lock`; write-only: `next_timer`, `running_timer` | `internal_add_timer`, `cascade`, `__run_timers`, `detach_timer` | a timer is on one list, once; it runs in the tick it is due in; no timer is forgotten in an outer vector; the worker's loop ends |
| Timer API (`timer.h`, `timer.c`) | `struct timer_list`: `entry`, `expires`, `function`, `data`, `base` | `init_timer`, `add_timer`, `mod_timer`, `mod_timer_pending`, `del_timer` (= `del_timer_sync`) | the calls do what their comments say, from a client thread and from a callback |
| Worker and clock (`timer.c`) | `jiffies`, the thread, the static `ti` | `init_timers`, `jiffies_worker`: read the clock, run timers, sleep 10 ms | `jiffies` follows the clock; every tick is processed once; a timeout counted from a `jiffies` that lags lasts long enough |
| Lists (`list.h`) | pairs of pointers | `list_add` .. `list_splice_tail_init`, iteration macros | rings with the right entries in the right order |
| Hash lists (`list.h`) | `first`, `next`, `pprev` | `hlist_add_*`, `hlist_del*`, `hlist_move_list` | chains whose `pprev` is the address of the pointer to the node |
| Rounding (`timer.c`) | reads `jiffies` | `round_jiffies` and variants | a rounded timeout is near the original, on a whole second, never lost to the past, never early when rounded up |
| Conversions (`jiffies.c`, `jiffies.h`) | none | `msecs_to_jiffies`, `timespec64_to_jiffies`, `time_after`, ... | rounding up, saturation, round trips, an order of times |
| Seconds and nanoseconds (`time64.h`, `jiffies.c`) | none | `set_normalized_timespec64`, `timespec64_add`, `_sub`, `_add_safe`, `_add_ns`, `ns_to_timespec64` | the same number of nanoseconds, normalised; the safe sum saturates |
| Calendar (`jiffies.c`) | none | `mktime64` | the days that have passed |
| Division (`div64.c`, `div64.h`, `math64.h`) | none | `__div64_32`, `do_div`, `div_s64_rem`, `div64_u64`, `mul_u64_u32_shr`, `mul_u64_u32_div`, `__iter_div_u64_rem` | quotient and remainder |
| Bits (`bitops.h`, `fls.h`, `fls64.h`, `ffs.h`, `log2.h`) | `set_mask_bits`, `bit_clear_unless`: a word shared by threads | `fls`, `__ffs`, `ilog2`, `roundup_pow_of_two`, rotations, sign extension; two loops round cmpxchg | the definitions; the loops are atomic |
| Delays (`timer.c`, `delay.h`) | none | `msleep`, `msleep_interruptible`, `ndelay`, `ssleep` | sleeping long enough |
| Windows glue, macros | none | `uki_clock_gettime`, `container_of`, `BUG_ON` | - |

How the parts interact. Clients call the API from any thread; the calls write the
wheel's lists and the timer. The worker thread reads the clock into `jiffies`,
takes `base->lock`, cascades, moves a bucket to a list head on its stack and
runs the callbacks of that list one after the other with the lock released;
callbacks may call the API for any timer, also for those still on the
stack list. Timers and wheel share memory with the clients only through these
lists, `expires`, `timer_jiffies` and `jiffies`. The conversions, divisions and
bit operations are functions that anyone calls.

What is hard here:

* the wheel itself: off-by-one errors and missed cascades show after thousands
  of ticks, and only for timers that were far out;
* callbacks and clients that change the list the worker is emptying;
* the order in the code: `expires` is set after the timer is filed,
  `timer_jiffies` is incremented before the callbacks run;
* the missing lock: `lock_timer_base` returns the base and does not lock it,
  while its callers unlock it;
* `jiffies`, which is read while another thread writes it and is only as new as
  the worker's last round;
* timeouts in the past, beyond 32 bits, beyond the sign of the word;
* pointers that are left stale on purpose: `detach_timer(t, 0)`, `cascade`;
* arithmetic at the edges of its words: scaled constants, carries, saturation,
  estimates that have to be corrected;
* compare-and-exchange loops.

`PROJECT.json` lists these as hazards, each at its line.

## 2. Modules

| Module | Models | Builds on |
|---|---|---|
| `TimerWheel` | wheel, API, worker: the core | |
| `TimerService` | what the timers promise: the abstract specification | instantiated by `TimerWheel` |
| `TimerFifo` | the order in which timers of one tick run | `TimerWheel` and two history variables |
| `KernelList` | `list.h`: the circular lists, pointer by pointer | |
| `KernelHList` | `list.h`: the hash lists | nodes and poison of `KernelList` |
| `TimerRace` | client threads, callbacks and the worker on the lists, one pointer assignment at a time; the spin lock | `KernelList` |
| `TimerClock` | `init_timers`, the worker's rounds, `jiffies` against the clock | the wheel's result, not its module |
| `RoundJiffies` | `round_jiffies` and variants | |
| `Div64` | the loops of `__div64_32` and `__iter_div_u64_rem` | |
| `Math64` | the divisions and products without a loop | `FunctionCalls` |
| `Timespec64` | seconds and nanoseconds | |
| `Conversions` | jiffies and other units, comparisons of times | `FunctionCalls` |
| `Delays` | `msleep` and others | `Conversions` |
| `Calendar` | `mktime64` | `FunctionCalls` |
| `BitOps` | searches, logarithms, rotations | `FunctionCalls` |
| `MaskBits` | `set_mask_bits`, `bit_clear_unless` | |
| `AtomicBits` | what they promise: the abstract specification | instantiated by `MaskBits` |
| `FunctionCalls` | the variable `call`: one call of a function and its result | |
| `TimerWheelProofs`, `TimerRaceProofs`, `TimerClockProofs`, `RoundJiffiesProofs` | theorems and proofs | the module of that name; `TimerFifo` too in the first |
| `KernelListProofs`, `Arithmetic64Proofs`, `BitOpsProofs`, `FunctionProofs` | theorems and proofs | `KernelList` and `KernelHList`; `Div64` and `Timespec64`; `BitOps` and `MaskBits`; `Calendar`, `Conversions`, `Delays` and `Math64` |
| `MCTimerWheel`, `MCTimerFifo`, `MCTimerRace`, `MCKernelList`, `MCFunctions`, `MCLoops` | constants, symmetry and combinations for TLC | |

### TimerWheel

| Variable | In the code |
|---|---|
| `jiffies`, `timer_jiffies` | the same |
| `list` | every list head: bucket `<<level, index>>`, `WorkList` (`work_list` of `__run_timers`), `TvList` (`tv_list` of `cascade`), each with the sequence of its timers |
| `worker`, `level` | where the worker thread is: asleep, woken before the lock, in the loop, in the cascade of `level`, in a callback |
| `expires`, `pending` | `timer->expires`; the timers with `entry.next != NULL` |
| `running` | the timer whose callback runs |
| `due` | history: the tick a timer was promised for when it was armed (`expires`, or the next tick for a timeout in the past, as the comment of `add_timer` says) |
| `misfiled` | history: timers that `__mod_timer` filed into another bucket than their new expiry calls for |

One action per API call and per step of the worker: `Wake` (clock, then to the
lock), `Lock`, `StartTick` (loop test; first cascade or no cascade),
`CascadeTimer` (one timer filed again), `CascadeDone` (next vector, or the tick
opens), `Expire` (detach, unlock, callback entered), `FnReturn` (callback
returned, locked again), `EndRun`. `Bucket` is `internal_add_timer`, with
unsigned and signed arithmetic modulo `WORD`. `Arm(t, filed, e)` is `__mod_timer`:
`filed` is what `->expires` holds when the timer is filed, `e` what it holds
afterwards; `add_timer` has both equal.

Granularity. `timer_pending`'s comment in `timer.h` (115-117) asks the callers to
serialise, and this module takes them at their word: a client call is one step
and never falls between the worker's lock and unlock. The code does not enforce
that; overlapping calls are the subject of `TimerRace`.

`TimerService` has no wheel: a set of armed timers with due ticks, a current
tick, and at most one running callback. A timer may `Run` only in the tick it is
due in, and the service may not `Tick` while a timer is due. Timers in `loose`
are not bound; the wheel maps `misfiled` to it. The refinement mapping is
`now <- timer_jiffies, armed <- pending, loose <- misfiled`.

### KernelList, KernelHList

The functions of `list.h` are operators on a memory, with the assignments in the
order of the C code, so that aliasing (an empty list, the first entry, the head as
argument) happens as in the code. `seq` is what the caller takes the lists to hold,
and each action updates memory by the C function and `seq` by what its comment
promises; `Rings` and `Chains` state that they agree. Callers keep to the
preconditions: an entry is added only when it is on no list, deleted only when it
is on one or was left pointing at itself by `list_del_init`, and a head that is to
receive a list has none to lose.

### TimerRace

`TimerWheel` takes for granted that list heads are sequences, that
`timer_pending` is membership and that nobody comes between. `TimerRace` takes
none of it for granted. Each client, and the worker with the callback it runs, is
a thread with a program counter. A step reads the pointers that its next list
operation needs and queues the assignments in `stores`; they reach memory one by
one in program order, as on x86, between those of other threads. `fault` is set
when a pointer is followed that is no list node (NULL or poison). The lock is
modelled as the code uses it: only the worker locks, everybody unlocks. The walk
of `cascade` is part of it, with its look-ahead `tmp` and its
`list_add_tail` of entries it has not unlinked. Ticks are left out: a timer may
be filed in any bucket and any bucket may be cascaded or opened.

With nothing to keep them apart two calls destroy the lists
(`mod_unserialized`), so a property of the code as it is needs a condition.
`ApartSpec` is one: the threads interleave as they please, but no two of them
are, at any moment, in operations that rely on the same list node (`Relied`).
It is no condition a caller can make sure of, since buckets are shared and the
worker cannot be kept out; it says how close two threads may come before
anything goes wrong, and that nothing else goes wrong: not the assignments of
neighbouring operations in each other's midst, not the stale pointers of
`detach_timer` and `cascade`, not the lock released under the worker.

### TimerClock

Time is counted in units, `UNITS` to a tick. `init_timers` is four steps
(`BUG_ON` and clock, `jiffies`, lock and wheel, thread), the worker a loop over
the clock, `jiffies`, lock, ticks, callbacks, sleep. `time_to_jiffies` rounds up
and stops at `MAX_TICKS`, the ticks of `MAX_SEC_IN_JIFFIES` seconds (`jiffies.c:275`):
from then on `jiffies` stands still, the worker goes on with nothing to do, and what is
due later never runs. With a `long` of 32 bits that is after 10737418 s, 124 days.
With one of 64 bits the product wraps first, after 174 years of uptime (section 4);
the module is about the time before. The wheel is not here:
opening a tick takes the timers due in it, which is what `TimerWheel` shows.
A client reads `jiffies` and adds its timer in two steps, between which anything
may happen. Lateness is bounded by `LATE`: a thread goes on within `LATE` units
of the end of its sleep and is back at its sleep within `LATE` more, callbacks
included. No code asks for that, and without it nothing can be said about how
late a timer is; `NeverEarly` and `JiffiesRise` do not depend on it.

### Functions and loops

What has no state is a call: `FunctionCalls` has a variable `call` with the
function, its arguments and its result, and a module's properties compare the
result with the function's definition in mathematics. Widths are constants where
TLC's integers are too small for the real ones.

* `BitOps`: a word is the set of the positions of its ones, so that 32 and
  64 bits are modelled as they are. `BITS_PER_LONG` is 32, also where an
  `unsigned long` has 64 bits (`UlongBits`): `types.h:34,41` take it from
  `asm-generic/bitsperlong.h`, which says 32 unless an architecture's own header
  has been before it. `GENMASK` shifts from `BITS_PER_LONG`, its `~0UL` is an
  `unsigned long`.
* `Math64`: words of `W` bits and double words of `2W`. `do_div` is two `divl`s
  through `edx:eax`, with the trap when a quotient does not fit, as the i386
  build has it.
* `Conversions`: HZ = USER_HZ and both divide a second, so that one branch of
  each `#if` is built; units and widths are scaled down together, and
  `SEC_CONVERSION` and the others are computed from them as the macros do.
  `unsigned long` is as wide as an `unsigned int` (MinGW) or twice as wide
  (x86-64), while `BITS_PER_LONG` is 32 in both.
* `Delays`: `usleep` is external: it takes an `unsigned int` of microseconds and
  comes back after that time, or sooner on a signal. Nobody looks at its result.
* `Div64`, `Timespec64`, `MaskBits`, `RoundJiffies` have loops or read shared
  memory twice and so take several steps a call. `Div64` records which division has
  ended: `__div64_32` has the whole quotient, `__iter_div_u64_rem` cuts it to the
  `u32` it returns, and `QuotientAndRemainder` asks for no less. In `Timespec64` the
  carrying is done second by second, as the code does, and `sec` is cut to its word when it is
  stored, which modulo 2^64 is the same.
* `RoundJiffies`: `__round_jiffies_relative` reads `jiffies` into `j0` and
  `round_jiffies_common` reads it again; the clock may advance between them.
* `MaskBits`: a thread reads the word, computes, and exchanges it if it has not
  changed; `AtomicBits` has the effect in one step. The fairness is that a
  thread that is in the loop goes on.

## 3. Runs

| Run | Instance | Shows |
|---|---|---|
| `wheel` | 2 timers, 2 buckets a vector, 7-bit word, ticks 13 to 27 | `OnTime`, `IInv` (which holds `TypeOK`, `OnePlaceEach` and `Placement`), `FifoPerVector` |
| `wheel_long` | 1 timer, 4/2 buckets, 10-bit word, `IDX_MAX` 72, ticks 0 to 121 | `Placement` |
| `wheel_live` | 2 timers, ticks 13 to 21, timeouts now and 4 ahead, the clock may stall | `WorkerRests`, `ImplementsService`, `ServesTimers` |
| `lists` | 3 heads and 3 entries; 2 hash heads and 4 nodes | `ListInv` (`TypeOK`, `Rings`), `HListInv` (`HTypeOK`, `Chains`), `ListPredicates` |
| `apart` | 1 client, the worker and its callbacks, 2 timers, 3 buckets | `LockExcludesNobody`, `NoFault`, `RaceInv` (`RaceTypeOK`, `RingsAtRest`), `PendingAtRest`, `GoneIsGone`, `CascadeReachesAll` |
| `clock` | 1 timer, 7 ticks of 4 units, `jiffies` stops at the fifth, threads at most 1 unit late | `KeepsPace`, `RunsSoon`, `NeverEarly`, `WaitsLong` |
| `functions` | 32- and 64-bit words with few ones or one run; all operands of 3/6 bits; the dates of 1801 to 2201; all times of 9 bits | `FindsLast`, `FindsFirst`, `WordsAsDefined` (bits); `Divides`, `Multiplies`; `FollowsCalendar`; `TimeoutsRoundUp`, `UnitsAgree`, `Ordered` (conversions); `DelaysLast` |
| `loops` | all operands of 3/6 bits; all times of a 5-bit word; 3 threads, 2 bits; 16 jiffies a second | `QuotientAndRemainder`, `LoopsReturn`; `ExactTime`, `SafeSum`, `NsAgree`; `ImplementsAtomic`, `SomeCallReturns`; `StaysNear`, `TogetherOrOver`, `NotEaten` |
| `mod_timer` | as `wheel` | `ModTimerOnTime` is violated |
| `mod_unserialized` | 2 clients that call `mod_timer`, and the worker | `NoFault` is violated |
| `div64_u64` | all operands of 3/6 bits | `Divide64Exact` is violated |
| `init_twice` | 2 callers of `init_timers` | `InitializedOnce` is violated |

`lists`, `functions` and `loops` each run several modules that share nothing.
A behaviour is of one of them: the variables `kind` and `part` say which, and
`call` holds one call of one function. The state spaces therefore add up and do
not multiply, and each property speaks of its own part.

Bounds and why they are enough.

* Two buckets a vector are the smallest wheel with an index that is 0 and one that
  is not. One turn of tv1..tv4 is then 2^4 ticks; from tick 13 to 27 the worker
  meets a cascade of every depth, tv5 included (tick 16), and timeouts 0, 3, 6 and 13
  ahead are filed in tv1, tv2, tv3 and tv4. A timeout of -2 is in the past. Timeouts
  that are filed in tv5 are in `wheel_long` and `mod_timer`.
* The word has to be wide against the wheel (`WordAssumption`): 2^32 is against
  2^26, and 2^64 more so. `wheel_long` is the 64-bit case: timeouts beyond
  `IDX_MAX` are capped, those beyond half the word count as past, and tv5 (32 ticks
  a turn) goes round several times.
* `JIFFIES_MAX` is not only a bound for TLC: `timespec64_to_jiffies` saturates,
  so the clock really stops there. `4 * (JIFFIES_MAX + 2) <= WORD` is what
  `MAX_JIFFY_OFFSET = (LONG_MAX >> 1) - 1` gives.
* `Advances` are ticks per wake-up: 3 makes the worker process several ticks in a
  run, 0 is a sleep cut short by a signal.
* `Leftover` is what `->expires` holds before it is first set; `init_timer` does not
  initialise it.
* Two timers meet on a bucket, a work list, a `tv_list`; a callback can delete or
  re-arm the other one. Three entries have a first, a middle and a last.
* In `apart` one client and the worker, whose callbacks are calls as well, are two
  callers; more clients that are apart add no new kind of interleaving.
* In `clock` a round that is late, a sleep that is cut short and one that is not,
  and a timer of 0, 1 and 3 ticks meet within five ticks. Two more are after the
  last one that `jiffies` counts, and timers due in them stay pending. `END` stops
  the clock.
* Words of 3 and 6 bits have operands with a carry between all four partial
  products, divisors with and without a high half, and quotients that do not fit.
  All pairs are tried.
* `BitOps`: a search halves the word, so what matters is where the first and the
  last one are: words with at most two ones have all of these positions.
* Four hundred years are a whole cycle of the Gregorian calendar. The seconds are
  compared from 1902 to 2037, where they fit in TLC's integers; they are linear in
  the days.
* `RoundJiffies`: the system has been up for a second (`UpForASecond`): before,
  the skew of a processor may be larger than the time it is taken from (section 4).

Fairness. `WF(RunTimers)`: the worker is a thread that is never cancelled, the lock
it takes is taken by nobody else, and callbacks are assumed to return.
`WF(Wake)`: `usleep` returns. `SF(Wake with k > 0)`: the clock is `CLOCK_BOOTTIME`
and a full sleep is 10 ms, one tick at HZ = 100; a sleep may be cut short by a
signal, so that some rounds gain nothing. Clients owe nothing. With it
`ServesTimers` is the fairness of the abstract service: the clock keeps ticking,
callbacks return, and a bound timer that is due is run. `WorkerRests` shows that
callbacks cannot hold `__run_timers` in its loop by re-arming timers in the past.
In `loops` a running call goes on (WF of its steps, for each thread that is in
`set_mask_bits` its own); `Terminates` and `CallsReturn` are about calls that are
alone (together they are `LoopsReturn`), `SomeCallReturns` about the loops round
cmpxchg, where one thread may be overtaken for ever but not all of them.

## 4. Disagreements met

With a run that shows them:

* `mod_timer` (`src/timer.c:440`): `__mod_timer` files the timer, then sets
  `->expires`. The timer runs when its previous expiry says; the comment
  (475-477) says `mod_timer` is `del_timer`, assignment, `add_timer`. The run
  `mod_timer` gives the trace: `mod_timer(t, jiffies + 1)` on an idle timer is
  filed by its previous, past expiry and runs in the tick of `jiffies`, too early.
  `OnTime`, the proofs and the service therefore speak of the timers outside
  `misfiled`.
* `mod_unserialized` (`src/timer.c:426`): the comment (479-480) calls `mod_timer`
  the only safe way to modify a timer with several unserialised users. Two calls
  both find the timer pending and both detach it; the second writes through the
  poison the first has left in `entry.prev`.
* `div64_u64` (`src/div64.c:99`): the divisor is shifted by one bit more than it
  takes to fit it into a `u32`, so that the estimate may be too big by more than
  one, and its correction only ever adds one. `div64_u64(0xf052a22332884a85,
  0x100000007)` is 0xf052a21f and should be 0xf052a21c. `Divide64Bounded` says
  what is left of it. (The function is built where `BITS_PER_LONG` is 32.)
* `init_twice` (`src/timer.c:770`): `BUG_ON(initialized)` tests a variable that
  nothing sets. A second `init_timers` loses the pending timers and starts a
  second worker.

Met while modelling, with the property that says what the code does instead:

* "Timers are FIFO" (`src/timer.c:353-355`) holds among timers filed in the same
  vector (`FifoPerVector`), and not for all timers of a tick: one filed later in a
  nearer vector is there before an older one is cascaded.
* The comment of `lock_timer_base` (396-412) describes a lock that is held when it
  returns. It is not taken; the callers release it all the same, under the worker
  if it holds it. `LockExcludesNobody`: it is free whenever the worker comes for it.
* The comment of `mod_timer_pending` (458-460) says it will not re-activate a
  deleted timer. It tests `timer_pending` and files the timer later, and a
  `del_timer` in between is undone. `GoneIsGone` is for timers with no such call
  under way.
* The rest of `__mod_timer`: a timer that is filed, and cascaded before `->expires`
  is assigned (441), is filed by the old value again.
* `__ffs(1UL << 32)` is 31 on x86-64 (`ffs.h:42`): `BITS_PER_LONG` is that of
  `asm-generic/bitsperlong.h`, 32, and `unsigned long` has 64 bits. For the same
  reason `GENMASK(h, l)` (`bitops.h:50`) has the bits l to h + 32 there. `FindsFirst`
  and `MasksRange` are for words of `BITS_PER_LONG` bits. The asm of `div64.h` also
  means `edx:eax` by its constraint "A", which an x86-64 compiler reads as either
  register.
* `usecs_to_jiffies(4294947297)`, the last two ticks of an `unsigned int`, is the
  longest timeout (`jiffies.c:250`), as its limit is computed from a cut value:
  late, but never early (`UsecsNeverEarly`).
* `timespec64_to_jiffies` with a 64-bit `unsigned long`: `MAX_SEC_IN_JIFFIES` is
  larger than what the scaled product has room for, and from 5497558139 seconds on
  the product wraps (`jiffies.c:280`). `RoundsUp` is for the widths in which `long`
  is 32 bits (as in the run).
* `msleep(4294968)` asks for 4294968000 us, and `usleep` takes an `unsigned int`
  (`timer.c:746`): it returns after 704 us. `SleepsEnough` is for delays that fit.
* `jiffies_to_usecs`, and with it `jiffies_to_nsecs`, is cut to an `unsigned int`:
  `NsecsAgree` says from where on.
* `msleep_interruptible` returns what was asked for and one to two ticks more,
  whatever has been slept (`timer.c:801`, `TellsNoRest`); a caller that sleeps the
  rest as in the kernel would never finish.
* `round_jiffies` before the first second of uptime (`timer.c:151`):
  `__round_jiffies(10, 1)` is 2^64 - 3 with a 64-bit `long`. `StaysNear` is for
  later (`UpForASecond`).
* The comment at `jiffies.h:214-216` counts with a `jiffies` that is up to date
  within a tick; here it is as old as the worker's sleep. `WaitsLong` says how much
  shorter a wait may be.
* `order_base_2(0)` is 0, says the comment at `log2.h:211`. The code computes
  `1UL << fls_long(0 - 1)` (`log2.h:77`), a shift by the whole width, which C leaves
  undefined: x86's `shl` gives 1 and so an order of 0, folded to 0 the order is -1.
  Rounding up beyond the highest power of two shifts by the whole width as well.
  `BitOps` does not call either.

`if (j <= jiffies)` in `round_jiffies_common` is not safe against a wrap of
`jiffies`, and need not be: `jiffies` saturates and does not wrap.

## 5. Proofs

| Theorem | Statement |
|---|---|
| `Invariance` | `Spec => []IInv` of `TimerWheel` |
| `TypeCorrect`, `StructureCorrect`, `PlacementCorrect` | `TypeOK`, `OnePlaceEach`, `Placement` |
| `Punctuality` | `Spec => []OnTime` |
| `Refinement` | `Spec => ImplementsService`, the safety part of the service |
| `FifoUncapped`, `FifoOnShortWords` | `FifoPerVector` of `TimerFifo`, while no timeout is beyond the reach of the wheel; with 32-bit `long`s always |
| `LockUseless` | `RaceSpec => []LockExcludesNobody`, with nothing to keep threads apart |
| `ControlCorrect` | `RaceSpec => []ControlInv`: types, the threads' local variables, the owner of the lock |
| `RacePlanned` | `ApartSpec => []RaceIInv`: the plan behind the stores under way |
| `RaceRings`, `RaceFaultless`, `RacePending`, `RaceGone`, `RaceCascade` | `RaceInv`, `NoFault`, `PendingAtRest`, `GoneIsGone`, `CascadeReachesAll` of `TimerRace` under `ApartSpec` |
| `PaceKept`, `NoTimerLate` | `KeepsPace`, `RunsSoon` of `TimerClock`: up to the last tick that `jiffies` counts |
| `NoTimerEarly`, `LongEnough`, `JiffiesNeverBack` | the action properties `NeverEarly`, `WaitsLong`, `JiffiesRise` |
| `NearInvariance`, `TogetherInvariance`, `NothingEaten`, `RoundTypes` | `StaysNear`, `TogetherOrOver`, `NotEaten`, `RoundTypeOK` of `RoundJiffies` |
| `DividesRight`, `LoopsConserve`, `DivTypes` | `QuotientAndRemainder`, `Conserved`, `DivTypeOK` of `Div64` |
| `CarriesRight`, `AddsExactly`, `AddsSafely` | `CarriesExactly`, `ExactTime`, `SafeSum` of `Timespec64` |
| `NsAgrees` | `NsAgree` of `Timespec64`: nanoseconds there and back, and the comparison |
| `LastIsFound`, `OrdersRight` | `FindsLast`, and `OrdersAndPowers`, `RotatesAll`, `ExtendsSign` of `BitOps`, `long`s of 32 or 64 bits |
| `FirstIsFound`, `WordsRight` | `FindsFirst`, `WordsAsDefined` of `BitOps` where a `long` has `BITS_PER_LONG` bits |
| `MacrosAtomic` | `MaskSpec => ImplementsAtomic` |
| `ListInvariance`, `HListInvariance` | `ListInv` of `KernelList`, `HListInv` of `KernelHList` |
| `PredicatesTrue` | `ListPredicates`: `list_empty`, `list_is_last` and others answer what the sequence says |
| `CalendarFollowed` | `FollowsCalendar` of `Calendar` |
| `TimesOrdered` | `Ordered` of `Conversions`: the comparisons of times, round the end of the word |
| `RoundedUp`, `UnitsRight` | `TimeoutsRoundUp`, `UnitsAgree` of `Conversions`, with the values of the build |
| `DelaysAsAsked` | `DelaysLast` of `Delays` |
| `DivisionsRight`, `ProductsRight` | `Divides`, `Multiplies` of `Math64` |

### TimerWheelProofs

For every set of timers, wheel size, word width, cap and set of timeouts under three
assumptions: the wheel has buckets; the word is at least twice as wide as
tv1..tv4 together and four times the clock's range, and `IDX_MAX` reaches tv5; the
clock starts in its range.

`OnTime` is not inductive: it says nothing of where a timer sits, and
a timer in the wrong bucket is on time until the wheel gets there. `Placement` says
where timers sit: in tv1 within one turn of the wheel and in the bucket of their
tick; in an outer vector such that some block start `k * Gran[l]`, not past, not
after the due tick and of the bucket's index, is still to come, at which the
bucket is cascaded. `level >= l => timer_jiffies # k * Gran[l]` says that a cascade
which has been through a vector leaves nothing in it for this tick. A timer being
cascaded has to be filed nearer again without counting as past, whence
`due < timer_jiffies + WORD \div 2`.

Lemmas in order: lists without duplicates (`DetachLists`, `LinkLists`, `MoveLists`,
`PopLists`), arithmetic (`ModSmall`, `ModUnique`, `ClockOrder`: the signed comparison
is the plain one in the clock's range), `FilePlaced` (`internal_add_timer` files a
timer where `Placed` wants it), `BoundaryIndex` (a tick that starts a block of an
outer vector has index 0 in all nearer ones, so that the cascade gets there), then
one lemma per kind of step, `NextInvariant`, and the theorems. `Refinement` maps
each step: filing is `Set`, `del_timer` is `Cancel`, entering a callback is `Run`
(by `Placement` of the work list), opening a tick is `Tick` (by `OnTime`, as the
work list is empty), everything else stutters.

### The other proofs

* `TimerClockProofs`, for every tick length, lateness, number of timers and set of
  waits, with one caller of `init_timers` (with two they are false,
  `init_twice`). `ClockInv` bounds, for each place the worker may be at, how old
  `ti` and `jiffies` are and by when the thread must go on; what holds of a timer
  follows because its deadline only depends on the round it was added in. Both
  have the case that `jiffies` has come to `MAX_TICKS`, where only the upper bounds
  are left (`KeepsPace`, `RunsSoon` end there); `NeverEarly` and `WaitsLong` go on.
* `RoundJiffiesProofs`, for every HZ, skew, word and behaviour of the clock, after a
  second of uptime. `RoundsNear` is the arithmetic of rounding without wrap;
  `RoundInv` holds what the first read of `jiffies` has to do with the second.
* `Arithmetic64Proofs`, for every width of a word and length of a second. `DivInv`
  adds to `Conserved` that `b` is the divisor times a power of two that fits in the
  word, so that it is never shifted out (`Powers`). `CarryInv`: the loops of
  `set_normalized_timespec64` keep the sum; `ResultInv`: the stored time is the normal
  form of the sum cut to the word (`OneNormalForm`, `CutToWord`). `NsInv` is what
  makes `NsAgree` inductive: for `ns_to_timespec64`, `timespec64_to_ns` and the
  comparison there is nothing to carry.
* `BitOpsProofs`, for all words, not only those TLC tries. `FlsLast`, `FfsFirst`
  follow the tests one by one: each moves the last (first) one by as much as it
  adds to the count (`UpperEmptyMoves`, `LowerEmptyMoves`). For `WordsAsDefined`
  words are sets of bits: `PredCuts` says which ones `x - 1` has, on which the tests
  for a power of two and the rounding to one rest (`OrderIs`, `UpIs`, `DownIs`), and
  `RoundTheWord` where a rotated bit goes. `long` has 32 or 64 bits in
  `LastIsFound` and `OrdersRight`, and those of `BITS_PER_LONG` in `FirstIsFound` and
  `WordsRight`, which have the search and the masks that count from it. What a
  shift by the whole width gives is left open.
  The loops round cmpxchg, for all threads, words and calls, are a refinement, step
  by step: the effect is at the exchange that succeeds or, for a `bit_clear_unless`
  that finds a tested bit, at the read. `MaskInv` says what each thread's copies are.
* `KernelListProofs`, for any number of heads and entries, from the assumption that
  no head is an entry and none of the three values that point nowhere is a node. The
  inductive `Inv` is `Holds(mem, seq, live)`: the memory is typed, no entry is on the
  lists twice, heads that are not in use have no list, and each list in use is a
  `Ring`, stated position by position (`RingIs`: this is `IsRing`). That no entry is
  there twice is what makes it inductive: it tells that the pointers a function
  writes are in no other ring (`OthersKept`). One lemma per function gives its
  pointers, with each assignment in order (`JoinIs`, `InsertIs`, `InitIs`,
  `SpliceIs` and those of `list_replace` and the cuts); one per action, that the ring
  it leaves is that of the caller's new sequence.

  Hash lists (`HInv`) are chains from a head, each node's `pprev` the cell that
  points to it; `ElemsAssumption` also has it that no such cell is NULL or poison.
* `FunctionProofs`, for words, units and years of every size. As nothing can be
  proved by induction over numbers here, powers of two are counted: a set of n
  elements has 2^n subsets (`PowerCounts`), and those of two disjoint sets are pairs
  (`PowerSum`). That a set of naturals has a least element (`LeastNatural`) comes from
  the library's well-foundedness of `<`. `LongDivision` is why the second `divl`
  cannot trap, `Estimated` and `Corrected` why `div64_u64` is never below the
  quotient, `DigitsOfProduct` why four partial products lose no carry.
  `NotCut`, `SignOfDifference` say when counting modulo a word is counting. The
  assumptions are that a second is a whole number of ticks and of the units, that
  there are fewer ticks in it than half the words of an `unsigned int` (`jiffies.h`
  refuses an HZ of 12288 or more) and that the years go from before 1970 to after.

  `RoundedUp` and `UnitsRight` are for `BuildValues`: HZ of 100, decimal units, words
  of 32 bits, which TLC's integers are too short for. How far the scaled constants
  are off depends on HZ and the widths together (`BuildScales`). That of a second is
  exact; that of a nanosecond is 518016 / 10000000 too much in units of 2^-54 tick,
  too little for a second's nanoseconds to reach the next tick (`ScaledTicks`).
  The width of `long` matters. With 64 bits, as on Linux, which still takes the
  branches of `BITS_PER_LONG == 32`, the product in `MAX_SEC_IN_JIFFIES` wraps in its
  `u64`, to about 584 years, and that with `SEC_CONVERSION` in
  `timespec64_to_jiffies` after 174 years: `TimeoutsRoundUp` does not hold of such times.

### TimerFifo and TimerRaceProofs

`FifoPerVector` is not true of every timeout: when `long` has 64 bits, timers beyond
`IDX_MAX` are capped to the same bucket of tv5 and may come out of it in another order
than they went in. `FifoUncapped` therefore assumes of every state that timers are
within the reach of the wheel (`WithinReach`); on 32-bit words this is always so.
`InOrder` orders the timers of one tick in one vector by the time they were set,
the lists under way included; a cascade keeps it because it only starts when the
nearer vectors hold nothing of the blocks it opens (`Boundary`, `BlockLater`).

`RaceIInv` is the inductive invariant of `ApartSpec`, for every set of threads, timers
and buckets that are different nodes. The memory is never a set of rings while
assignments are under way, so the invariant says what it is about to be: `Expects`
claims a memory in which every list in use holds its sequence, and every pointer,
the loose ones of a cascade and of a half-done `list_replace_init` excepted, settles
to that memory's value once the stores queued by all threads have arrived, in
whatever order the threads take turns. `QueueInv` says which nodes the queued
stores write and that they are those the thread relies on, `Apart` that no other
thread does, `PlaceInv` which lists a thread is in the middle of. That a store
arrives changes nothing of what is expected; that a thread plans the next operation
changes it by what `KernelListProofs` shows of that operation. Being apart is a
hypothesis of the specification and not proved of the code (`mod_unserialized`
shows that the code does not ensure it); `LockUseless` does without it.

Only model-checked is everything under fairness (`WorkerRests`, `ServesTimers`,
`LoopsReturn`, `SomeCallReturns`), since liveness and ENABLED are beyond the prover;
and the conversions for the small words and units of `functions`.

## 6. Not modelled, and why

* `del_timer_sync` against a running callback: it is `del_timer` by a macro, and
  nothing in the repository says that it waits, so that there is nothing to check
  it against. A timer may be freed under its own callback; freeing is the client's.
* Client calls before `init_timers` returns: the heads are null pointers then.
* `next_timer`, `running_timer`, the deferrable bit: written, never read to any
  effect (`init_timer_deferrable_key` is declared and not defined).
* Branches of `#if` that the build does not have: HZ that does not divide a second,
  HZ other than USER_HZ, `BITS_PER_LONG == 64`, `do_div` without the asm.
* Constant-folding forms (`const_ilog2`, the `__builtin_constant_p` branches of
  `log2.h`): the compiler's, of the same value as the functions.
* Weak memory: `TimerRace` has every thread's stores in its order, as on x86.
* Windows glue (`uki_clock_gettime`, `uki_usleep` for MinGW): thin calls into
  `windows.h`.
* Assertions, allocation, `container_of`, type checks: macros without state; a
  `BUG_ON` that can be reached is a guard or a property of the module concerned.
* The test program is not modelled; what it asserts of the running clock and of a
  timer's lateness is `JiffiesRise` and `RunsSoon`.

## 7. What is left

`TimeoutsRoundUp` and `UnitsAgree` for a `long` of 64 bits and times that do not wrap; a
composition of `TimerClock` with the wheel itself in place of its result. The last
is within reach of TLC only for wheels too small to cascade twice within the few
ticks that remain.
