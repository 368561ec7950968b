------------------------------- MODULE Delays -------------------------------
(***************************************************************************)
(* msleep and msleep_interruptible of src/timer.c, ndelay and ssleep of    *)
(* delay.h, in a POSIX build: the calling thread sleeps by usleep, which   *)
(* takes an unsigned int of microseconds and comes back early when a       *)
(* signal is handled.                                                      *)
(***************************************************************************)
EXTENDS Conversions

CONSTANT Signals   \* whether signals are handled

ASSUME SignalsAssumption == Signals \in BOOLEAN

USEC_PER_MSEC == USEC_PER_SEC \div MSEC_PER_SEC

DelayFunctions == {"msleep", "msleep_interruptible", "ssleep", "ndelay"}

\* uki_usleep(usec) hands a uint64_t to usleep.
uki_usleep(usec) == Uint(usec)

\* Mutant: ndelay rounds down.
MicrosecondsDown(f, x) ==
    CASE f = "ndelay" -> x \div NSEC_PER_USEC
      [] f = "ssleep" -> Ulong(Uint(x * MSEC_PER_SEC) * USEC_PER_MSEC)
      [] OTHER -> Ulong(x * USEC_PER_MSEC)

\* The microseconds a function asks uki_usleep for.
Microseconds(f, x) ==
    CASE f = "ndelay" -> Ulong(x + NSEC_PER_USEC - 1) \div NSEC_PER_USEC
      [] f = "ssleep" -> Ulong(Uint(x * MSEC_PER_SEC) * USEC_PER_MSEC)
      [] OTHER -> Ulong(x * USEC_PER_MSEC)

\* Mutant: one more tick is added.
SleepResultAbove(f, x) ==
    IF f = "msleep_interruptible"
    THEN jiffies_to_msecs(msecs_to_jiffies(x) + 2) ELSE 0

\* What a function returns when uki_usleep is back; 0 for void.
SleepResult(f, x) ==
    IF f = "msleep_interruptible"
    THEN jiffies_to_msecs(msecs_to_jiffies(x) + 1) ELSE 0

\* uki_usleep comes back after the whole time or because of a signal; nobody
\* looks at what usleep returned.
Delay ==
    /\ call = Idle
    /\ \E f \in DelayFunctions, x \in uint :
          LET whole == uki_usleep(Microseconds(f, x))
          IN  \E slept \in {whole} \cup (IF Signals THEN 0..whole ELSE {}) :
                 Call(f, <<x, slept, slept < whole>>, SleepResult(f, x))

DelayInit == call = Idle

DelayNext == Delay \/ Return

DelaySpec == DelayInit /\ [][DelayNext]_call
-----------------------------------------------------------------------------
\* The microseconds that x stands for, the product as in mathematics.
Wanted(f, x) ==
    CASE f = "ndelay" -> (x + NSEC_PER_USEC - 1) \div NSEC_PER_USEC
      [] f = "ssleep" -> x * MSEC_PER_SEC * USEC_PER_MSEC
      [] OTHER -> x * USEC_PER_MSEC

\* A delay that fits into usleep's argument is slept to its end, nanoseconds
\* rounded up, unless a signal comes; only the longest ndelays wrap before
\* they are rounded.
SleepsEnough ==
    call.fn \in DelayFunctions =>
        LET x == call.args[1]
            wraps == call.fn = "ndelay" /\ x + NSEC_PER_USEC - 1 >= 2^LongBits
            cut == call.args[3]
        IN  Wanted(call.fn, x) < 2^IntBits /\ ~ wraps /\ ~ cut
               => call.args[2] >= Wanted(call.fn, x)

\* What msleep_interruptible returns says nothing of the time slept: it is one
\* to two ticks more than what was asked for, so that a caller who took it for
\* the time that is left would never finish.
TellsNoRest ==
    LET x == call.args[1]
        tick == MSEC_PER_SEC \div HZ
    IN  Called("msleep_interruptible") /\ x < 2^(IntBits - 1) - 2 * tick
            => x + tick <= call.result /\ call.result < x + 2 * tick

\* A delay lasts, and its result is no remainder of it.
DelaysLast == SleepsEnough /\ TellsNoRest
=============================================================================
