---------------------------- MODULE Conversions ----------------------------
(***************************************************************************)
(* The conversions between jiffies and other units of src/jiffies.c and    *)
(* src/uki/jiffies.h, and their comparisons of times.  The build has HZ =  *)
(* USER_HZ = 100 and BITS_PER_LONG == 32, and with them one branch of      *)
(* every #if; the units, the widths and the scales are constants here.  A  *)
(* step is one call.                                                       *)
(***************************************************************************)
EXTENDS Integers, FunctionCalls

CONSTANTS
    HZ, MSEC_PER_SEC, USEC_PER_SEC, NSEC_PER_SEC,
    IntBits,       \* an unsigned int or u32; a u64 has twice as many
    LongBits,      \* an unsigned long: IntBits (MinGW) or 2 * IntBits (Linux)
    NSEC_SHIFT     \* the 29 of NSEC_JIFFIE_SC

ASSUME UnitsAssumption ==
    /\ {HZ, MSEC_PER_SEC, USEC_PER_SEC, NSEC_PER_SEC} \subseteq Nat \ {0}
    /\ MSEC_PER_SEC % HZ = 0 /\ USEC_PER_SEC % HZ = 0 /\ NSEC_PER_SEC % HZ = 0
    /\ NSEC_PER_SEC % USEC_PER_SEC = 0

ASSUME WidthsAssumption ==
    /\ IntBits \in Nat /\ IntBits > 2 /\ LongBits \in {IntBits, 2 * IntBits}
    /\ HZ < 2^(IntBits - 1)
    /\ 2^NSEC_SHIFT <= NSEC_PER_SEC /\ NSEC_PER_SEC < 2^(NSEC_SHIFT + 1)

uint == 0..(2^IntBits - 1)
ulong == 0..(2^LongBits - 1)

Uint(x) == x % 2^IntBits
Ulong(x) == x % 2^LongBits
Ullong(x) == x % 2^(2 * IntBits)

Signed(x, bits) == IF x >= 2^(bits - 1) THEN x - 2^bits ELSE x

NSEC_PER_USEC == NSEC_PER_SEC \div USEC_PER_SEC
TICK_NSEC == (NSEC_PER_SEC + HZ \div 2) \div HZ
MAX_JIFFY_OFFSET == (2^(LongBits - 1) - 1) \div 2 - 1

\* The nearest power of two to HZ, the boundaries at three quarters.
SHIFT_HZ == CHOOSE s \in 0..IntBits : 3 * 2^s <= 4 * HZ /\ 4 * HZ < 3 * 2^(s + 1)

\* One bit more when the highest bit of the word is free.
SEC_JIFFIE_SC ==
    LET s == IntBits - 1 - SHIFT_HZ
        top == ((NSEC_PER_SEC * 4) \div TICK_NSEC) * 2^(s - 2)
    IN  IF (top \div 2^(IntBits - 1)) % 2 = 1 THEN s ELSE s + 1

NSEC_JIFFIE_SC == SEC_JIFFIE_SC + NSEC_SHIFT

SEC_CONVERSION ==
    Ulong((NSEC_PER_SEC * 2^SEC_JIFFIE_SC + TICK_NSEC - 1) \div TICK_NSEC)

NSEC_CONVERSION ==
    Ulong((2^NSEC_JIFFIE_SC + TICK_NSEC - 1) \div TICK_NSEC)

\* Computed in a u64, as BITS_PER_LONG < 64 has it.
MAX_SEC_IN_JIFFIES == Ullong(MAX_JIFFY_OFFSET * TICK_NSEC) \div NSEC_PER_SEC
-----------------------------------------------------------------------------
\* Mutant: the microseconds are not cut to an unsigned int.
jiffies_to_usecs_wide(j) == (USEC_PER_SEC \div HZ) * j

jiffies_to_msecs(j) == Uint((MSEC_PER_SEC \div HZ) * j)
jiffies_to_usecs(j) == Uint((USEC_PER_SEC \div HZ) * j)
jiffies_to_nsecs(j) == Ullong(jiffies_to_usecs(j) * NSEC_PER_USEC)

\* Rounded up, in a long: the _msecs_to_jiffies and _usecs_to_jiffies that
\* msecs_to_jiffies and usecs_to_jiffies have for variables and constants.
RoundedMsecs(m) ==
    LET tick == MSEC_PER_SEC \div HZ IN Ulong(m + tick - 1) \div tick

RoundedUsecs(u) ==
    LET tick == USEC_PER_SEC \div HZ IN Ulong(u + tick - 1) \div tick

\* A negative int is an infinite timeout.
msecs_to_jiffies(m) ==
    IF m >= 2^(IntBits - 1) THEN MAX_JIFFY_OFFSET ELSE RoundedMsecs(m)

\* Mutant: the limit is dropped, and the sum wraps in a long of IntBits.
usecs_to_jiffies_wrapped(u) == RoundedUsecs(u)

usecs_to_jiffies(u) ==
    IF u > jiffies_to_usecs(MAX_JIFFY_OFFSET) THEN MAX_JIFFY_OFFSET
                                              ELSE RoundedUsecs(u)

\* Mutant: the nanoseconds are not rounded up.
timespec64_to_jiffies_down(sec, nsec) ==
    LET cut == sec >= MAX_SEC_IN_JIFFIES
        s == IF cut THEN MAX_SEC_IN_JIFFIES ELSE sec
        n == IF cut THEN 0 ELSE nsec
    IN  Ulong(Ullong(Ullong(s * SEC_CONVERSION)
                  + Ullong(n * NSEC_CONVERSION) \div 2^(NSEC_JIFFIE_SC - SEC_JIFFIE_SC))
              \div 2^SEC_JIFFIE_SC)

\* Seconds are compared as a u64, so that negative ones are cut, too.
timespec64_to_jiffies(sec, nsec) ==
    LET cut == sec >= MAX_SEC_IN_JIFFIES
        s == IF cut THEN MAX_SEC_IN_JIFFIES ELSE sec
        n == IF cut THEN 0 ELSE nsec + TICK_NSEC - 1
    IN  Ulong(Ullong(Ullong(s * SEC_CONVERSION)
                  + Ullong(n * NSEC_CONVERSION) \div 2^(NSEC_JIFFIE_SC - SEC_JIFFIE_SC))
              \div 2^SEC_JIFFIE_SC)

\* The seconds pass through an unsigned long.
timeval_to_jiffies(sec, usec) ==
    timespec64_to_jiffies(Ulong(sec), usec * NSEC_PER_USEC)

\* Mutant: the product is an unsigned long.
jiffies_to_timespec64_long(j) ==
    LET ns == Ulong(j * TICK_NSEC)
    IN  [sec |-> ns \div NSEC_PER_SEC, nsec |-> ns % NSEC_PER_SEC]

jiffies_to_timespec64(j) ==
    LET ns == Ullong(j * TICK_NSEC)
    IN  [sec |-> ns \div NSEC_PER_SEC, nsec |-> ns % NSEC_PER_SEC]

jiffies_to_timeval(j) ==
    LET ts == jiffies_to_timespec64(j)
    IN  [sec |-> ts.sec, usec |-> ts.nsec \div NSEC_PER_USEC]

\* USER_HZ is HZ: a clock_t counts jiffies.
jiffies_to_clock_t(x) == x
jiffies_delta_to_clock_t(delta) ==
    jiffies_to_clock_t(IF delta > 0 THEN delta ELSE 0)
jiffies_64_to_clock_t(x) == x
clock_t_to_jiffies(x) == IF x >= 2^LongBits - 1 THEN 2^LongBits - 1 ELSE x

nsec_to_clock_t(x) == x \div (NSEC_PER_SEC \div HZ)
nsecs_to_jiffies64(n) == n \div (NSEC_PER_SEC \div HZ)
nsecs_to_jiffies(n) == Ulong(nsecs_to_jiffies64(n))
jiffies64_to_nsecs(j) == Ullong((NSEC_PER_SEC \div HZ) * j)
-----------------------------------------------------------------------------
\* Mutant: compares the counts themselves.
time_after_plain(a, b) == a > b

\* The sign of the difference.
time_after(a, b) == Signed(Ulong(b - a), LongBits) < 0
time_before(a, b) == time_after(b, a)
time_after_eq(a, b) == Signed(Ulong(a - b), LongBits) >= 0
time_before_eq(a, b) == time_after_eq(b, a)
time_in_range(a, b, c) == time_after_eq(a, b) /\ time_before_eq(a, c)
time_in_range_open(a, b, c) == time_after_eq(a, b) /\ time_before(a, c)

time_after64(a, b) == Signed(Ullong(b - a), 2 * IntBits) < 0
time_before64(a, b) == time_after64(b, a)
time_after_eq64(a, b) == Signed(Ullong(a - b), 2 * IntBits) >= 0
time_before_eq64(a, b) == time_after_eq64(b, a)
time_in_range64(a, b, c) == time_after_eq64(a, b) /\ time_before_eq64(a, c)

time_is_before_jiffies(jiffies, a) == time_after(jiffies, a)
time_is_after_jiffies(jiffies, a) == time_before(jiffies, a)
time_is_before_eq_jiffies(jiffies, a) == time_after_eq(jiffies, a)
time_is_after_eq_jiffies(jiffies, a) == time_before_eq(jiffies, a)
-----------------------------------------------------------------------------
\* Seconds below, at and above the limits, and negative ones, as a u64.
Seconds == 0..2^(IntBits + 2) \cup (2^(2 * IntBits) - 8)..(2^(2 * IntBits) - 1)

\* Counts of nanoseconds and of jiffies on both sides of an unsigned long, and
\* the greatest.
Counts == 0..2^(LongBits + 2) \cup (2^(2 * IntBits) - 64)..(2^(2 * IntBits) - 1)

\* Well-formed timespecs and timevals.
ToJiffies ==
    /\ call = Idle
    /\ \/ \E m \in uint : Call("msecs", <<m>>, msecs_to_jiffies(m))
       \/ \E u \in uint : Call("usecs", <<u>>, usecs_to_jiffies(u))
       \/ \E sec \in Seconds, nsec \in 0..(NSEC_PER_SEC - 1) :
             Call("timespec", <<sec, nsec>>, timespec64_to_jiffies(sec, nsec))
       \/ \E sec \in ulong, usec \in 0..(USEC_PER_SEC - 1) :
             Call("timeval", <<sec, usec>>, timeval_to_jiffies(sec, usec))
       \/ \E n \in Counts : Call("nsecs64", <<n>>, nsecs_to_jiffies64(n))
       \/ \E n \in Counts : Call("nsecs", <<n>>, nsecs_to_jiffies(n))

\* There and back.
FromJiffies ==
    /\ call = Idle
    /\ \E j \in ulong :
          \/ Call("via msecs", <<j>>, msecs_to_jiffies(jiffies_to_msecs(j)))
          \/ Call("via usecs", <<j>>, usecs_to_jiffies(jiffies_to_usecs(j)))
          \/ LET ts == jiffies_to_timespec64(j)
             IN  Call("via timespec", <<j>>, timespec64_to_jiffies(ts.sec, ts.nsec))
          \/ LET tv == jiffies_to_timeval(j)
             IN  Call("via timeval", <<j>>, timeval_to_jiffies(tv.sec, tv.usec))
          \/ Call("via clock_t", <<j>>, clock_t_to_jiffies(jiffies_to_clock_t(j)))
          \/ Call("via nsecs", <<j>>, nsecs_to_jiffies(jiffies64_to_nsecs(j)))

Others ==
    /\ call = Idle
    /\ \/ \E j \in ulong : Call("to nsecs", <<j>>, jiffies_to_nsecs(j))
       \/ \E j \in Counts :
             \/ Call("to clock_t", <<j>>, nsec_to_clock_t(jiffies64_to_nsecs(j)))
             \/ Call("to clock64", <<j>>, jiffies_64_to_clock_t(j))
       \/ \E j \in ulong : Call("delta", <<Signed(j, LongBits)>>,
                                jiffies_delta_to_clock_t(Signed(j, LongBits)))

\* A stamp d jiffies after (or, d < 0, before) jiffies, which is j: about the
\* wrap and about the change of sign.
Compare ==
    /\ call = Idle
    /\ \E j \in {0, HZ, 2^(LongBits - 1) - 1, 2^LongBits - 1},
          d \in (-2^(LongBits - 1) + 1)..(2^(LongBits - 1) - 1) :
          LET a == Ulong(j + d)
          IN  \/ Call("after", <<j, d>>, time_is_after_jiffies(j, a))
              \/ Call("after_eq", <<j, d>>, time_is_after_eq_jiffies(j, a))
              \/ Call("before", <<j, d>>, time_is_before_jiffies(j, a))
              \/ Call("before_eq", <<j, d>>, time_is_before_eq_jiffies(j, a))
              \/ \E r \in {1, HZ, MAX_JIFFY_OFFSET} :
                    Call("in range", <<j, d, r>>,
                         <<time_in_range(a, j, Ulong(j + r)),
                           time_in_range_open(a, j, Ulong(j + r))>>)

\* The same for u64 counts, the stamps near and as far as they may be.
Compare64 ==
    /\ call = Idle
    /\ \E j \in {0, 2^(2 * IntBits) - 1},
          d \in {e \in (-2^(2 * IntBits - 1) + 1)..(2^(2 * IntBits - 1) - 1) :
                   (e + HZ) % 2^(2 * IntBits - 1) < 3 * HZ} :
          LET a == Ullong(j + d)
          IN  \/ Call("after", <<j, d>>, time_after64(a, j))
              \/ Call("after_eq", <<j, d>>, time_after_eq64(a, j))
              \/ Call("before", <<j, d>>, time_before64(a, j))
              \/ Call("before_eq", <<j, d>>, time_before_eq64(a, j))
              \/ Call("in range", <<j, d, HZ>>,
                      <<time_in_range64(a, j, Ullong(j + HZ)),
                        time_in_range64(a, j, Ullong(j + HZ - 1))>>)

ConvInit == call = Idle

ConvNext == ToJiffies \/ FromJiffies \/ Others \/ Compare \/ Compare64 \/ Return

ConvSpec == ConvInit /\ [][ConvNext]_call
-----------------------------------------------------------------------------
Ceil(x, unit) == (x + unit - 1) \div unit

Arg == call.args[1]

\* The whole seconds that MAX_JIFFY_OFFSET jiffies last.
Limit == MAX_JIFFY_OFFSET \div HZ

\* msecs_to_jiffies, timespec64_to_jiffies and timeval_to_jiffies give the
\* least number of ticks that lasts as long as was asked, although the scaled
\* constants are only approximate and the intermediate results are cut to
\* words; what is too long or negative gives the longest timeout.
RoundsUp ==
    /\ Called("msecs") =>
          call.result = IF Arg < 2^(IntBits - 1) THEN Ceil(Arg * HZ, MSEC_PER_SEC)
                                                 ELSE MAX_JIFFY_OFFSET
    /\ Called("timespec") =>
          call.result =
             IF Arg < Limit THEN Ceil(Arg * NSEC_PER_SEC + call.args[2], TICK_NSEC)
                            ELSE Limit * HZ
    /\ Called("timeval") =>
          call.result =
             IF Arg < Limit THEN Ceil(Arg * USEC_PER_SEC + call.args[2],
                                      USEC_PER_SEC \div HZ)
                            ELSE Limit * HZ

\* The rounding up of usecs_to_jiffies never wraps to a shorter timeout; it
\* is exact but for the last two ticks an unsigned int can ask for.
UsecsNeverEarly ==
    Called("usecs") =>
        LET tick == USEC_PER_SEC \div HZ
            exact == Ceil(Arg, tick)
        IN  /\ call.result >= exact
            /\ Arg <= 2^IntBits - 2 * tick => call.result = exact

\* A number of jiffies survives being handed on in another unit and
\* converted back as long as the other unit's type has room for it.
RoundTrip ==
    LET Survives(fn, fits) == Called(fn) /\ fits => call.result = Arg
        usecs == (USEC_PER_SEC \div HZ) * Arg
    IN  /\ Survives("via msecs", (MSEC_PER_SEC \div HZ) * Arg < 2^(IntBits - 1))
        /\ Survives("via usecs", usecs <= 2^IntBits - 2 * (USEC_PER_SEC \div HZ))
        /\ Survives("via timespec", Arg <= Limit * HZ)
        /\ Survives("via timeval", Arg <= Limit * HZ)
        /\ Survives("via clock_t", TRUE)
        /\ Survives("to clock64", TRUE)
        /\ Survives("via nsecs", TICK_NSEC * Arg < 2^(2 * IntBits))
        /\ Survives("to clock_t", TICK_NSEC * Arg < 2^(2 * IntBits))

\* jiffies_to_nsecs goes through an unsigned int of microseconds: it agrees
\* with jiffies64_to_nsecs just as long as these fit, and is short from there.
NsecsAgree ==
    Called("to nsecs") =>
        /\ call.result <= jiffies64_to_nsecs(Arg)
        /\ (call.result = jiffies64_to_nsecs(Arg))
              <=> (Arg * (USEC_PER_SEC \div HZ) < 2^IntBits)

\* Times less than half the range of an unsigned long apart are ordered as
\* they were taken, also when the clock has wrapped between them.
Ordered ==
    LET d == call.args[2]
    IN  /\ Called("after") => call.result = (d > 0)
        /\ Called("after_eq") => call.result = (d >= 0)
        /\ Called("before") => call.result = (d < 0)
        /\ Called("before_eq") => call.result = (d <= 0)
        /\ Called("in range") =>
              call.result = <<d \in 0..call.args[3], d \in 0..(call.args[3] - 1)>>

\* No conversion to jiffies gives less than the time asked for, nor more than
\* it must.
TimeoutsRoundUp == RoundsUp /\ UsecsNeverEarly

\* Jiffies handed on in other units come back, and the ways agree.
UnitsAgree == RoundTrip /\ NsecsAgree
=============================================================================
