----------------------------- MODULE Timespec64 -----------------------------
(***************************************************************************)
(* Times in seconds and nanoseconds: the timespec64 functions of           *)
(* src/uki/time64.h and src/jiffies.c.  set_normalized_timespec64, through *)
(* which they add and subtract, is run loop by loop; the others are one    *)
(* step.  A time is [sec, nsec]; both are signed words, and a second has N *)
(* nanoseconds.                                                            *)
(***************************************************************************)
EXTENDS Integers

CONSTANTS
    N,      \* NSEC_PER_SEC
    U32,    \* 2^32
    TOP    \* an s64 is one of -TOP..(TOP - 1); 2^63

ASSUME SecondAssumption == N \in Nat \ {0}
ASSUME WordAssumption == U32 \in Nat \ {0} /\ TOP \in Nat /\ N < TOP

VARIABLES
    tsPc,   \* "idle", "down", "up" (the two loops), "store", "done"
    tsCall, \* the function called and its arguments
    sec, nsec,  \* the parameters, and variables, of set_normalized_timespec64
    sum,    \* the nanoseconds they were given with (a history variable)
    tsRes   \* what was returned

tsVars == <<tsPc, tsCall, sec, nsec, sum, tsRes>>

TIME64_MAX == TOP - 1
s64 == (-TOP)..(TOP - 1)
u64_ns == 0..(2 * TOP - 1)

\* An integer cut to an s64.
S64(x) == ((x + TOP) % (2 * TOP)) - TOP

KTIME_SEC_MAX == TIME64_MAX \div N

Time(s, n) == [sec |-> s, nsec |-> n]

Times == [sec : s64, nsec : s64]
NormalTimes == [sec : s64, nsec : 0..(N - 1)]

Idle == [fn |-> "none"]
-----------------------------------------------------------------------------
\* Mutant: allows for the last second.
timespec64_valid_strict_last(ts) ==
    ts.sec >= 0 /\ ts.nsec \in 0..(N - 1) /\ ts.sec <= KTIME_SEC_MAX

\* A negative tv_nsec is a large unsigned one.
timespec64_valid(ts) == ts.sec >= 0 /\ ts.nsec \in 0..(N - 1)

timespec64_valid_strict(ts) == timespec64_valid(ts) /\ ts.sec < KTIME_SEC_MAX

timespec64_to_ns(ts) == S64(ts.sec * N + ts.nsec)

\* C's division and remainder, which cut towards zero (div_s64_rem).
Quot(x) == IF x < 0 THEN -((-x) \div N) ELSE x \div N
Rem(x) == x - N * Quot(x)

ns_to_timespec64(ns) ==
    IF ns = 0 THEN Time(0, 0)
    ELSE IF Rem(ns) < 0 THEN Time(Quot(ns) - 1, Rem(ns) + N)
    ELSE Time(Quot(ns), Rem(ns))

timespec64_equal(a, b) == a.sec = b.sec /\ a.nsec = b.nsec

\* Mutant: seconds are compared by their difference, too.
timespec64_compare_minus(lhs, rhs) ==
    IF lhs.sec # rhs.sec THEN S64(lhs.sec - rhs.sec) ELSE lhs.nsec - rhs.nsec

timespec64_compare(lhs, rhs) ==
    IF lhs.sec < rhs.sec THEN -1
    ELSE IF lhs.sec > rhs.sec THEN 1
    ELSE lhs.nsec - rhs.nsec

\* __iter_div_u64_rem of the sum as a u64; it counts the seconds in a u32.
timespec64_add_ns(a, ns) ==
    LET n == (a.nsec + ns) % (2 * TOP)
    IN  Time(S64(a.sec + ((n \div N) % U32)), n % N)
-----------------------------------------------------------------------------
TsInit ==
    /\ tsPc = "idle" /\ tsCall = Idle
    /\ sec = 0 /\ nsec = 0 /\ sum = 0
    /\ tsRes = Time(0, 0)

set_normalized_timespec64(s, n) ==
    /\ tsPc' = "down"
    /\ sec' = s /\ nsec' = n /\ sum' = s * N + n
    /\ UNCHANGED tsRes

\* A caller's own values.
SetNormalized(ts) ==
    /\ tsPc = "idle"
    /\ tsCall' = [fn |-> "set", lhs |-> ts, rhs |-> Time(0, 0)]
    /\ set_normalized_timespec64(ts.sec, ts.nsec)

\* Sums and differences of seconds that do not fit are undefined.
timespec64_add(lhs, rhs) ==
    /\ tsPc = "idle" /\ lhs.sec + rhs.sec \in s64
    /\ tsCall' = [fn |-> "add", lhs |-> lhs, rhs |-> rhs]
    /\ set_normalized_timespec64(lhs.sec + rhs.sec, lhs.nsec + rhs.nsec)

timespec64_sub(lhs, rhs) ==
    /\ tsPc = "idle" /\ lhs.sec - rhs.sec \in s64
    /\ tsCall' = [fn |-> "sub", lhs |-> lhs, rhs |-> rhs]
    /\ set_normalized_timespec64(lhs.sec - rhs.sec, lhs.nsec - rhs.nsec)

\* Added as unsigned words, times from 1970 on only.
timespec64_add_safe(lhs, rhs) ==
    /\ tsPc = "idle" /\ timespec64_valid(lhs) /\ timespec64_valid(rhs)
    /\ tsCall' = [fn |-> "add_safe", lhs |-> lhs, rhs |-> rhs]
    /\ set_normalized_timespec64(S64(lhs.sec + rhs.sec), lhs.nsec + rhs.nsec)

\* Mutants: the loop ends one second early; the loop forgets the second.
DownEarly ==
    /\ tsPc = "down"
    /\ IF nsec > N
       THEN nsec' = nsec - N /\ sec' = sec + 1 /\ UNCHANGED tsPc
       ELSE tsPc' = "up" /\ UNCHANGED <<sec, nsec>>
    /\ UNCHANGED <<tsCall, sum, tsRes>>

DownForgets ==
    /\ tsPc = "down"
    /\ IF nsec >= N
       THEN nsec' = nsec - N /\ UNCHANGED <<sec, tsPc>>
       ELSE tsPc' = "up" /\ UNCHANGED <<sec, nsec>>
    /\ UNCHANGED <<tsCall, sum, tsRes>>

\* while (nsec >= NSEC_PER_SEC)
Down ==
    /\ tsPc = "down"
    /\ IF nsec >= N
       THEN nsec' = nsec - N /\ sec' = sec + 1 /\ UNCHANGED tsPc
       ELSE tsPc' = "up" /\ UNCHANGED <<sec, nsec>>
    /\ UNCHANGED <<tsCall, sum, tsRes>>

\* Mutant: one loop for both directions that takes a second for 0, too.
UpRepeats ==
    /\ tsPc = "up"
    /\ IF nsec <= 0
       THEN nsec' = nsec + N /\ sec' = sec - 1 /\ tsPc' = "down"
       ELSE tsPc' = "store" /\ UNCHANGED <<sec, nsec>>
    /\ UNCHANGED <<tsCall, sum, tsRes>>

\* while (nsec < 0)
Up ==
    /\ tsPc = "up"
    /\ IF nsec < 0
       THEN nsec' = nsec + N /\ sec' = sec - 1 /\ UNCHANGED tsPc
       ELSE tsPc' = "store" /\ UNCHANGED <<sec, nsec>>
    /\ UNCHANGED <<tsCall, sum, tsRes>>

\* Mutant: the sum is not looked at again after the carry.
OverflownEarly(s) == tsCall.fn = "add_safe" /\ tsCall.lhs.sec + tsCall.rhs.sec > TIME64_MAX

\* The check for overflow of timespec64_add_safe.
Overflown(s) ==
    tsCall.fn = "add_safe" /\ (s < tsCall.lhs.sec \/ s < tsCall.rhs.sec)


\* sec is cut to its word here, as nothing looks at it before.
Store ==
    /\ tsPc = "store"
    /\ tsRes' = IF Overflown(S64(sec)) THEN Time(TIME64_MAX, 0)
                                       ELSE Time(S64(sec), nsec)
    /\ tsPc' = "done"
    /\ UNCHANGED <<tsCall, sec, nsec, sum>>

\* Functions without the loops.
At(fn, lhs, rhs, result) ==
    /\ tsPc = "idle" /\ tsPc' = "done"
    /\ tsCall' = [fn |-> fn, lhs |-> lhs, rhs |-> rhs]
    /\ tsRes' = result
    /\ UNCHANGED <<sec, nsec, sum>>

\* Nanoseconds alone are Ns(ns).
Ns(ns) == Time(0, ns)

AddNs(a, ns) == At("add_ns", a, Ns(ns), timespec64_add_ns(a, ns))
FromNs(ns) == At("from_ns", Ns(ns), Ns(0), ns_to_timespec64(ns))
ToNs(ts) == At("to_ns", ts, Ns(0), Ns(timespec64_to_ns(ts)))

Compare(lhs, rhs) ==
    At("compare", lhs, rhs,
       [order |-> timespec64_compare(lhs, rhs), equal |-> timespec64_equal(lhs, rhs)])

TsReturn ==
    /\ tsPc = "done" /\ tsPc' = "idle"
    /\ tsCall' = Idle /\ tsRes' = Time(0, 0)
    /\ sec' = 0 /\ nsec' = 0 /\ sum' = 0

TsCalls ==
    \/ \E ts \in Times : SetNormalized(ts)
    \/ \E lhs, rhs \in NormalTimes :
          \/ timespec64_add(lhs, rhs)
          \/ timespec64_sub(lhs, rhs)
          \/ timespec64_add_safe(lhs, rhs)
          \/ Compare(lhs, rhs)
    \/ \E a \in NormalTimes, ns \in u64_ns : AddNs(a, ns)
    \/ \E ns \in s64 : FromNs(ns)
    \/ \E ts \in Times : ToNs(ts)

TsNext == (tsPc = "idle" /\ TsCalls) \/ Down \/ Up \/ Store \/ TsReturn

\* A function that was called goes on.
TsSpec == TsInit /\ [][TsNext]_tsVars /\ WF_tsVars(Down \/ Up \/ Store)
-----------------------------------------------------------------------------
Nanoseconds(ts) == ts.sec * N + ts.nsec

\* The one normalized time of so many nanoseconds.
Normal(ns) == Time(ns \div N, ns % N)

Result(fn) == tsPc = "done" /\ tsCall.fn = fn

\* The loops of set_normalized_timespec64 carry between seconds and
\* nanoseconds without losing or gaining any time, and leave the nanoseconds
\* of a time before 1970 positive as well.
CarriesExactly ==
    /\ tsPc \in {"down", "up", "store"} => sec * N + nsec = sum
    /\ tsPc = "store" => nsec \in 0..(N - 1)

\* Normalizing, adding and subtracting give the exact time, normalized, when
\* it can be represented; timespec64_add_ns of less than 2^32 seconds.
ExactTime ==
    LET Exact(fn, ns) ==
            Result(fn) /\ Normal(ns).sec \in s64 => tsRes = Normal(ns)
    IN  /\ Exact("set", Nanoseconds(tsCall.lhs))
        /\ Exact("add", Nanoseconds(tsCall.lhs) + Nanoseconds(tsCall.rhs))
        /\ Exact("sub", Nanoseconds(tsCall.lhs) - Nanoseconds(tsCall.rhs))
        /\ /\ Result("add_ns")
           /\ tsCall.lhs.nsec + tsCall.rhs.nsec < 2 * TOP
           /\ (tsCall.lhs.nsec + tsCall.rhs.nsec) \div N < U32
           => Exact("add_ns", Nanoseconds(tsCall.lhs) + tsCall.rhs.nsec)

\* timespec64_add_safe gives the exact sum or, when that cannot be
\* represented, also when only the carry of the nanoseconds makes it so, the
\* latest time.
SafeSum ==
    Result("add_safe") =>
        LET exact == Normal(Nanoseconds(tsCall.lhs) + Nanoseconds(tsCall.rhs))
        IN  tsRes = IF exact.sec > TIME64_MAX THEN Time(TIME64_MAX, 0) ELSE exact

\* Nanoseconds, also negative ones, are a normalized time and that time is
\* the nanoseconds; what timespec64_valid_strict lets pass does not overflow
\* on its way to nanoseconds and back.
NsRoundTrip ==
    /\ Result("from_ns") =>
          /\ tsRes.nsec \in 0..(N - 1)
          /\ timespec64_to_ns(tsRes) = tsCall.lhs.nsec
    /\ Result("to_ns") /\ timespec64_valid_strict(tsCall.lhs) =>
          /\ tsRes.nsec = Nanoseconds(tsCall.lhs)
          /\ ns_to_timespec64(tsRes.nsec) = tsCall.lhs

\* Normalized times compare as the nanoseconds they are, however far apart.
ComparesTimes ==
    Result("compare") =>
        /\ (tsRes.order < 0) = (Nanoseconds(tsCall.lhs) < Nanoseconds(tsCall.rhs))
        /\ (tsRes.order > 0) = (Nanoseconds(tsCall.lhs) > Nanoseconds(tsCall.rhs))
        /\ tsRes.equal = (tsRes.order = 0)

\* Every call returns: the two loops do not undo each other's work.
CallsReturn == tsPc = "down" ~> tsPc = "done"

\* The nanoseconds and the order of normalized times are those of the time.
NsAgree == NsRoundTrip /\ ComparesTimes
=============================================================================
