\* All functions without a state.
CONSTANTS
    \* BitOps: unsigned long of 32 bits, as BITS_PER_LONG says.
    UlongBits = 32
    Words32 <- MCWords32
    Words64 <- MCWords64
    \* Math64: words of 3 bits, double words of 6: all operands.
    W = 3
    \* Calendar: four hundred years, a whole cycle of leap days.
    FIRST = 1801
    LAST = 2201
    \* Conversions, Delays: int and long of 9 bits.
    HZ = 5
    MSEC_PER_SEC = 10
    USEC_PER_SEC = 40
    NSEC_PER_SEC = 120
    IntBits = 9
    LongBits = 9
    NSEC_SHIFT = 6
    Signals = TRUE
SPECIFICATION FunctionsSpec
INVARIANTS
    FindsLast
    FindsFirst
    WordsAsDefined
    Divides
    Multiplies
    FollowsCalendar
    TimeoutsRoundUp
    UnitsAgree
    Ordered
    DelaysLast
