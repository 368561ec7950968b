\* The calls that take several steps.
CONSTANTS
    \* Div64: words of 3 bits, double words of 6: all dividends and divisors.
    Half = 8
    \* Timespec64: words of 2 and 5 bits, seconds of 3 nanoseconds.
    N = 3
    U32 = 4
    TOP = 16
    \* MaskBits: three threads, two bits.
    Threads = {th1, th2, th3}
    Bits = {"x", "y"}
    Ops <- MCOps
    \* RoundJiffies: a second of sixteen jiffies, a word of eight bits; the
    \* system has been up for a second.
    HZ = 16
    WORD = 256
    JIFFIES_MAX = 63
    Cpus = {0, 2}
    Starts = {16, 21}
    Advances = {1, 9}
    Spans <- Ahead
SPECIFICATION LoopsSpec
INVARIANTS
    QuotientAndRemainder
    ExactTime
    SafeSum
    NsAgree
    StaysNear
    TogetherOrOver
PROPERTIES
    LoopsReturn
    ImplementsAtomic
    SomeCallReturns
    NotEaten
