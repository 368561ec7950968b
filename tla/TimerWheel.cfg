\* Two timers on a wheel of two buckets a level; unsigned long is 7 bits.
CONSTANTS
    Timers = {t1, t2}
    TVR_SIZE = 2
    TVN_SIZE = 2
    WORD = 128
    IDX_MAX = 127
    JIFFIES_MAX = 26
    Starts = {13}
    Leftover = {0}
    Delays <- FifoDelays
    Advances = {3}
SYMMETRY TimerSymmetry
SPECIFICATION FifoSpec
INVARIANTS
    OnTime
    IInv
    FifoPerVector
