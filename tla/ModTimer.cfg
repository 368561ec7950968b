\* Two timers on a wheel of two buckets a level; unsigned long is 7 bits.
CONSTANTS
    Timers = {t1, t2}
    TVR_SIZE = 2
    TVN_SIZE = 2
    WORD = 128
    IDX_MAX = 127
    JIFFIES_MAX = 30
    Starts = {13}
    Leftover = {0}
    Delays = {1, 6, 20}
    Advances = {3}
SPECIFICATION Spec
INVARIANT ModTimerOnTime
