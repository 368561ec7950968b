\* One timer, all wheel states: unsigned long is wide against the wheel, so
\* tv5 is walked round several times and long timeouts are capped.
CONSTANTS
    Timers = {t1}
    TVR_SIZE = 4
    TVN_SIZE = 2
    WORD = 1024
    IDX_MAX = 72
    JIFFIES_MAX = 120
    Starts = {0, 5}
    Leftover = {0, 700}
    Delays <- LongDelays
    Advances = {3}
SPECIFICATION Spec
INVARIANTS
    Placement
