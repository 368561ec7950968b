\* Two calls of init_timers.
CONSTANTS
    Callers = {m1, m2}
    Timers = {t1}
    UNITS = 2
    LATE = 1
    Waits = {2}
    INITIAL_JIFFIES = 99
    MAX_TICKS = 5
    END = 8
SPECIFICATION ClockSpec
INVARIANT InitializedOnce
