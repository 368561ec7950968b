\* One call of init_timers; seven ticks of four units, of which the fifth is the
\* last that jiffies counts.
CONSTANTS
    Callers = {m1}
    Timers = {t1}
    UNITS = 4
    LATE = 1
    Waits = {0, 1, 3}
    INITIAL_JIFFIES = 99
    MAX_TICKS = 5
    END = 28
SPECIFICATION ClockSpec
INVARIANTS
    KeepsPace
    RunsSoon
PROPERTIES
    NeverEarly
    WaitsLong
