CONSTANTS
    Timers = {t1, t2}
    TVR_SIZE = 2
    TVN_SIZE = 2
    WORD = 128
    IDX_MAX = 127
    JIFFIES_MAX = 20
    Starts = {13}
    Leftover = {0}
    Delays = {0, 4}
    Advances = {0, 2}
SPECIFICATION FairSpec
PROPERTIES
    WorkerRests
    ImplementsService
    ServesTimers
