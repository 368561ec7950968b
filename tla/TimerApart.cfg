\* A client thread, the worker and its callbacks, two timers, three buckets.
CONSTANTS
    Heads = {b1, b2, b3, work_list, tv_list}
    Entries = {t1, t2}
    NULL = NULL
    LIST_POISON1 = LIST_POISON1
    LIST_POISON2 = LIST_POISON2
    Clients = {c1}
    Worker = worker
    Calls = {"mod", "mod_pending", "del"}
    WorkList = work_list
    TvList = tv_list
SYMMETRY RaceSymmetry
SPECIFICATION ApartSpec
INVARIANTS
    RaceInv
    LockExcludesNobody
    NoFault
    PendingAtRest
    GoneIsGone
    CascadeReachesAll
