\* Two clients that call nothing but mod_timer, and the worker.
CONSTANTS
    Heads = {b1, b2, work_list, tv_list}
    Entries = {t1, t2}
    NULL = NULL
    LIST_POISON1 = LIST_POISON1
    LIST_POISON2 = LIST_POISON2
    Clients = {c1, c2}
    Worker = worker
    Calls = {"mod"}
    WorkList = work_list
    TvList = tv_list
SYMMETRY RaceSymmetry
SPECIFICATION RaceSpec
INVARIANT
    NoFault
