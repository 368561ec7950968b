\* Three entries on three heads; four nodes on two hash heads.
CONSTANTS
    Heads = {h1, h2, h3}
    Entries = {e1, e2, e3}
    HHeads = {hh1, hh2}
    Elems = {n1, n2, n3, n4}
    NULL = NULL
    LIST_POISON1 = LIST_POISON1
    LIST_POISON2 = LIST_POISON2
SYMMETRY ListSymmetry
SPECIFICATION ListsSpec
INVARIANTS
    ListInv
    ListPredicates
    HListInv
