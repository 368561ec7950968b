---------------------------- MODULE KernelHList ----------------------------
(***************************************************************************)
(* The hash-table lists of src/uki/list.h: a head with one pointer, nodes  *)
(* with a next pointer and with pprev, the address of the pointer that     *)
(* points to them.  A pointer cell is <<"first", h>> or <<"next", n>>, and *)
(* cell maps it to what it holds.  As in KernelList, hseq is what the      *)
(* callers take the lists to hold.  Nothing is shared with the doubly      *)
(* linked lists but NULL and the poison values.                            *)
(***************************************************************************)
EXTENDS KernelList

CONSTANTS
    HHeads, Elems  \* hlist heads and hlist nodes

First(h) == <<"first", h>>
NextOf(n) == <<"next", n>>
Cells == {First(h) : h \in HHeads} \cup {NextOf(n) : n \in Elems}

ASSUME ElemsAssumption ==
    {NULL, LIST_POISON1, LIST_POISON2} \cap (Elems \cup Cells) = {}

VARIABLES
    hmem,   \* the pointer cells and the pprev of every node
    hseq,   \* what the callers take the lists to hold
    fakes   \* nodes that hlist_add_fake made look linked

hvars == <<hmem, hseq, fakes>>
-----------------------------------------------------------------------------
(***************************************************************************)
(* The hlist functions of list.h.                                          *)
(***************************************************************************)
SetCell(m, c, x) == [m EXCEPT !.cell[c] = x]    \* *c = x
SetBack(m, n, c) == [m EXCEPT !.pprev[n] = c]   \* n->pprev = c

\* if (n) n->pprev = c
Back(m, n, c) == IF n = NULL THEN m ELSE SetBack(m, n, c)

INIT_HLIST_NODE(m, n) == SetBack(SetCell(m, NextOf(n), NULL), n, NULL)

hlist_unhashed(m, n) == m.pprev[n] = NULL

hlist_empty(m, h) == m.cell[First(h)] = NULL

hlist_fake(m, n) == m.pprev[n] = NextOf(n)

\* Mutant: a node that ends a longer list passes for a single one.
hlist_is_last_node(m, n, h) == m.cell[NextOf(n)] = NULL /\ m.pprev[n] # NULL

hlist_is_singular_node(m, n, h) ==
    m.cell[NextOf(n)] = NULL /\ m.pprev[n] = First(h)

\* __hlist_del
Unhash(m, n) ==
    LET next == m.cell[NextOf(n)]
        pprev == m.pprev[n]
    IN  Back(SetCell(m, pprev, next), next, pprev)

\* Mutant: the poison values are swapped.
hlist_del_swapped(m, n) ==
    SetBack(SetCell(Unhash(m, n), NextOf(n), LIST_POISON2), n, LIST_POISON1)

hlist_del(m, n) ==
    SetBack(SetCell(Unhash(m, n), NextOf(n), LIST_POISON1), n, LIST_POISON2)

hlist_del_init(m, n) ==
    IF hlist_unhashed(m, n) THEN m ELSE INIT_HLIST_NODE(Unhash(m, n), n)

hlist_add_head(m, n, h) ==
    LET first == m.cell[First(h)]
        m1 == Back(SetCell(m, NextOf(n), first), first, NextOf(n))
    IN  SetBack(SetCell(m1, First(h), n), n, First(h))

hlist_add_before(m, n, next) ==
    LET m1 == SetCell(SetBack(m, n, m.pprev[next]), NextOf(n), next)
        m2 == SetBack(m1, next, NextOf(n))
    IN  SetCell(m2, m2.pprev[n], n)

\* Mutant: the node behind keeps its pprev.
hlist_add_behind_half(m, n, prev) ==
    LET m1 == SetCell(m, NextOf(n), m.cell[NextOf(prev)])
    IN  SetBack(SetCell(m1, NextOf(prev), n), n, NextOf(prev))

hlist_add_behind(m, n, prev) ==
    LET m1 == SetCell(m, NextOf(n), m.cell[NextOf(prev)])
        m2 == SetBack(SetCell(m1, NextOf(prev), n), n, NextOf(prev))
    IN  Back(m2, m2.cell[NextOf(n)], NextOf(n))

hlist_add_fake(m, n) == SetBack(m, n, NextOf(n))

hlist_move_list(m, old, new) ==
    LET m1 == SetCell(m, First(new), m.cell[First(old)])
        m2 == Back(m1, m1.cell[First(new)], First(new))
    IN  SetCell(m2, First(old), NULL)
-----------------------------------------------------------------------------
(***************************************************************************)
(* The callers: a node is initialised, or has been deleted, before it is   *)
(* added, and it is on a list or a fake when it is deleted.                *)
(***************************************************************************)
Hashed == UNION {Range(hseq[h]) : h \in HHeads}
Unhashed == Elems \ (Hashed \cup fakes)

\* A node whose next is not garbage may be made a fake.
Clean == {n \in Unhashed : hmem.cell[NextOf(n)] = NULL}

HWithout(n) == [h \in HHeads |-> RemoveFirst(hseq[h], n)]

\* INIT_HLIST_HEAD on every head; nodes hold anything until initialised.
HInit ==
    /\ hmem = [cell |-> [c \in Cells |-> IF c[1] = "first" THEN NULL
                                                        ELSE LIST_POISON1],
              pprev |-> [n \in Elems |-> LIST_POISON2]]
    /\ hseq = [h \in HHeads |-> <<>>]
    /\ fakes = {}

InitNode(n) ==
    /\ n \in Unhashed
    /\ hmem' = INIT_HLIST_NODE(hmem, n)
    /\ UNCHANGED <<hseq, fakes>>

AddHead(n, h) ==
    /\ n \in Unhashed
    /\ hmem' = hlist_add_head(hmem, n, h)
    /\ hseq' = [hseq EXCEPT ![h] = <<n>> \o @]
    /\ UNCHANGED fakes

\* The new node comes before or behind the i-th of h.
AddBefore(n, h, i) ==
    /\ n \in Unhashed
    /\ hmem' = hlist_add_before(hmem, n, hseq[h][i])
    /\ hseq' = [hseq EXCEPT ![h] = InsertAt(@, i, n)]
    /\ UNCHANGED fakes

AddBehind(n, h, i) ==
    /\ n \in Unhashed
    /\ hmem' = hlist_add_behind(hmem, n, hseq[h][i])
    /\ hseq' = [hseq EXCEPT ![h] = InsertAt(@, i + 1, n)]
    /\ UNCHANGED fakes

AddFake(n) ==
    /\ n \in Clean
    /\ hmem' = hlist_add_fake(hmem, n)
    /\ fakes' = fakes \cup {n}
    /\ UNCHANGED hseq

HDelete(n) ==
    /\ n \in Hashed \cup fakes
    /\ hmem' = hlist_del(hmem, n)
    /\ hseq' = HWithout(n)
    /\ fakes' = fakes \ {n}

\* hlist_del_init may be called on a node that is on no list, provided it is
\* initialised.
DeleteInit(n) ==
    /\ n \in Hashed \cup fakes \/ hlist_unhashed(hmem, n)
    /\ hmem' = hlist_del_init(hmem, n)
    /\ hseq' = HWithout(n)
    /\ fakes' = fakes \ {n}

MoveList(old, new) ==
    /\ old # new
    /\ hseq[new] = <<>>
    /\ hmem' = hlist_move_list(hmem, old, new)
    /\ hseq' = [hseq EXCEPT ![new] = hseq[old], ![old] = <<>>]
    /\ UNCHANGED fakes

HNext ==
    \/ \E n \in Elems : InitNode(n) \/ AddFake(n) \/ HDelete(n) \/ DeleteInit(n)
    \/ \E n \in Elems, h \in HHeads :
          \/ AddHead(n, h)
          \/ \E i \in DOMAIN hseq[h] : AddBefore(n, h, i) \/ AddBehind(n, h, i)
    \/ \E old, new \in HHeads : MoveList(old, new)

HSpec == HInit /\ [][HNext]_hvars
-----------------------------------------------------------------------------
(***************************************************************************)
(* Properties.                                                             *)
(***************************************************************************)
\* The type invariant: pprev always names a cell, NULL or poison.
HTypeOK ==
    /\ hmem \in [cell : [Cells -> Elems \cup {NULL, LIST_POISON1}],
                pprev : [Elems -> Cells \cup {NULL, LIST_POISON2}]]
    /\ hseq \in [HHeads -> Seq(Elems)]
    /\ fakes \subseteq Elems

\* Each list is the caller's sequence, ends in NULL, and every pprev is the
\* address of the pointer by which its node is reached; so hlist_del needs
\* neither the head nor the predecessor.
Chains ==
    \A h \in HHeads :
        LET s == hseq[h]
            Cell(i) == IF i = 0 THEN First(h) ELSE NextOf(s[i])
        IN  /\ \A i \in DOMAIN s : /\ hmem.cell[Cell(i - 1)] = s[i]
                                   /\ hmem.pprev[s[i]] = Cell(i - 1)
            /\ hmem.cell[Cell(Len(s))] = NULL

\* The predicates tell the truth: a node is hashed while it is on a list or a
\* fake or carries poison, fake only as hlist_add_fake made it, and alone on h
\* only if it is.
HPredicates ==
    /\ \A n \in Elems :
          /\ n \in Hashed \cup fakes => ~ hlist_unhashed(hmem, n)
          /\ hlist_fake(hmem, n) <=> n \in fakes
          /\ \A h \in HHeads : hlist_is_singular_node(hmem, n, h) <=> hseq[h] = <<n>>
    /\ \A h \in HHeads : hlist_empty(hmem, h) <=> hseq[h] = <<>>

\* The functions keep the chains and the types of their pointers.
HListInv == HTypeOK /\ Chains

\* What the predicates of both kinds of lists tell is so.
ListPredicates == Predicates /\ HPredicates
=============================================================================
