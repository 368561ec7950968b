----------------------------- MODULE KernelList -----------------------------
(***************************************************************************)
(* The circular doubly linked lists of src/uki/list.h, at the level of the *)
(* pointers.  Each function of list.h is an operator from memory to memory *)
(* that makes the assignments of the C code in the order of the C code;    *)
(* the variable seq says what the caller takes each list to hold.  Rings   *)
(* states that the pointers and the caller's picture agree.                *)
(***************************************************************************)
EXTENDS Integers, SequencesExt

CONSTANTS
    Heads,    \* list heads
    Entries,  \* list_head members of the callers' objects
    NULL, LIST_POISON1, LIST_POISON2

ASSUME NodesAssumption ==
    /\ Heads \cap Entries = {}
    /\ {NULL, LIST_POISON1, LIST_POISON2} \cap (Heads \cup Entries) = {}

VARIABLES
    mem,   \* the next and the prev pointer of every node
    seq,   \* what the callers take the lists to hold
    live   \* the heads whose list is in use

vars == <<mem, seq, live>>

Nodes == Heads \cup Entries
-----------------------------------------------------------------------------
(***************************************************************************)
(* The functions of list.h.                                                *)
(***************************************************************************)
SetNext(m, n, x) == [m EXCEPT !.next[n] = x]   \* n->next = x
SetPrev(m, n, x) == [m EXCEPT !.prev[n] = x]   \* n->prev = x

INIT_LIST_HEAD(m, l) == SetPrev(SetNext(m, l, l), l, l)

\* __list_add
InsertBetween(m, new, prev, next) ==
    SetNext(SetPrev(SetNext(SetPrev(m, next, new), new, next), new, prev), prev, new)

list_add(m, new, head) == InsertBetween(m, new, head, m.next[head])

list_add_tail(m, new, head) == InsertBetween(m, new, m.prev[head], head)

\* __list_del
JoinAround(m, prev, next) == SetNext(SetPrev(m, next, prev), prev, next)

\* __list_del_entry
Unlink(m, e) == JoinAround(m, m.prev[e], m.next[e])

\* Mutant: the poison values are swapped.
list_del_swapped(m, e) ==
    SetPrev(SetNext(Unlink(m, e), e, LIST_POISON2), e, LIST_POISON1)

list_del(m, e) == SetPrev(SetNext(Unlink(m, e), e, LIST_POISON1), e, LIST_POISON2)

list_del_init(m, e) == INIT_LIST_HEAD(Unlink(m, e), e)

\* Mutant: old->prev is read before it may have been overwritten by new.
list_replace_early(m, old, new) ==
    LET m1 == SetPrev(SetNext(m, new, m.next[old]), new, m.prev[old])
        m2 == SetPrev(m1, m1.next[new], new)
    IN  SetNext(m2, m2.prev[new], new)

list_replace(m, old, new) ==
    LET m1 == SetNext(m, new, m.next[old])
        m2 == SetPrev(m1, m1.next[new], new)
        m3 == SetPrev(m2, new, m2.prev[old])
    IN  SetNext(m3, m3.prev[new], new)

list_replace_init(m, old, new) == INIT_LIST_HEAD(list_replace(m, old, new), old)

list_move(m, e, head) == list_add(Unlink(m, e), e, head)

list_move_tail(m, e, head) == list_add_tail(Unlink(m, e), e, head)

list_bulk_move_tail(m, head, first, last) ==
    LET m1 == SetNext(m, m.prev[first], m.next[last])
        m2 == SetPrev(m1, m1.next[last], m1.prev[first])
        m3 == SetNext(m2, m2.prev[head], first)
        m4 == SetPrev(m3, first, m3.prev[head])
    IN  SetPrev(SetNext(m4, last, head), head, last)

list_is_last(m, e, head) == m.next[e] = head

list_empty(m, head) == m.next[head] = head

list_empty_careful(m, head) == m.next[head] = head /\ m.prev[head] = head

\* Mutant: an empty list is taken for a singular one.
list_is_singular_or_empty(m, head) == m.next[head] = m.prev[head]

list_is_singular(m, head) == ~ list_empty(m, head) /\ m.next[head] = m.prev[head]

list_rotate_left(m, head) ==
    IF list_empty(m, head) THEN m ELSE list_move_tail(m, m.next[head], head)

\* __list_cut_position
Cut(m, list, head, entry) ==
    LET first == m.next[entry]
        m1 == SetNext(m, list, m.next[head])
        m2 == SetPrev(m1, m1.next[list], list)
        m3 == SetNext(SetPrev(m2, list, entry), entry, list)
    IN  SetPrev(SetNext(m3, head, first), first, head)

\* list_cut_position returns early, with list as it was, for an empty head
\* and for an entry that is not the only one of a singular list.
CutsNothing(m, head, entry) ==
    \/ list_empty(m, head)
    \/ list_is_singular(m, head) /\ m.next[head] # entry /\ head # entry

list_cut_position(m, list, head, entry) ==
    IF CutsNothing(m, head, entry) THEN m
    ELSE IF entry = head THEN INIT_LIST_HEAD(m, list)
    ELSE Cut(m, list, head, entry)

list_cut_before(m, list, head, entry) ==
    LET m1 == SetNext(m, list, m.next[head])
        m2 == SetPrev(m1, m1.next[list], list)
        m3 == SetPrev(m2, list, m2.prev[entry])
        m4 == SetNext(m3, m3.prev[list], list)
    IN  IF m.next[head] = entry THEN INIT_LIST_HEAD(m, list)
        ELSE SetPrev(SetNext(m4, head, entry), entry, head)

\* __list_splice
SpliceBetween(m, list, prev, next) ==
    LET first == m.next[list]
        last == m.prev[list]
    IN  SetPrev(SetNext(SetNext(SetPrev(m, first, prev), prev, first), last, next),
              next, last)

list_splice(m, list, head) ==
    IF list_empty(m, list) THEN m
    ELSE SpliceBetween(m, list, head, m.next[head])

list_splice_tail(m, list, head) ==
    IF list_empty(m, list) THEN m
    ELSE SpliceBetween(m, list, m.prev[head], head)

list_splice_init(m, list, head) ==
    IF list_empty(m, list) THEN m
    ELSE INIT_LIST_HEAD(list_splice(m, list, head), list)

list_splice_tail_init(m, list, head) ==
    IF list_empty(m, list) THEN m
    ELSE INIT_LIST_HEAD(list_splice_tail(m, list, head), list)
-----------------------------------------------------------------------------
(***************************************************************************)
(* The callers.  They hold to what list.h asks of them: an entry that is   *)
(* added is on no list, an entry that is deleted is on one, and a head     *)
(* that is handed a list has none to lose.                                 *)
(***************************************************************************)
Linked == UNION {Range(seq[h]) : h \in live}
Free == Entries \ Linked

\* list_del_init leaves an entry that may be deleted or moved again.
Selfish == {e \in Free : mem.next[e] = e /\ mem.prev[e] = e}

Losable == {h \in Heads : h \notin live \/ seq[h] = <<>>}

\* The caller's picture without the entry e.
Without(e) == [h \in Heads |-> RemoveFirst(seq[h], e)]

Init ==
    /\ mem = [next |-> [n \in Nodes |-> NULL], prev |-> [n \in Nodes |-> NULL]]
    /\ seq = [h \in Heads |-> <<>>]
    /\ live = {}

InitHead(h) ==
    /\ h \in Losable
    /\ mem' = INIT_LIST_HEAD(mem, h)
    /\ live' = live \cup {h}
    /\ UNCHANGED seq

Add(e, h) ==
    /\ e \in Free
    /\ \/ /\ mem' = list_add(mem, e, h)
          /\ seq' = [seq EXCEPT ![h] = <<e>> \o @]
       \/ /\ mem' = list_add_tail(mem, e, h)
          /\ seq' = [seq EXCEPT ![h] = Append(@, e)]
    /\ UNCHANGED live

Delete(e) ==
    /\ \/ e \in Linked /\ mem' = list_del(mem, e)
       \/ e \in Linked \cup Selfish /\ mem' = list_del_init(mem, e)
    /\ seq' = Without(e)
    /\ UNCHANGED live

Move(e, h) ==
    /\ e \in Linked \cup Selfish
    /\ \/ /\ mem' = list_move(mem, e, h)
          /\ seq' = [Without(e) EXCEPT ![h] = <<e>> \o @]
       \/ /\ mem' = list_move_tail(mem, e, h)
          /\ seq' = [Without(e) EXCEPT ![h] = Append(@, e)]
    /\ UNCHANGED live

\* One entry takes the place of another.
Replace(old, new) ==
    /\ old \in Linked
    /\ new \in Free
    /\ \/ mem' = list_replace(mem, old, new)
       \/ mem' = list_replace_init(mem, old, new)
    /\ seq' = [h \in Heads |-> [i \in DOMAIN seq[h] |->
                                  IF seq[h][i] = old THEN new ELSE seq[h][i]]]
    /\ UNCHANGED live

\* One head takes the list of another, which is initialised again or is not.
TakeOver(old, new) ==
    /\ new \in Losable \ {old}
    /\ \/ /\ mem' = list_replace(mem, old, new)
          /\ live' = (live \cup {new}) \ {old}
       \/ /\ mem' = list_replace_init(mem, old, new)
          /\ live' = live \cup {new}
    /\ seq' = [seq EXCEPT ![new] = seq[old], ![old] = <<>>]

BulkMove(h, i, j) ==
    LET s == seq[h]
    IN  /\ mem' = list_bulk_move_tail(mem, h, s[i], s[j])
        /\ seq' = [seq EXCEPT ![h] = SubSeq(s, 1, i - 1)
                         \o SubSeq(s, j + 1, Len(s)) \o SubSeq(s, i, j)]
        /\ UNCHANGED live

Rotate(h) ==
    /\ mem' = list_rotate_left(mem, h)
    /\ seq' = [seq EXCEPT ![h] = IF @ = <<>> THEN @ ELSE Append(Tail(@), Head(@))]
    /\ UNCHANGED live

\* The first i entries of h go to l.
Handed(l, h, i) ==
    [seq EXCEPT ![l] = SubSeq(seq[h], 1, i),
                ![h] = SubSeq(seq[h], i + 1, Len(seq[h]))]

\* entry is the i-th of h, or h itself for i = 0.
CutPosition(l, h, i) ==
    /\ l \in Losable \ {h}
    /\ mem' = list_cut_position(mem, l, h, IF i = 0 THEN h ELSE seq[h][i])
    /\ seq' = Handed(l, h, i)
    /\ live' = IF seq[h] = <<>> THEN live ELSE live \cup {l}

\* entry is the (i + 1)-th of h, or h itself for i = Len(seq[h]).
CutBefore(l, h, i) ==
    /\ l \in Losable \ {h}
    /\ mem' = list_cut_before(mem, l, h,
                              IF i = Len(seq[h]) THEN h ELSE seq[h][i + 1])
    /\ seq' = Handed(l, h, i)
    /\ live' = live \cup {l}

\* list_splice and list_splice_tail leave the pointers of l as they were: l
\* stays in use only when it was empty.
Splice(l, h) ==
    /\ l # h
    /\ \/ /\ mem' = list_splice(mem, l, h)
          /\ seq' = [seq EXCEPT ![h] = seq[l] \o @, ![l] = <<>>]
          /\ live' = IF seq[l] = <<>> THEN live ELSE live \ {l}
       \/ /\ mem' = list_splice_tail(mem, l, h)
          /\ seq' = [seq EXCEPT ![h] = @ \o seq[l], ![l] = <<>>]
          /\ live' = IF seq[l] = <<>> THEN live ELSE live \ {l}
       \/ /\ mem' = list_splice_init(mem, l, h)
          /\ seq' = [seq EXCEPT ![h] = seq[l] \o @, ![l] = <<>>]
          /\ UNCHANGED live
       \/ /\ mem' = list_splice_tail_init(mem, l, h)
          /\ seq' = [seq EXCEPT ![h] = @ \o seq[l], ![l] = <<>>]
          /\ UNCHANGED live

Next ==
    \/ \E h \in Heads : InitHead(h)
    \/ \E e \in Entries : Delete(e)
    \/ \E e, new \in Entries : Replace(e, new)
    \/ \E h \in live :
          \/ Rotate(h)
          \/ \E e \in Entries : Add(e, h) \/ Move(e, h)
          \/ \E new \in Heads : TakeOver(h, new)
          \/ \E i, j \in DOMAIN seq[h] : i <= j /\ BulkMove(h, i, j)
          \/ \E l \in Heads, i \in 0 .. Len(seq[h]) :
                CutPosition(l, h, i) \/ CutBefore(l, h, i)
          \/ \E l \in live : Splice(l, h)

Spec == Init /\ [][Next]_vars
-----------------------------------------------------------------------------
(***************************************************************************)
(* Properties.                                                             *)
(***************************************************************************)
\* The type invariant: the memory holds node addresses, NULL or the poison
\* that tells next from prev.
TypeOK ==
    /\ mem \in [next : [Nodes -> Nodes \cup {NULL, LIST_POISON1}],
                prev : [Nodes -> Nodes \cup {NULL, LIST_POISON2}]]
    /\ seq \in [Heads -> Seq(Entries)]
    /\ live \subseteq Heads

\* The pointers of h and of the entries s form the ring h, s[1], .., s[n], h,
\* in both directions.
IsRing(m, h, s) ==
    LET ring == <<h>> \o s
        After(i) == IF i = Len(ring) THEN h ELSE ring[i + 1]
    IN  \A i \in DOMAIN ring : /\ m.next[ring[i]] = After(i)
                               /\ m.prev[After(i)] = ring[i]

\* Every function of list.h does to the ring what its caller takes it to do:
\* walked forwards or backwards, each list in use is the caller's sequence.
Rings == \A h \in live : IsRing(mem, h, seq[h])

\* The predicates tell the truth about the caller's sequences.
Predicates ==
    \A h \in live :
        /\ list_empty(mem, h) <=> seq[h] = <<>>
        /\ list_empty_careful(mem, h) <=> seq[h] = <<>>
        /\ list_is_singular(mem, h) <=> Len(seq[h]) = 1
        /\ \A e \in Linked : list_is_last(mem, e, h)
                               <=> seq[h] # <<>> /\ e = Last(seq[h])

\* The functions keep the lists and the types of their pointers.
ListInv == TypeOK /\ Rings
=============================================================================
