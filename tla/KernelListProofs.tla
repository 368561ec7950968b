-------------------------- MODULE KernelListProofs --------------------------
(***************************************************************************)
(* Proofs about the lists of list.h, for any number of heads and entries:  *)
(* whatever the callers do that list.h allows, every list in use is a ring *)
(* with the caller's entries in the caller's order; every hash-table list  *)
(* is a chain of them; and the predicates of both tell the truth.          *)
(***************************************************************************)
EXTENDS KernelHList, TLAPS

Memory == [next : [Nodes -> Nodes \cup {NULL, LIST_POISON1}],
           prev : [Nodes -> Nodes \cup {NULL, LIST_POISON2}]]

\* The i-th node of the ring of h and s; the head is the first and the last.
NodeAt(h, s, i) == IF i \in 1 .. Len(s) THEN s[i] ELSE h

\* The pointers of h and s, one by one.
Ring(m, h, s) ==
    \A i \in 0 .. Len(s) : /\ m.next[NodeAt(h, s, i)] = NodeAt(h, s, i + 1)
                           /\ m.prev[NodeAt(h, s, i + 1)] = NodeAt(h, s, i)

\* No entry is on two lists, or twice on one.
OnceEach(q) ==
    \A g, h \in Heads : \A i \in 1 .. Len(q[g]), j \in 1 .. Len(q[h]) :
        q[g][i] = q[h][j] => g = h /\ i = j

\* The same of the lists of some heads.
OnceAmong(q, some) ==
    \A g, h \in some : \A i \in 1 .. Len(q[g]), j \in 1 .. Len(q[h]) :
        q[g][i] = q[h][j] => g = h /\ i = j

\* Lists of entries, empty where the head is not in use.
Lists(q, used) ==
    /\ q \in [Heads -> Seq(Entries)]
    /\ used \subseteq Heads
    /\ \A h \in Heads \ used : q[h] = <<>>
    /\ OnceEach(q)

\* Memory m holds the lists q of the heads that are used.
Holds(m, q, used) ==
    /\ m \in Memory
    /\ Lists(q, used)
    /\ \A h \in used : Ring(m, h, q[h])

\* The entries that are on some list.
On(q) == UNION {{q[h][i] : i \in 1 .. Len(q[h])} : h \in Heads}

\* The inductive invariant.
Inv == Holds(mem, seq, live)
-----------------------------------------------------------------------------
(***************************************************************************)
(* Pointers and rings.                                                     *)
(***************************************************************************)
\* An assignment to next changes one pointer.
LEMMA NextSet ==
    ASSUME NEW m \in Memory, NEW n \in Nodes,
           NEW x \in Nodes \cup {NULL, LIST_POISON1}
    PROVE  /\ SetNext(m, n, x) \in Memory
           /\ SetNext(m, n, x).next = [m.next EXCEPT ![n] = x]
           /\ SetNext(m, n, x).prev = m.prev
BY DEF SetNext, Memory

\* An assignment to prev changes one pointer.
LEMMA PrevSet ==
    ASSUME NEW m \in Memory, NEW n \in Nodes,
           NEW x \in Nodes \cup {NULL, LIST_POISON2}
    PROVE  /\ SetPrev(m, n, x) \in Memory
           /\ SetPrev(m, n, x).prev = [m.prev EXCEPT ![n] = x]
           /\ SetPrev(m, n, x).next = m.next
BY DEF SetPrev, Memory

\* Memory with the pointers as they are, by their names.
LEMMA MemoryTypes ==
    ASSUME NEW m \in Memory
    PROVE  /\ m.next \in [Nodes -> Nodes \cup {NULL, LIST_POISON1}]
           /\ m.prev \in [Nodes -> Nodes \cup {NULL, LIST_POISON2}]
BY DEF Memory

\* Ring is IsRing.
LEMMA RingIs ==
    ASSUME NEW m, NEW h \in Heads, NEW s \in Seq(Entries)
    PROVE  IsRing(m, h, s) <=> Ring(m, h, s)
<1> DEFINE ring == <<h>> \o s
           After(i) == IF i = Len(ring) THEN h ELSE ring[i + 1]
<1>1. /\ Len(s) \in Nat
      /\ DOMAIN ring = 1 .. Len(s) + 1 /\ Len(ring) = Len(s) + 1
      /\ \A i \in 1 .. Len(s) + 1 : ring[i] = IF i = 1 THEN h ELSE s[i - 1]
    OBVIOUS
<1>2. \A i \in 0 .. Len(s) : /\ ring[i + 1] = NodeAt(h, s, i)
                             /\ After(i + 1) = NodeAt(h, s, i + 1)
    BY <1>1 DEF NodeAt
<1>3. IsRing(m, h, s) <=> \A i \in 1 .. Len(s) + 1 :
            m.next[ring[i]] = After(i) /\ m.prev[After(i)] = ring[i]
    BY <1>1 DEF IsRing
<1> HIDE DEF ring, After
<1>4. (\A i \in 1 .. Len(s) + 1 :
            m.next[ring[i]] = After(i) /\ m.prev[After(i)] = ring[i])
      <=> (\A i \in 0 .. Len(s) : /\ m.next[ring[i + 1]] = After(i + 1)
                                  /\ m.prev[After(i + 1)] = ring[i + 1])
    <2>1. \A i \in 1 .. Len(s) + 1 : i - 1 \in 0 .. Len(s) /\ (i - 1) + 1 = i
        BY <1>1
    <2>2. \A i \in 0 .. Len(s) : i + 1 \in 1 .. Len(s) + 1
        BY <1>1
    <2> QED BY <2>1, <2>2
<1> QED BY <1>2, <1>3, <1>4 DEF Ring

\* A ring whose pointers are as they were is a ring.
LEMMA Frame ==
    ASSUME NEW m, NEW m2, NEW h, NEW s \in Seq(Entries), Ring(m, h, s),
           \A i \in 0 .. Len(s) + 1 :
               /\ m2.next[NodeAt(h, s, i)] = m.next[NodeAt(h, s, i)]
               /\ m2.prev[NodeAt(h, s, i)] = m.prev[NodeAt(h, s, i)]
    PROVE  Ring(m2, h, s)
<1>1. Len(s) \in Nat
    OBVIOUS
<1> QED BY <1>1 DEF Ring

\* The nodes of a ring and their neighbours are nodes.
LEMMA Neighbours ==
    ASSUME NEW m \in Memory, NEW h \in Heads, NEW s \in Seq(Entries), Ring(m, h, s)
    PROVE  /\ \A i \in Int : NodeAt(h, s, i) \in Nodes
           /\ m.next[h] = NodeAt(h, s, 1)
           /\ m.prev[h] = NodeAt(h, s, Len(s))
           /\ \A i \in 1 .. Len(s) : /\ m.next[s[i]] = NodeAt(h, s, i + 1)
                                     /\ m.prev[s[i]] = NodeAt(h, s, i - 1)
<1>1. Len(s) \in Nat
    OBVIOUS
<1>2. \A i \in Int : NodeAt(h, s, i) \in Nodes
    BY DEF NodeAt, Nodes
<1>3. NodeAt(h, s, 0) = h /\ NodeAt(h, s, Len(s) + 1) = h
    BY <1>1 DEF NodeAt
<1>4. m.next[h] = NodeAt(h, s, 1) /\ m.prev[h] = NodeAt(h, s, Len(s))
    <2>1. 0 \in 0 .. Len(s) /\ Len(s) \in 0 .. Len(s) /\ 0 + 1 = 1
        BY <1>1
    <2> QED BY <1>3, <2>1 DEF Ring
<1>5. ASSUME NEW i \in 1 .. Len(s)
      PROVE  m.next[s[i]] = NodeAt(h, s, i + 1) /\ m.prev[s[i]] = NodeAt(h, s, i - 1)
    <2>1. i \in 0 .. Len(s) /\ i - 1 \in 0 .. Len(s) /\ (i - 1) + 1 = i
        BY <1>1
    <2>2. NodeAt(h, s, i) = s[i]
        BY DEF NodeAt
    <2> QED BY <2>1, <2>2 DEF Ring
<1> QED BY <1>2, <1>4, <1>5

\* What Lists says, one by one.
LEMMA ListsTypes ==
    ASSUME NEW q, NEW used, Lists(q, used)
    PROVE  /\ \A h \in Heads : q[h] \in Seq(Entries) /\ Len(q[h]) \in Nat
           /\ \A h \in used : h \in Heads
           /\ used \subseteq Nodes /\ Entries \subseteq Nodes
           /\ \A h \in Heads : \A i \in 1 .. Len(q[h]) :
                 q[h][i] \in Entries /\ q[h][i] \in On(q)
BY DEF Lists, On, Nodes

\* No node is met twice on the way round the lists.
LEMMA Distinct ==
    ASSUME NEW q, NEW used, Lists(q, used), NEW g \in Heads, NEW h \in Heads
    PROVE  /\ \A i \in 0 .. Len(q[g]), j \in 0 .. Len(q[h]) :
                 NodeAt(g, q[g], i) = NodeAt(h, q[h], j) => g = h /\ i = j
           /\ \A i \in 1 .. Len(q[g]) + 1, j \in 1 .. Len(q[h]) + 1 :
                 NodeAt(g, q[g], i) = NodeAt(h, q[h], j) => g = h /\ i = j
<1>1. Len(q[g]) \in Nat /\ Len(q[h]) \in Nat
    BY ListsTypes
<1>2. /\ \A i \in 1 .. Len(q[g]) : q[g][i] \notin Heads
      /\ \A i \in 1 .. Len(q[h]) : q[h][i] \notin Heads
    BY ListsTypes, NodesAssumption
<1>3. \A i \in 1 .. Len(q[g]), j \in 1 .. Len(q[h]) :
          q[g][i] = q[h][j] => g = h /\ i = j
    BY DEF Lists, OnceEach
<1>4. ASSUME NEW i \in 0 .. Len(q[g]) + 1, NEW j \in 0 .. Len(q[h]) + 1,
             NodeAt(g, q[g], i) = NodeAt(h, q[h], j),
             i = 0 => j # Len(q[h]) + 1, j = 0 => i # Len(q[g]) + 1
      PROVE  g = h /\ i = j
    <2>1. CASE i \in 1 .. Len(q[g]) /\ j \in 1 .. Len(q[h])
        BY <1>3, <1>4, <2>1 DEF NodeAt
    <2>2. CASE i \notin 1 .. Len(q[g]) /\ j \notin 1 .. Len(q[h])
        BY <1>1, <1>4, <2>2 DEF NodeAt
    <2>3. CASE i \in 1 .. Len(q[g]) /\ j \notin 1 .. Len(q[h])
        BY <1>2, <1>4, <2>3 DEF NodeAt
    <2>4. CASE i \notin 1 .. Len(q[g]) /\ j \in 1 .. Len(q[h])
        BY <1>2, <1>4, <2>4 DEF NodeAt
    <2> QED BY <2>1, <2>2, <2>3, <2>4
<1>5. /\ \A i \in 0 .. Len(q[g]) : i \in 0 .. Len(q[g]) + 1 /\ i # Len(q[g]) + 1
      /\ \A j \in 0 .. Len(q[h]) : j \in 0 .. Len(q[h]) + 1 /\ j # Len(q[h]) + 1
      /\ \A i \in 1 .. Len(q[g]) + 1 : i \in 0 .. Len(q[g]) + 1 /\ i # 0
      /\ \A j \in 1 .. Len(q[h]) + 1 : j \in 0 .. Len(q[h]) + 1 /\ j # 0
    BY <1>1
<1> QED BY <1>4, <1>5

\* An assignment of new pointers that keeps the lists it does not name.
LEMMA OthersKept ==
    ASSUME NEW m, NEW q, NEW used, Holds(m, q, used), NEW g \in used,
           NEW m2, NEW nodes,
           \A n \in Nodes \ nodes : m2.next[n] = m.next[n] /\ m2.prev[n] = m.prev[n],
           g \notin nodes, \A i \in 1 .. Len(q[g]) : q[g][i] \notin nodes
    PROVE  Ring(m2, g, q[g])
<1>1. Lists(q, used) /\ g \in Heads /\ q[g] \in Seq(Entries) /\ Ring(m, g, q[g])
    BY ListsTypes DEF Holds
<1>2. \A i \in 0 .. Len(q[g]) + 1 : NodeAt(g, q[g], i) \in Nodes \ nodes
    BY <1>1, ListsTypes DEF NodeAt, Nodes
<1> QED BY <1>1, <1>2, Frame
-----------------------------------------------------------------------------
(***************************************************************************)
(* The functions of list.h.                                                *)
(***************************************************************************)
\* The four assignments of __list_add.
LEMMA InsertSets ==
    ASSUME NEW m \in Memory, NEW e \in Nodes, NEW a \in Nodes, NEW b \in Nodes,
           e # a, e # b
    PROVE  LET m2 == InsertBetween(m, e, a, b)
           IN  /\ m2 \in Memory
               /\ m2.next[a] = e /\ m2.next[e] = b
               /\ m2.prev[b] = e /\ m2.prev[e] = a
               /\ \A n \in Nodes \ {a, e} : m2.next[n] = m.next[n]
               /\ \A n \in Nodes \ {b, e} : m2.prev[n] = m.prev[n]
<1> DEFINE m1 == SetPrev(m, b, e)
           m2 == SetNext(m1, e, b)
           m3 == SetPrev(m2, e, a)
           m4 == SetNext(m3, a, e)
<1>1. m1 \in Memory /\ m1.prev = [m.prev EXCEPT ![b] = e] /\ m1.next = m.next
    BY PrevSet
<1> HIDE DEF m1
<1>2. m2 \in Memory /\ m2.next = [m1.next EXCEPT ![e] = b] /\ m2.prev = m1.prev
    BY <1>1, NextSet
<1> HIDE DEF m2
<1>3. m3 \in Memory /\ m3.prev = [m2.prev EXCEPT ![e] = a] /\ m3.next = m2.next
    BY <1>2, PrevSet
<1> HIDE DEF m3
<1>4. m4 \in Memory /\ m4.next = [m3.next EXCEPT ![a] = e] /\ m4.prev = m3.prev
    BY <1>3, NextSet
<1>5. InsertBetween(m, e, a, b) = m4
    BY DEF InsertBetween, m1, m2, m3
<1> HIDE DEF m4
<1> QED BY <1>1, <1>2, <1>3, <1>4, <1>5, MemoryTypes

\* __list_add puts a free entry between two neighbours.
LEMMA Inserted ==
    ASSUME NEW m, NEW q, NEW used, Holds(m, q, used),
           NEW e \in Entries, e \notin On(q),
           NEW h \in used, NEW k \in 0 .. Len(q[h]),
           NEW s \in Seq(Entries), Len(s) = Len(q[h]) + 1,
           \A i \in 1 .. Len(q[h]) + 1 :
               s[i] = IF i <= k THEN q[h][i] ELSE IF i = k + 1 THEN e ELSE q[h][i - 1]
    PROVE  Holds(InsertBetween(m, e, NodeAt(h, q[h], k), NodeAt(h, q[h], k + 1)),
                 [q EXCEPT ![h] = s], used)
<1> DEFINE a == NodeAt(h, q[h], k)
           b == NodeAt(h, q[h], k + 1)
           m2 == InsertBetween(m, e, a, b)
           q2 == [q EXCEPT ![h] = s]
           N == Len(q[h])
           place(i) == IF i <= k THEN i ELSE i - 1
<1>1. /\ Lists(q, used) /\ m \in Memory /\ h \in Heads /\ q[h] \in Seq(Entries)
      /\ N \in Nat /\ Ring(m, h, q[h]) /\ q \in [Heads -> Seq(Entries)]
      /\ \A g \in Heads : \A i \in 1 .. Len(q[g]) : q[g][i] \in Entries /\ q[g][i] # e
    <2>1. Lists(q, used) /\ m \in Memory /\ Ring(m, h, q[h])
        BY DEF Holds
    <2>2. q \in [Heads -> Seq(Entries)]
        BY <2>1 DEF Lists
    <2> QED BY <2>1, <2>2, ListsTypes
<1>2. a \in Nodes /\ b \in Nodes /\ e \in Nodes /\ e # a /\ e # b
    BY <1>1, NodesAssumption DEF NodeAt, Nodes
<1>3. /\ m2 \in Memory
      /\ m2.next[a] = e /\ m2.next[e] = b
      /\ m2.prev[b] = e /\ m2.prev[e] = a
      /\ \A n \in Nodes \ {a, e} : m2.next[n] = m.next[n]
      /\ \A n \in Nodes \ {b, e} : m2.prev[n] = m.prev[n]
    BY <1>1, <1>2, InsertSets
<1>4. /\ \A i \in 0 .. k : NodeAt(h, s, i) = NodeAt(h, q[h], i)
      /\ NodeAt(h, s, k + 1) = e
      /\ \A i \in k + 2 .. N + 2 : NodeAt(h, s, i) = NodeAt(h, q[h], i - 1)
    <2>1. Len(s) = N + 1 /\ k \in 0 .. N /\ N \in Nat
        BY <1>1
    <2>2. ASSUME NEW i \in 0 .. k
          PROVE  NodeAt(h, s, i) = NodeAt(h, q[h], i)
        BY <2>1 DEF NodeAt
    <2>3. NodeAt(h, s, k + 1) = e
        BY <2>1 DEF NodeAt
    <2>4. ASSUME NEW i \in k + 2 .. N + 2
          PROVE  NodeAt(h, s, i) = NodeAt(h, q[h], i - 1)
        BY <2>1 DEF NodeAt
    <2> QED BY <2>2, <2>3, <2>4
<1>5. Lists(q2, used)
    <2>1. q2 \in [Heads -> Seq(Entries)] /\ \A g \in Heads \ used : q2[g] = <<>>
        BY <1>1 DEF Lists
    <2>2. \A i \in 1 .. N + 1 : i # k + 1 =>
              place(i) \in 1 .. N /\ s[i] = q[h][place(i)]
        BY <1>1
    <2>3. \A i, j \in 1 .. N + 1 :
              i # k + 1 /\ j # k + 1 /\ place(i) = place(j) => i = j
        BY <1>1
    <2>4. s[k + 1] = e /\ Len(s) = N + 1
        BY <1>1
    <2> HIDE DEF place
    <2>5. \A f, g \in Heads : \A i \in 1 .. Len(q[f]), j \in 1 .. Len(q[g]) :
              q[f][i] = q[g][j] => f = g /\ i = j
        BY <1>1 DEF Lists, OnceEach
    <2>6. ASSUME NEW g \in Heads, g # h, NEW i \in 1 .. N + 1,
                 NEW j \in 1 .. Len(q[g])
          PROVE  s[i] # q[g][j]
        <3>1. CASE i = k + 1
            BY <1>1, <2>4, <3>1
        <3>2. CASE i # k + 1
            <4>1. place(i) \in 1 .. Len(q[h]) /\ s[i] = q[h][place(i)]
                BY <2>2, <3>2
            <4> QED BY <1>1, <2>5, <2>6, <4>1
        <3> QED BY <3>1, <3>2
    <2>7. ASSUME NEW i \in 1 .. N + 1, NEW j \in 1 .. N + 1, s[i] = s[j]
          PROVE  i = j
        <3>1. \A l \in 1 .. N + 1 : l # k + 1 =>
                  place(l) \in 1 .. Len(q[h]) /\ s[l] = q[h][place(l)] /\ s[l] # e
            BY <1>1, <2>2
        <3>2. CASE i = k + 1 \/ j = k + 1
            BY <2>4, <2>7, <3>1, <3>2
        <3>3. CASE i # k + 1 /\ j # k + 1
            <4>1. place(i) = place(j)
                BY <1>1, <2>5, <2>7, <3>1, <3>3
            <4> QED BY <2>3, <3>3, <4>1
        <3> QED BY <3>2, <3>3
    <2>8. q2[h] = s /\ \A g \in Heads \ {h} : q2[g] = q[g]
        BY <1>1
    <2> HIDE DEF q2, N
    <2>9. OnceEach(q2)
        <3>1. SUFFICES ASSUME NEW f \in Heads, NEW g \in Heads,
                              NEW i \in 1 .. Len(q2[f]), NEW j \in 1 .. Len(q2[g]),
                              q2[f][i] = q2[g][j]
                       PROVE  f = g /\ i = j
            BY DEF OnceEach
        <3>2. CASE f # h /\ g # h
            <4>1. q2[f] = q[f] /\ q2[g] = q[g]
                BY <2>8, <3>2
            <4> QED BY <2>5, <3>1, <4>1, SMTT(30)
        <3>3. CASE f = h /\ g = h
            BY <2>4, <2>7, <2>8, <3>1, <3>3
        <3>4. CASE f = h /\ g # h
            BY <2>4, <2>6, <2>8, <3>1, <3>4, SMTT(30)
        <3>5. CASE f # h /\ g = h
            BY <2>4, <2>6, <2>8, <3>1, <3>5, SMTT(30)
        <3> QED BY <3>2, <3>3, <3>4, <3>5
    <2> QED BY <1>1, <2>1, <2>9 DEF Lists
<1>6. Ring(m2, h, s)
    <2>0. \A i \in 0 .. N + 1 : NodeAt(h, q[h], i) \in Nodes \ {e}
        BY <1>1, NodesAssumption DEF NodeAt, Nodes
    <2>1. ASSUME NEW i \in 0 .. k - 1
          PROVE  NodeAt(h, q[h], i) \in Nodes \ {a, e} /\ NodeAt(h, q[h], i + 1) \in Nodes \ {b, e}
        <3>1. /\ i \in 0 .. N /\ i \in 0 .. N + 1 /\ i + 1 \in 0 .. N + 1 /\ i + 1 \in 1 .. N + 1
              /\ k \in 0 .. N /\ k + 1 \in 1 .. N + 1 /\ i # k /\ i + 1 # k + 1
            BY <1>1
        <3>2. NodeAt(h, q[h], i) # a
            BY <1>1, <3>1, Distinct
        <3>3. NodeAt(h, q[h], i + 1) # b
            BY <1>1, <3>1, Distinct
        <3> QED BY <2>0, <3>1, <3>2, <3>3
    <2>2. ASSUME NEW i \in k + 1 .. N
          PROVE  NodeAt(h, q[h], i) \in Nodes \ {a, e} /\ NodeAt(h, q[h], i + 1) \in Nodes \ {b, e}
        <3>1. /\ i \in 0 .. N /\ i \in 0 .. N + 1 /\ i + 1 \in 0 .. N + 1 /\ i + 1 \in 1 .. N + 1
              /\ k \in 0 .. N /\ k + 1 \in 1 .. N + 1 /\ i # k /\ i + 1 # k + 1
            BY <1>1
        <3>2. NodeAt(h, q[h], i) # a
            BY <1>1, <3>1, Distinct
        <3>3. NodeAt(h, q[h], i + 1) # b
            BY <1>1, <3>1, Distinct
        <3> QED BY <2>0, <3>1, <3>2, <3>3
    <2>3. \A i \in 0 .. k - 1 : /\ m2.next[NodeAt(h, s, i)] = NodeAt(h, s, i + 1)
                                /\ m2.prev[NodeAt(h, s, i + 1)] = NodeAt(h, s, i)
        <3>1. \A i \in 0 .. k - 1 : i \in 0 .. k /\ i + 1 \in 0 .. k /\ i \in 0 .. N
            BY <1>1
        <3>2. SUFFICES ASSUME NEW i \in 0 .. k - 1
                       PROVE  /\ m2.next[NodeAt(h, q[h], i)] = NodeAt(h, q[h], i + 1)
                              /\ m2.prev[NodeAt(h, q[h], i + 1)] = NodeAt(h, q[h], i)
            BY <1>4, <3>1
        <3> QED BY <1>1, <1>3, <2>1, <3>1 DEF Ring
    <2>4. /\ m2.next[NodeAt(h, s, k)] = NodeAt(h, s, k + 1)
          /\ m2.prev[NodeAt(h, s, k + 1)] = NodeAt(h, s, k)
        BY <1>1, <1>3, <1>4
    <2>5. /\ m2.next[NodeAt(h, s, k + 1)] = NodeAt(h, s, k + 2)
          /\ m2.prev[NodeAt(h, s, k + 2)] = NodeAt(h, s, k + 1)
        BY <1>1, <1>3, <1>4
    <2>6. ASSUME NEW i \in k + 2 .. N + 1
          PROVE  /\ m2.next[NodeAt(h, s, i)] = NodeAt(h, s, i + 1)
                 /\ m2.prev[NodeAt(h, s, i + 1)] = NodeAt(h, s, i)
        <3>1. i - 1 \in k + 1 .. N /\ (i - 1) + 1 = i /\ i \in k + 2 .. N + 2
                /\ i + 1 \in k + 2 .. N + 2 /\ (i + 1) - 1 = i /\ i - 1 \in 0 .. N
            BY <1>1
        <3>2. NodeAt(h, s, i) = NodeAt(h, q[h], i - 1) /\ NodeAt(h, s, i + 1) = NodeAt(h, q[h], i)
            BY <1>4, <3>1
        <3>3. NodeAt(h, q[h], i - 1) \in Nodes \ {a, e} /\ NodeAt(h, q[h], i) \in Nodes \ {b, e}
            BY <2>2, <3>1
        <3>4. /\ m.next[NodeAt(h, q[h], i - 1)] = NodeAt(h, q[h], i)
              /\ m.prev[NodeAt(h, q[h], i)] = NodeAt(h, q[h], i - 1)
            BY <1>1, <3>1 DEF Ring
        <3> QED BY <1>3, <3>2, <3>3, <3>4
    <2> QED BY <1>1, <2>3, <2>4, <2>5, <2>6 DEF Ring
<1>7. ASSUME NEW g \in used, g # h
      PROVE  Ring(m2, g, q[g])
    <2>1. g \in Heads /\ g \notin {a, b, e}
        BY <1>1, <1>7, NodesAssumption DEF Lists, NodeAt
    <2>2. \A i \in 1 .. Len(q[g]) : q[g][i] \notin {a, b, e}
        <3>1. \A i \in 1 .. Len(q[g]) : i \in 0 .. Len(q[g]) /\ i \in 1 .. Len(q[g]) + 1
                                        /\ q[g][i] = NodeAt(g, q[g], i)
            BY <1>1, <2>1, ListsTypes DEF NodeAt
        <3>2. k \in 0 .. N /\ k + 1 \in 1 .. N + 1
            BY <1>1
        <3> QED BY <1>1, <1>7, <2>1, <3>1, <3>2, Distinct
    <2>3. \A n \in Nodes \ {a, b, e} : m2.next[n] = m.next[n] /\ m2.prev[n] = m.prev[n]
        BY <1>3
    <2> HIDE DEF a, b, m2
    <2> QED BY <2>1, <2>2, <2>3, OthersKept, ZenonT(30)
<1>8. \A g \in used : Ring(m2, g, q2[g])
    BY <1>1, <1>6, <1>7 DEF Lists
<1> QED BY <1>3, <1>5, <1>8 DEF Holds

\* Lists that are made of the entries of the lists of the same heads.
LEMMA Regrouped ==
    ASSUME NEW q, NEW used, Lists(q, used),
           NEW r \in [Heads -> Seq(Entries)], NEW some \in SUBSET Heads,
           \A g \in Heads \ some : r[g] = q[g],
           \A g \in some : \A i \in 1 .. Len(r[g]) :
               \E f \in some : \E j \in 1 .. Len(q[f]) : r[g][i] = q[f][j],
           OnceAmong(r, some)
    PROVE  OnceEach(r)
<1>1. \A f, g \in Heads : \A i \in 1 .. Len(q[f]), j \in 1 .. Len(q[g]) :
          q[f][i] = q[g][j] => f = g /\ i = j
    BY DEF Lists, OnceEach
<1>2. SUFFICES ASSUME NEW f \in Heads, NEW g \in Heads,
                      NEW i \in 1 .. Len(r[f]), NEW j \in 1 .. Len(r[g]),
                      r[f][i] = r[g][j]
               PROVE  f = g /\ i = j
    BY DEF OnceEach
<1>3. CASE f \in some /\ g \in some
    BY <1>2, <1>3 DEF OnceAmong
<1>4. CASE f \notin some /\ g \notin some
    <2>1. r[f] = q[f] /\ r[g] = q[g]
        BY <1>4
    <2> QED BY <1>1, <1>2, <2>1
<1>5. CASE f \in some /\ g \notin some
    <2>1. PICK e \in some : \E l \in 1 .. Len(q[e]) : r[f][i] = q[e][l]
        BY <1>5
    <2>2. PICK l \in 1 .. Len(q[e]) : r[f][i] = q[e][l]
        BY <2>1
    <2>3. r[g] = q[g] /\ e # g /\ e \in Heads
        BY <1>5
    <2>4. q[g][j] = q[e][l] /\ j \in 1 .. Len(q[g])
        BY <1>2, <2>2, <2>3
    <2> QED BY <1>1, <2>3, <2>4
<1>6. CASE f \notin some /\ g \in some
    <2>1. PICK e \in some : \E l \in 1 .. Len(q[e]) : r[g][j] = q[e][l]
        BY <1>6
    <2>2. PICK l \in 1 .. Len(q[e]) : r[g][j] = q[e][l]
        BY <2>1
    <2>3. r[f] = q[f] /\ e # f /\ e \in Heads
        BY <1>6
    <2>4. q[f][i] = q[e][l] /\ i \in 1 .. Len(q[f])
        BY <1>2, <2>2, <2>3
    <2> QED BY <1>1, <2>3, <2>4
<1> QED BY <1>3, <1>4, <1>5, <1>6

\* One list is made of some of its own entries: place tells which.
LEMMA Reordered ==
    ASSUME NEW q, NEW used, Lists(q, used), NEW h \in used,
           NEW s \in Seq(Entries),
           NEW place,
           \A i \in 1 .. Len(s) : place[i] \in 1 .. Len(q[h]) /\ s[i] = q[h][place[i]],
           \A i \in 1 .. Len(s), j \in 1 .. Len(s) : place[i] = place[j] => i = j
    PROVE  Lists([q EXCEPT ![h] = s], used)
<1> DEFINE r == [q EXCEPT ![h] = s]
<1>1. h \in Heads /\ q \in [Heads -> Seq(Entries)] /\ used \subseteq Heads
    BY DEF Lists
<1>2. /\ r \in [Heads -> Seq(Entries)]
      /\ r[h] = s /\ \A g \in Heads \ {h} : r[g] = q[g]
      /\ \A g \in Heads \ used : r[g] = <<>>
    BY <1>1 DEF Lists
<1> HIDE DEF r
<1>3. \A i, j \in 1 .. Len(q[h]) : q[h][i] = q[h][j] => i = j
    BY <1>1 DEF Lists, OnceEach
<1>4. ASSUME NEW i \in 1 .. Len(s), NEW j \in 1 .. Len(s), s[i] = s[j]
      PROVE  i = j
    <2>1. place[i] = place[j]
        BY <1>3, <1>4
    <2> QED BY <2>1
<1>5. \A g \in {h} : \A i \in 1 .. Len(r[g]) :
          \E f \in {h} : \E j \in 1 .. Len(q[f]) : r[g][i] = q[f][j]
    <2>1. SUFFICES ASSUME NEW i \in 1 .. Len(s)
                   PROVE  \E j \in 1 .. Len(q[h]) : s[i] = q[h][j]
        BY <1>2
    <2>2. place[i] \in 1 .. Len(q[h]) /\ s[i] = q[h][place[i]]
        OBVIOUS
    <2> QED BY <2>2
<1>6. OnceAmong(r, {h})
    BY <1>2, <1>4 DEF OnceAmong
<1>7. OnceEach(r)
    <2>1. {h} \in SUBSET Heads
        BY <1>1
    <2> QED BY <1>2, <1>5, <1>6, <2>1, Regrouped
<1> QED BY <1>1, <1>2, <1>7 DEF Lists, r

\* The two assignments of __list_del, as functions.
LEMMA JoinIs ==
    ASSUME NEW m \in Memory, NEW a \in Nodes, NEW b \in Nodes
    PROVE  /\ JoinAround(m, a, b) \in Memory
           /\ JoinAround(m, a, b).next = [m.next EXCEPT ![a] = b]
           /\ JoinAround(m, a, b).prev = [m.prev EXCEPT ![b] = a]
<1>1. PICK m1 : m1 = SetPrev(m, b, a)
    OBVIOUS
<1>2. m1 \in Memory /\ m1.prev = [m.prev EXCEPT ![b] = a] /\ m1.next = m.next
    BY <1>1, PrevSet
<1>3. PICK x : x = SetNext(m1, a, b)
    OBVIOUS
<1>4. x \in Memory /\ x.next = [m1.next EXCEPT ![a] = b] /\ x.prev = m1.prev
    BY <1>2, <1>3, NextSet
<1>5. x = JoinAround(m, a, b)
    BY <1>1, <1>3 DEF JoinAround
<1> QED BY <1>2, <1>4, <1>5

\* The two assignments of __list_del, pointer by pointer.
LEMMA JoinSets ==
    ASSUME NEW m \in Memory, NEW a \in Nodes, NEW b \in Nodes
    PROVE  LET m2 == JoinAround(m, a, b)
           IN  /\ m2 \in Memory
               /\ m2.next[a] = b /\ m2.prev[b] = a
               /\ \A n \in Nodes \ {a} : m2.next[n] = m.next[n]
               /\ \A n \in Nodes \ {b} : m2.prev[n] = m.prev[n]
<1>1. PICK x : x = JoinAround(m, a, b)
    OBVIOUS
<1>2. x \in Memory /\ x.next = [m.next EXCEPT ![a] = b] /\ x.prev = [m.prev EXCEPT ![b] = a]
    BY <1>1, JoinIs
<1>3. x.next[a] = b /\ \A n \in Nodes \ {a} : x.next[n] = m.next[n]
    BY <1>2, MemoryTypes
<1>4. x.prev[b] = a /\ \A n \in Nodes \ {b} : x.prev[n] = m.prev[n]
    BY <1>2, MemoryTypes
<1> QED BY <1>1, <1>2, <1>3, <1>4

\* __list_del_entry takes the k-th entry of a list out.
LEMMA Unlinked ==
    ASSUME NEW m, NEW q, NEW used, Holds(m, q, used),
           NEW h \in used, NEW k \in 1 .. Len(q[h]),
           NEW s \in Seq(Entries), Len(s) = Len(q[h]) - 1,
           \A i \in 1 .. Len(q[h]) - 1 :
               s[i] = IF i < k THEN q[h][i] ELSE q[h][i + 1]
    PROVE  Holds(Unlink(m, q[h][k]), [q EXCEPT ![h] = s], used)
<1> DEFINE N == Len(q[h])
           a == NodeAt(h, q[h], k - 1)
           b == NodeAt(h, q[h], k + 1)
           m2 == JoinAround(m, a, b)
           r == [q EXCEPT ![h] = s]
<1>1. /\ Lists(q, used) /\ m \in Memory /\ h \in Heads /\ q[h] \in Seq(Entries)
      /\ N \in Nat /\ Ring(m, h, q[h]) /\ q \in [Heads -> Seq(Entries)]
      /\ k \in 1 .. N
    <2>1. Lists(q, used) /\ m \in Memory /\ Ring(m, h, q[h])
        BY DEF Holds
    <2>2. q \in [Heads -> Seq(Entries)]
        BY <2>1 DEF Lists
    <2> QED BY <2>1, <2>2, ListsTypes
<1>2. a \in Nodes /\ b \in Nodes /\ Unlink(m, q[h][k]) = m2
    <2>1. k - 1 \in Int /\ k + 1 \in Int
        BY <1>1
    <2> QED BY <1>1, <2>1, Neighbours DEF Unlink
<1>3. /\ m2 \in Memory
      /\ m2.next[a] = b /\ m2.prev[b] = a
      /\ \A n \in Nodes \ {a} : m2.next[n] = m.next[n]
      /\ \A n \in Nodes \ {b} : m2.prev[n] = m.prev[n]
    <2>1. PICK c : c = a
        OBVIOUS
    <2>2. PICK d : d = b
        OBVIOUS
    <2>3. PICK x : x = JoinAround(m, c, d)
        OBVIOUS
    <2>4. m \in Memory /\ c \in Nodes /\ d \in Nodes
        BY <1>1, <1>2, <2>1, <2>2
    <2>5. /\ x \in Memory
          /\ x.next = [m.next EXCEPT ![c] = d]
          /\ x.prev = [m.prev EXCEPT ![d] = c]
        BY <2>3, <2>4, JoinIs
    <2>6. x.next[c] = d /\ \A n \in Nodes \ {c} : x.next[n] = m.next[n]
        BY <2>4, <2>5, MemoryTypes
    <2>7. x.prev[d] = c /\ \A n \in Nodes \ {d} : x.prev[n] = m.prev[n]
        BY <2>4, <2>5, MemoryTypes
    <2>8. m2 = x
        BY <2>1, <2>2, <2>3
    <2> QED BY <2>1, <2>2, <2>5, <2>6, <2>7, <2>8
<1>4. /\ \A i \in 0 .. k - 1 : NodeAt(h, s, i) = NodeAt(h, q[h], i)
      /\ \A i \in k .. N : NodeAt(h, s, i) = NodeAt(h, q[h], i + 1)
    <2>1. Len(s) = N - 1 /\ k \in 1 .. N /\ N \in Nat
        BY <1>1
    <2>2. ASSUME NEW i \in 0 .. k - 1
          PROVE  NodeAt(h, s, i) = NodeAt(h, q[h], i)
        BY <2>1 DEF NodeAt
    <2>3. ASSUME NEW i \in k .. N
          PROVE  NodeAt(h, s, i) = NodeAt(h, q[h], i + 1)
        BY <2>1 DEF NodeAt
    <2> QED BY <2>2, <2>3
<1>5. Lists(r, used)
    <2> DEFINE place == [i \in 1 .. N - 1 |-> IF i < k THEN i ELSE i + 1]
    <2>1. Len(s) = N - 1 /\ k \in 1 .. N /\ N \in Nat
        BY <1>1
    <2>2. \A i \in 1 .. Len(s) :
              place[i] \in 1 .. Len(q[h]) /\ s[i] = q[h][place[i]]
        BY <2>1
    <2>3. \A i \in 1 .. Len(s), j \in 1 .. Len(s) : place[i] = place[j] => i = j
        BY <2>1
    <2> HIDE DEF place
    <2>4. Lists(q, used)
        BY <1>1
    <2> QED BY <2>2, <2>3, <2>4, Reordered, SMTT(20)
<1>6. Ring(m2, h, s)
    <2>1. ASSUME NEW i \in 0 .. N, i \notin {k - 1, k}
          PROVE  NodeAt(h, q[h], i) # a /\ NodeAt(h, q[h], i + 1) # b
        <3>1. /\ k - 1 \in 0 .. N /\ k + 1 \in 1 .. N + 1 /\ i + 1 \in 1 .. N + 1
              /\ i # k - 1 /\ i + 1 # k + 1
            BY <1>1, <2>1
        <3>2. NodeAt(h, q[h], i) # a
            BY <1>1, <3>1, Distinct
        <3>3. NodeAt(h, q[h], i + 1) # b
            BY <1>1, <3>1, Distinct
        <3> QED BY <3>2, <3>3
    <2>2. \A i \in 0 .. N : i \notin {k - 1, k} =>
              /\ m2.next[NodeAt(h, q[h], i)] = NodeAt(h, q[h], i + 1)
              /\ m2.prev[NodeAt(h, q[h], i + 1)] = NodeAt(h, q[h], i)
        <3>1. \A i \in 0 .. N : NodeAt(h, q[h], i) \in Nodes /\ NodeAt(h, q[h], i + 1) \in Nodes
            BY <1>1 DEF NodeAt, Nodes
        <3> HIDE DEF a, b, m2
        <3> QED BY <1>1, <1>3, <2>1, <3>1 DEF Ring
    <2>3. ASSUME NEW i \in 0 .. N - 1
          PROVE  /\ m2.next[NodeAt(h, s, i)] = NodeAt(h, s, i + 1)
                 /\ m2.prev[NodeAt(h, s, i + 1)] = NodeAt(h, s, i)
        <3>1. CASE i < k - 1
            <4>1. /\ i \in 0 .. k - 1 /\ i + 1 \in 0 .. k - 1 /\ i \in 0 .. N
                  /\ i \notin {k - 1, k}
                BY <1>1, <3>1
            <4> QED BY <1>4, <2>2, <4>1
        <3>2. CASE i = k - 1
            <4>1. i \in 0 .. k - 1 /\ i + 1 \in k .. N /\ (i + 1) + 1 = k + 1
                BY <1>1, <3>2
            <4> QED BY <1>3, <1>4, <3>2, <4>1
        <3>3. CASE i > k - 1
            <4>1. /\ i \in k .. N /\ i + 1 \in k .. N /\ i + 1 \in 0 .. N
                  /\ i + 1 \notin {k - 1, k}
                BY <1>1, <3>3
            <4> QED BY <1>4, <2>2, <4>1
        <3> QED BY <1>1, <3>1, <3>2, <3>3
    <2> QED BY <1>1, <2>3 DEF Ring
<1>7. ASSUME NEW g \in used, g # h
      PROVE  Ring(m2, g, q[g])
    <2>1. g \in Heads /\ k - 1 \in 0 .. N /\ k + 1 \in 1 .. N + 1
        BY <1>1, ListsTypes
    <2>2. \A i \in 0 .. Len(q[g]) : NodeAt(g, q[g], i) # a
        BY <1>1, <1>7, <2>1, Distinct
    <2>3. \A i \in 0 .. Len(q[g]) : NodeAt(g, q[g], i + 1) # b
        <3>1. \A i \in 0 .. Len(q[g]) : i + 1 \in 1 .. Len(q[g]) + 1
            BY <1>1, <2>1, ListsTypes
        <3> QED BY <1>1, <1>7, <2>1, <3>1, Distinct
    <2>4. q[g] \in Seq(Entries) /\ Ring(m, g, q[g])
        BY <1>1, <2>1 DEF Holds
    <2> HIDE DEF a, b, m2
    <2>5. \A i \in 0 .. Len(q[g]) : NodeAt(g, q[g], i) \in Nodes /\ NodeAt(g, q[g], i + 1) \in Nodes
        BY <2>1, <2>4 DEF NodeAt, Nodes
    <2> QED BY <1>3, <2>4, <2>2, <2>3, <2>5 DEF Ring
<1>8. \A g \in used : Ring(m2, g, r[g])
    BY <1>1, <1>6, <1>7, ListsTypes
<1> QED BY <1>2, <1>3, <1>5, <1>8 DEF Holds

\* A node that is on no list may be written to.
LEMMA FreeTouched ==
    ASSUME NEW m, NEW q, NEW used, Holds(m, q, used),
           NEW e \in Entries, e \notin On(q), NEW m2 \in Memory,
           \A n \in Nodes \ {e} : m2.next[n] = m.next[n] /\ m2.prev[n] = m.prev[n]
    PROVE  Holds(m2, q, used)
<1>1. Lists(q, used)
    BY DEF Holds
<1>2. ASSUME NEW g \in used
      PROVE  Ring(m2, g, q[g])
    <2>1. g \in Heads /\ g # e
        BY <1>1, ListsTypes, NodesAssumption
    <2>2. \A i \in 1 .. Len(q[g]) : q[g][i] # e
        BY <1>1, <2>1, ListsTypes
    <2>3. g \notin {e} /\ \A i \in 1 .. Len(q[g]) : q[g][i] \notin {e}
        BY <2>1, <2>2
    <2> QED BY <2>3, OthersKept
<1> QED BY <1>1, <1>2 DEF Holds

\* A head without a list becomes a ring of itself.
LEMMA HeadInitialised ==
    ASSUME NEW m, NEW q, NEW used, Holds(m, q, used),
           NEW h \in Heads, q[h] = <<>>, NEW m2 \in Memory,
           m2.next[h] = h, m2.prev[h] = h,
           \A n \in Nodes \ {h} : m2.next[n] = m.next[n] /\ m2.prev[n] = m.prev[n]
    PROVE  Holds(m2, q, used \cup {h})
<1>1. Lists(q, used) /\ Lists(q, used \cup {h})
    BY DEF Holds, Lists
<1>2. ASSUME NEW g \in used, g # h
      PROVE  Ring(m2, g, q[g])
    <2>1. g \in Heads
        BY <1>1, ListsTypes
    <2>2. g \notin {h} /\ \A i \in 1 .. Len(q[g]) : q[g][i] \notin {h}
        BY <1>1, <1>2, <2>1, ListsTypes, NodesAssumption
    <2> QED BY <2>2, OthersKept, ZenonT(30)
<1>3. Ring(m2, h, q[h])
    BY DEF Ring, NodeAt
<1> QED BY <1>1, <1>2, <1>3 DEF Holds

\* INIT_LIST_HEAD changes the pointers of one node.
LEMMA InitSets ==
    ASSUME NEW m \in Memory, NEW n \in Nodes
    PROVE  LET m2 == INIT_LIST_HEAD(m, n)
           IN  /\ m2 \in Memory
               /\ m2.next[n] = n /\ m2.prev[n] = n
               /\ \A x \in Nodes \ {n} : m2.next[x] = m.next[x] /\ m2.prev[x] = m.prev[x]
<1> DEFINE m1 == SetNext(m, n, n)
           m2 == SetPrev(m1, n, n)
<1>1. m1 \in Memory /\ m1.next = [m.next EXCEPT ![n] = n] /\ m1.prev = m.prev
    BY NextSet
<1> HIDE DEF m1
<1>2. m2 \in Memory /\ m2.prev = [m1.prev EXCEPT ![n] = n] /\ m2.next = m1.next
    BY <1>1, PrevSet
<1>3. INIT_LIST_HEAD(m, n) = m2
    BY DEF INIT_LIST_HEAD, m1
<1> HIDE DEF m2
<1> QED BY <1>1, <1>2, <1>3, MemoryTypes

\* The four assignments of __list_splice.
LEMMA SpliceSets ==
    ASSUME NEW m \in Memory, NEW l \in Nodes, NEW a \in Nodes, NEW b \in Nodes,
           NEW c \in Nodes, NEW d \in Nodes, m.next[l] = c, m.prev[l] = d,
           a # d, b # c
    PROVE  LET m2 == SpliceBetween(m, l, a, b)
           IN  /\ m2 \in Memory
               /\ m2.next[a] = c /\ m2.prev[c] = a
               /\ m2.next[d] = b /\ m2.prev[b] = d
               /\ \A n \in Nodes \ {a, d} : m2.next[n] = m.next[n]
               /\ \A n \in Nodes \ {b, c} : m2.prev[n] = m.prev[n]
<1> DEFINE m1 == SetPrev(m, c, a)
           m2 == SetNext(m1, a, c)
           m3 == SetNext(m2, d, b)
           m4 == SetPrev(m3, b, d)
<1>1. m1 \in Memory /\ m1.prev = [m.prev EXCEPT ![c] = a] /\ m1.next = m.next
    BY PrevSet
<1> HIDE DEF m1
<1>2. m2 \in Memory /\ m2.next = [m1.next EXCEPT ![a] = c] /\ m2.prev = m1.prev
    BY <1>1, NextSet
<1> HIDE DEF m2
<1>3. m3 \in Memory /\ m3.next = [m2.next EXCEPT ![d] = b] /\ m3.prev = m2.prev
    BY <1>2, NextSet
<1> HIDE DEF m3
<1>4. m4 \in Memory /\ m4.prev = [m3.prev EXCEPT ![b] = d] /\ m4.next = m3.next
    BY <1>3, PrevSet
<1>5. SpliceBetween(m, l, a, b) = m4
    BY DEF SpliceBetween, m1, m2, m3
<1> HIDE DEF m4
<1> QED BY <1>1, <1>2, <1>3, <1>4, <1>5, MemoryTypes

\* s is x with the entries of y behind the first k.
Wedged(s, x, y, k) ==
    /\ Len(s) = Len(x) + Len(y)
    /\ \A i \in 1 .. Len(x) + Len(y) :
          s[i] = IF i <= k THEN x[i] ELSE IF i <= k + Len(y) THEN y[i - k] ELSE x[i - Len(y)]

\* __list_splice puts the entries of one list between two neighbours of
\* another; the head they come from holds a list no more.
LEMMA Spliced ==
    ASSUME NEW m, NEW q, NEW used, Holds(m, q, used),
           NEW l \in used, NEW h \in used, l # h, Len(q[l]) > 0,
           NEW k \in 0 .. Len(q[h]),
           NEW s \in Seq(Entries), Wedged(s, q[h], q[l], k)
    PROVE  Holds(SpliceBetween(m, l, NodeAt(h, q[h], k), NodeAt(h, q[h], k + 1)),
                 [q EXCEPT ![h] = s, ![l] = <<>>], used \ {l})
<1> DEFINE N == Len(q[h])
           L == Len(q[l])
           a == NodeAt(h, q[h], k)
           b == NodeAt(h, q[h], k + 1)
           c == NodeAt(l, q[l], 1)
           d == NodeAt(l, q[l], L)
           m2 == SpliceBetween(m, l, a, b)
           r == [q EXCEPT ![h] = s, ![l] = <<>>]
<1>1. /\ Lists(q, used) /\ m \in Memory /\ h \in Heads /\ l \in Heads
      /\ q[h] \in Seq(Entries) /\ q[l] \in Seq(Entries)
      /\ Ring(m, h, q[h]) /\ Ring(m, l, q[l])
    BY ListsTypes DEF Holds
<1>e. N = Len(q[h]) /\ L = Len(q[l])
    OBVIOUS
<1>2. /\ N \in Nat /\ L \in Nat /\ L > 0 /\ k \in 0 .. N /\ Len(s) = N + L
    BY <1>1 DEF Wedged
<1>a. \A i \in 1 .. N + L :
          s[i] = IF i <= k THEN q[h][i] ELSE IF i <= k + L THEN q[l][i - k] ELSE q[h][i - L]
    BY <1>2 DEF Wedged
<1>b. /\ \A i : NodeAt(h, q[h], i) = IF i \in 1 .. N THEN q[h][i] ELSE h
      /\ \A i : NodeAt(l, q[l], i) = IF i \in 1 .. L THEN q[l][i] ELSE l
      /\ \A i : NodeAt(h, s, i) = IF i \in 1 .. N + L THEN s[i] ELSE h
    BY <1>2 DEF NodeAt
<1> HIDE DEF N, L
<1>3. /\ \A i \in 0 .. N : NodeAt(h, q[h], i) # d
      /\ \A i \in 1 .. N + 1 : NodeAt(h, q[h], i) # c
      /\ \A i \in 0 .. N : i # k => NodeAt(h, q[h], i) # a
      /\ \A i \in 1 .. N + 1 : i # k + 1 => NodeAt(h, q[h], i) # b
      /\ \A i \in 1 .. L : NodeAt(l, q[l], i) # a /\ NodeAt(l, q[l], i) # b
      /\ \A i \in 1 .. L : /\ i # L => NodeAt(l, q[l], i) # d
                           /\ i # 1 => NodeAt(l, q[l], i) # c
    <2>1. /\ k \in 0 .. N /\ k + 1 \in 1 .. N + 1
          /\ 1 \in 0 .. L /\ 1 \in 1 .. L + 1 /\ L \in 0 .. L /\ L \in 1 .. L + 1
          /\ \A i \in 1 .. L : i \in 0 .. L /\ i \in 1 .. L + 1
        BY <1>2
    <2>2. \A i \in 0 .. N : NodeAt(h, q[h], i) # d
        BY <1>1, <1>e, <2>1, Distinct
    <2>3. \A i \in 1 .. N + 1 : NodeAt(h, q[h], i) # c
        BY <1>1, <1>e, <2>1, Distinct
    <2>4. \A i \in 0 .. N : i # k => NodeAt(h, q[h], i) # a
        BY <1>1, <1>e, <2>1, Distinct
    <2>5. \A i \in 1 .. N + 1 : i # k + 1 => NodeAt(h, q[h], i) # b
        BY <1>1, <1>e, <2>1, Distinct
    <2>6. \A i \in 1 .. L : NodeAt(l, q[l], i) # a /\ NodeAt(l, q[l], i) # b
        BY <1>1, <1>e, <2>1, Distinct
    <2>7. \A i \in 1 .. L : i # L => NodeAt(l, q[l], i) # d
        BY <1>1, <1>e, <2>1, Distinct
    <2>8. \A i \in 1 .. L : i # 1 => NodeAt(l, q[l], i) # c
        BY <1>1, <1>e, <2>1, Distinct
    <2> QED BY <2>2, <2>3, <2>4, <2>5, <2>6, <2>7, <2>8
<1>4. /\ \A i \in Int : NodeAt(h, q[h], i) \in Nodes /\ NodeAt(l, q[l], i) \in Nodes
      /\ m.next[l] = c /\ m.prev[l] = d
    BY <1>1, <1>e, Neighbours
<1>5. /\ m2 \in Memory
      /\ m2.next[a] = c /\ m2.prev[c] = a
      /\ m2.next[d] = b /\ m2.prev[b] = d
      /\ \A n \in Nodes \ {a, d} : m2.next[n] = m.next[n]
      /\ \A n \in Nodes \ {b, c} : m2.prev[n] = m.prev[n]
    <2>1. a \in Nodes /\ b \in Nodes /\ c \in Nodes /\ d \in Nodes /\ l \in Nodes
        BY <1>1, <1>2, <1>4 DEF Nodes
    <2>2. a # d /\ b # c
        BY <1>2, <1>3
    <2>3. m.next[l] = c /\ m.prev[l] = d /\ m \in Memory
        BY <1>1, <1>4
    <2> HIDE DEF a, b, c, d
    <2> QED BY <2>1, <2>2, <2>3, SpliceSets
<1>6. /\ \A i \in 0 .. k : NodeAt(h, s, i) = NodeAt(h, q[h], i)
      /\ \A i \in k + 1 .. k + L : NodeAt(h, s, i) = NodeAt(l, q[l], i - k)
      /\ \A i \in k + L + 1 .. N + L + 1 : NodeAt(h, s, i) = NodeAt(h, q[h], i - L)
    <2>1. ASSUME NEW i \in 0 .. k
          PROVE  NodeAt(h, s, i) = NodeAt(h, q[h], i)
        <3>1. i <= k /\ (i \in 1 .. N + L <=> i \in 1 .. N)
            BY <1>2
        <3> QED BY <1>a, <1>b, <3>1
    <2>2. ASSUME NEW i \in k + 1 .. k + L
          PROVE  NodeAt(h, s, i) = NodeAt(l, q[l], i - k)
        <3>1. i \in 1 .. N + L /\ ~ i <= k /\ i <= k + L /\ i - k \in 1 .. L
            BY <1>2
        <3> QED BY <1>a, <1>b, <3>1
    <2>3. ASSUME NEW i \in k + L + 1 .. N + L + 1
          PROVE  NodeAt(h, s, i) = NodeAt(h, q[h], i - L)
        <3>1. /\ i \in 1 .. N + L => ~ i <= k /\ ~ i <= k + L
              /\ i \in 1 .. N + L <=> i - L \in 1 .. N
            BY <1>2
        <3> QED BY <1>a, <1>b, <3>1
    <2> QED BY <2>1, <2>2, <2>3
<1>7. Ring(m2, h, s)
    <2> HIDE DEF a, b, c, d, m2
    <2>1. ASSUME NEW i \in 0 .. N, i # k
          PROVE  /\ m2.next[NodeAt(h, q[h], i)] = NodeAt(h, q[h], i + 1)
                 /\ m2.prev[NodeAt(h, q[h], i + 1)] = NodeAt(h, q[h], i)
        <3>1. i + 1 \in 1 .. N + 1 /\ i + 1 # k + 1 /\ i \in Int /\ i + 1 \in Int
            BY <1>2, <2>1
        <3>2. NodeAt(h, q[h], i) \in Nodes \ {a, d} /\ NodeAt(h, q[h], i + 1) \in Nodes \ {b, c}
            BY <1>3, <1>4, <2>1, <3>1
        <3> QED BY <1>1, <1>e, <1>5, <3>2 DEF Ring
    <2>2. ASSUME NEW i \in 1 .. L - 1
          PROVE  /\ m2.next[NodeAt(l, q[l], i)] = NodeAt(l, q[l], i + 1)
                 /\ m2.prev[NodeAt(l, q[l], i + 1)] = NodeAt(l, q[l], i)
        <3>1. /\ i \in 1 .. L /\ i + 1 \in 1 .. L /\ i # L /\ i + 1 # 1
              /\ i \in Int /\ i + 1 \in Int /\ i \in 0 .. L
            BY <1>2, <2>2
        <3>2. NodeAt(l, q[l], i) \in Nodes \ {a, d} /\ NodeAt(l, q[l], i + 1) \in Nodes \ {b, c}
            BY <1>3, <1>4, <3>1
        <3> QED BY <1>1, <1>e, <1>5, <3>1, <3>2 DEF Ring
    <2>3. ASSUME NEW i \in 0 .. N + L
          PROVE  /\ m2.next[NodeAt(h, s, i)] = NodeAt(h, s, i + 1)
                 /\ m2.prev[NodeAt(h, s, i + 1)] = NodeAt(h, s, i)
        <3>1. CASE i < k
            <4>1. i \in 0 .. k /\ i + 1 \in 0 .. k /\ i \in 0 .. N /\ i # k
                BY <1>2, <3>1
            <4> QED BY <1>6, <2>1, <4>1
        <3>2. CASE i = k
            <4>1. i \in 0 .. k /\ i + 1 \in k + 1 .. k + L /\ (i + 1) - k = 1
                BY <1>2, <3>2
            <4> QED BY <1>5, <1>6, <3>2, <4>1 DEF a, c
        <3>3. CASE k < i /\ i < k + L
            <4>1. /\ i \in k + 1 .. k + L /\ i + 1 \in k + 1 .. k + L
                  /\ (i + 1) - k = (i - k) + 1 /\ i - k \in 1 .. L - 1
                BY <1>2, <3>3
            <4> QED BY <1>6, <2>2, <4>1
        <3>4. CASE i = k + L
            <4>1. /\ i \in k + 1 .. k + L /\ i + 1 \in k + L + 1 .. N + L + 1
                  /\ i - k = L /\ (i + 1) - L = k + 1
                BY <1>2, <3>4
            <4> QED BY <1>5, <1>6, <4>1 DEF b, d
        <3>5. CASE i > k + L
            <4>1. /\ i \in k + L + 1 .. N + L + 1 /\ i + 1 \in k + L + 1 .. N + L + 1
                  /\ (i + 1) - L = (i - L) + 1 /\ i - L \in 0 .. N /\ i - L # k
                BY <1>2, <3>5
            <4> QED BY <1>6, <2>1, <4>1
        <3> QED BY <1>2, <3>1, <3>2, <3>3, <3>4, <3>5
    <2> QED BY <1>2, <2>3 DEF Ring
<1>8. ASSUME NEW g \in used, g # h, g # l
      PROVE  Ring(m2, g, q[g])
    <2>1. /\ g \in Heads /\ q[g] \in Seq(Entries) /\ Ring(m, g, q[g]) /\ Len(q[g]) \in Nat
          /\ k \in 0 .. N /\ k + 1 \in 1 .. N + 1 /\ 1 \in 1 .. L + 1 /\ L \in 0 .. L
        BY <1>1, <1>2, ListsTypes DEF Holds
    <2>2. \A i \in 0 .. Len(q[g]) : NodeAt(g, q[g], i) # a
        BY <1>1, <1>e, <1>8, <2>1, Distinct
    <2>3. \A i \in 0 .. Len(q[g]) : NodeAt(g, q[g], i) # d
        BY <1>1, <1>e, <1>8, <2>1, Distinct
    <2>4. \A i \in 1 .. Len(q[g]) + 1 : NodeAt(g, q[g], i) # b
        BY <1>1, <1>e, <1>8, <2>1, Distinct
    <2>5. \A i \in 1 .. Len(q[g]) + 1 : NodeAt(g, q[g], i) # c
        BY <1>1, <1>e, <1>8, <2>1, Distinct
    <2> HIDE DEF a, b, c, d, m2
    <2>6. \A i \in 0 .. Len(q[g]) : /\ NodeAt(g, q[g], i) \in Nodes \ {a, d}
                                    /\ NodeAt(g, q[g], i + 1) \in Nodes \ {b, c}
        <3>1. \A i \in Int : NodeAt(g, q[g], i) \in Nodes
            BY <1>1, <2>1, Neighbours
        <3>2. \A i \in 0 .. Len(q[g]) : i + 1 \in 1 .. Len(q[g]) + 1 /\ i \in Int /\ i + 1 \in Int
            BY <2>1
        <3> QED BY <2>2, <2>3, <2>4, <2>5, <3>1, <3>2
    <2> QED BY <1>5, <2>1, <2>6 DEF Ring
<1>9. Lists(r, used \ {l})
    <2>1. /\ r \in [Heads -> Seq(Entries)]
          /\ r[h] = s /\ r[l] = <<>> /\ \A g \in Heads \ {h, l} : r[g] = q[g]
          /\ \A g \in Heads \ (used \ {l}) : r[g] = <<>>
        BY <1>1 DEF Lists
    <2> HIDE DEF r, a, b, c, d, m2
    <2>2. /\ \A i, j \in 1 .. N : q[h][i] = q[h][j] => i = j
          /\ \A i, j \in 1 .. L : q[l][i] = q[l][j] => i = j
          /\ \A i \in 1 .. N, j \in 1 .. L : q[h][i] # q[l][j]
        <3>1. \A f, g \in Heads : \A i \in 1 .. Len(q[f]), j \in 1 .. Len(q[g]) :
                  q[f][i] = q[g][j] => f = g /\ i = j
            BY <1>1 DEF Lists, OnceEach
        <3> QED BY <1>1, <1>e, <3>1
    <2>3. ASSUME NEW i \in 1 .. N + L, NEW j \in 1 .. N + L, s[i] = s[j]
          PROVE  i = j
        <3>1. \A x \in 1 .. N + L :
                  \/ x \in 1 .. N /\ s[x] = q[h][x] /\ x <= k
                  \/ x - k \in 1 .. L /\ s[x] = q[l][x - k]
                  \/ x - L \in 1 .. N /\ s[x] = q[h][x - L] /\ x - L > k
            <4>1. SUFFICES ASSUME NEW x \in 1 .. N + L
                  PROVE \/ x \in 1 .. N /\ s[x] = q[h][x] /\ x <= k
                        \/ x - k \in 1 .. L /\ s[x] = q[l][x - k]
                        \/ x - L \in 1 .. N /\ s[x] = q[h][x - L] /\ x - L > k
                OBVIOUS
            <4>2. \/ x \in 1 .. N /\ x <= k
                  \/ x - k \in 1 .. L /\ ~ x <= k /\ x <= k + L
                  \/ x - L \in 1 .. N /\ ~ x <= k /\ ~ x <= k + L /\ x - L > k
                BY <1>2
            <4> QED BY <1>a, <4>2
        <3>2. i \in Int /\ j \in Int /\ k \in Int /\ L \in Int
            BY <1>2
        <3>a. /\ \/ i \in 1 .. N /\ s[i] = q[h][i] /\ i <= k
                 \/ i - k \in 1 .. L /\ s[i] = q[l][i - k]
                 \/ i - L \in 1 .. N /\ s[i] = q[h][i - L] /\ i - L > k
              /\ \/ j \in 1 .. N /\ s[j] = q[h][j] /\ j <= k
                 \/ j - k \in 1 .. L /\ s[j] = q[l][j - k]
                 \/ j - L \in 1 .. N /\ s[j] = q[h][j - L] /\ j - L > k
            BY <3>1
        <3>3. CASE i \in 1 .. N /\ s[i] = q[h][i] /\ i <= k
            <4>1. CASE j \in 1 .. N /\ s[j] = q[h][j] /\ j <= k
                BY <2>2, <2>3, <3>3, <4>1
            <4>2. CASE j - k \in 1 .. L /\ s[j] = q[l][j - k]
                BY <2>2, <2>3, <3>3, <4>2
            <4>3. CASE j - L \in 1 .. N /\ s[j] = q[h][j - L] /\ j - L > k
                <5>1. i = j - L
                    BY <2>2, <2>3, <3>3, <4>3
                <5> QED BY <3>2, <3>3, <4>3, <5>1
            <4> QED BY <3>a, <4>1, <4>2, <4>3
        <3>4. CASE i - k \in 1 .. L /\ s[i] = q[l][i - k]
            <4>1. CASE j \in 1 .. N /\ s[j] = q[h][j] /\ j <= k
                BY <2>2, <2>3, <3>4, <4>1
            <4>2. CASE j - k \in 1 .. L /\ s[j] = q[l][j - k]
                <5>1. i - k = j - k
                    BY <2>2, <2>3, <3>4, <4>2
                <5> QED BY <3>2, <5>1
            <4>3. CASE j - L \in 1 .. N /\ s[j] = q[h][j - L] /\ j - L > k
                BY <2>2, <2>3, <3>4, <4>3
            <4> QED BY <3>a, <4>1, <4>2, <4>3
        <3>5. CASE i - L \in 1 .. N /\ s[i] = q[h][i - L] /\ i - L > k
            <4>1. CASE j \in 1 .. N /\ s[j] = q[h][j] /\ j <= k
                <5>1. i - L = j
                    BY <2>2, <2>3, <3>5, <4>1
                <5> QED BY <3>2, <3>5, <4>1, <5>1
            <4>2. CASE j - k \in 1 .. L /\ s[j] = q[l][j - k]
                BY <2>2, <2>3, <3>5, <4>2
            <4>3. CASE j - L \in 1 .. N /\ s[j] = q[h][j - L] /\ j - L > k
                <5>1. i - L = j - L
                    BY <2>2, <2>3, <3>5, <4>3
                <5> QED BY <3>2, <5>1
            <4> QED BY <3>a, <4>1, <4>2, <4>3
        <3> QED BY <3>a, <3>3, <3>4, <3>5
    <2>4. OnceAmong(r, {h, l})
        BY <1>2, <2>1, <2>3 DEF OnceAmong
    <2>5. ASSUME NEW i \in 1 .. N + L
          PROVE  \E f \in {h, l} : \E j \in 1 .. Len(q[f]) : s[i] = q[f][j]
        <3>1. CASE i <= k
            <4>1. i \in 1 .. N /\ s[i] = q[h][i]
                BY <1>2, <1>a, <3>1
            <4> QED BY <1>e, <4>1
        <3>2. CASE k < i /\ i <= k + L
            <4>1. i - k \in 1 .. L /\ s[i] = q[l][i - k]
                BY <1>2, <1>a, <3>2
            <4> QED BY <1>e, <4>1
        <3>3. CASE k + L < i
            <4>1. i - L \in 1 .. N /\ s[i] = q[h][i - L]
                BY <1>2, <1>a, <3>3
            <4> QED BY <1>e, <4>1
        <3> QED BY <1>2, <3>1, <3>2, <3>3
    <2>6. \A g \in {h, l} : \A i \in 1 .. Len(r[g]) :
              \E f \in {h, l} : \E j \in 1 .. Len(q[f]) : r[g][i] = q[f][j]
        <3>1. Len(r[h]) = N + L /\ r[h] = s /\ \A i \in 1 .. Len(r[l]) : FALSE
            BY <1>2, <2>1
        <3>2. SUFFICES ASSUME NEW g \in {h, l}, NEW i \in 1 .. Len(r[g])
                       PROVE  \E f \in {h, l} : \E j \in 1 .. Len(q[f]) : r[g][i] = q[f][j]
            OBVIOUS
        <3>3. g = h
            BY <3>1, <3>2
        <3> QED BY <2>5, <3>1, <3>3
    <2>7. {h, l} \in SUBSET Heads
        BY <1>1
    <2>8. OnceEach(r)
        BY <1>1, <2>1, <2>4, <2>6, <2>7, Regrouped, ZenonT(30)
    <2> QED BY <1>1, <2>1, <2>8 DEF Lists
<1>10. \A g \in used \ {l} : Ring(m2, g, r[g])
    <2>1. r[h] = s /\ \A g \in Heads \ {h, l} : r[g] = q[g]
        BY <1>1 DEF Lists
    <2> HIDE DEF r, m2
    <2> QED BY <1>1, <1>7, <1>8, <2>1, ListsTypes
<1> QED BY <1>5, <1>9, <1>10 DEF Holds

\* m2 is m with the nodes x to e cut out from between h and y, in a ring of l.
CutOut(m, m2, l, h, x, e, y) ==
    /\ m2.next[l] = x /\ m2.prev[x] = l
    /\ m2.next[e] = l /\ m2.prev[l] = e
    /\ m2.next[h] = y /\ m2.prev[y] = h
    /\ \A n \in Nodes \ {l, e, h} : m2.next[n] = m.next[n]
    /\ \A n \in Nodes \ {l, x, y} : m2.prev[n] = m.prev[n]

\* The assignments of __list_cut_position.
LEMMA CutSets ==
    ASSUME NEW m \in Memory, NEW l \in Nodes, NEW h \in Nodes, NEW e \in Nodes,
           NEW x \in Nodes, NEW y \in Nodes, m.next[h] = x, m.next[e] = y,
           l # h, l # e, l # x, l # y, h # e, x # y
    PROVE  Cut(m, l, h, e) \in Memory /\ CutOut(m, Cut(m, l, h, e), l, h, x, e, y)
<1> DEFINE m1 == SetNext(m, l, x)
           m2 == SetPrev(m1, x, l)
           m3 == SetPrev(m2, l, e)
           m4 == SetNext(m3, e, l)
           m5 == SetNext(m4, h, y)
           m6 == SetPrev(m5, y, h)
<1>0. {l, h, e, x, y} \subseteq Nodes
    OBVIOUS
<1>1. m1 \in Memory /\ m1.next = [m.next EXCEPT ![l] = x] /\ m1.prev = m.prev
    BY <1>0, NextSet
<1>2. m1.next[l] = x
    BY <1>1, MemoryTypes
<1> HIDE DEF m1
<1>3. m2 \in Memory /\ m2.prev = [m1.prev EXCEPT ![x] = l] /\ m2.next = m1.next
    BY <1>1, PrevSet
<1> HIDE DEF m2
<1>4. m3 \in Memory /\ m3.prev = [m2.prev EXCEPT ![l] = e] /\ m3.next = m2.next
    <2>1. m2 \in Memory
        BY <1>3
    <2> QED BY <2>1, PrevSet
<1> HIDE DEF m3
<1>5. m4 \in Memory /\ m4.next = [m3.next EXCEPT ![e] = l] /\ m4.prev = m3.prev
    BY <1>4, NextSet
<1> HIDE DEF m4
<1>6. m5 \in Memory /\ m5.next = [m4.next EXCEPT ![h] = y] /\ m5.prev = m4.prev
    BY <1>5, NextSet
<1> HIDE DEF m5
<1>7. m6 \in Memory /\ m6.prev = [m5.prev EXCEPT ![y] = h] /\ m6.next = m5.next
    BY <1>6, PrevSet
<1>8. Cut(m, l, h, e) = m6
    BY <1>2 DEF Cut, m1, m2, m3, m4, m5
<1> HIDE DEF m6
<1>9. /\ m.next \in [Nodes -> Nodes \cup {NULL, LIST_POISON1}]
      /\ m.prev \in [Nodes -> Nodes \cup {NULL, LIST_POISON2}]
    BY MemoryTypes
<1>10. /\ m6.next = [[[m.next EXCEPT ![l] = x] EXCEPT ![e] = l] EXCEPT ![h] = y]
       /\ m6.prev = [[[m.prev EXCEPT ![x] = l] EXCEPT ![l] = e] EXCEPT ![y] = h]
    BY <1>1, <1>3, <1>4, <1>5, <1>6, <1>7
<1>11. CutOut(m, m6, l, h, x, e, y)
    BY <1>9, <1>10 DEF CutOut
<1> QED BY <1>7, <1>8, <1>11

\* The assignments of list_cut_before come to the same.
LEMMA CutBeforeSets ==
    ASSUME NEW m \in Memory, NEW l \in Nodes, NEW h \in Nodes, NEW e \in Nodes,
           NEW x \in Nodes, NEW y \in Nodes, m.next[h] = x, m.prev[y] = e,
           l # h, l # e, l # x, l # y, h # e, x # y
    PROVE  /\ list_cut_before(m, l, h, y) \in Memory
           /\ CutOut(m, list_cut_before(m, l, h, y), l, h, x, e, y)
<1> DEFINE m1 == SetNext(m, l, x)
           m2 == SetPrev(m1, x, l)
           m3 == SetPrev(m2, l, e)
           m4 == SetNext(m3, e, l)
           m5 == SetNext(m4, h, y)
           m6 == SetPrev(m5, y, h)
<1>0. {l, h, e, x, y} \subseteq Nodes
    OBVIOUS
<1>1. m1 \in Memory /\ m1.next = [m.next EXCEPT ![l] = x] /\ m1.prev = m.prev
    BY <1>0, NextSet
<1>2. m1.next[l] = x
    BY <1>1, MemoryTypes
<1> HIDE DEF m1
<1>3. m2 \in Memory /\ m2.prev = [m1.prev EXCEPT ![x] = l] /\ m2.next = m1.next
    BY <1>1, PrevSet
<1>a. m2.prev[y] = e
    BY <1>1, <1>3, MemoryTypes
<1> HIDE DEF m2
<1>4. m3 \in Memory /\ m3.prev = [m2.prev EXCEPT ![l] = e] /\ m3.next = m2.next
    BY <1>3, PrevSet
<1>b. m3.prev[l] = e
    BY <1>3, <1>4, MemoryTypes
<1> HIDE DEF m3
<1>5. m4 \in Memory /\ m4.next = [m3.next EXCEPT ![e] = l] /\ m4.prev = m3.prev
    BY <1>4, NextSet
<1> HIDE DEF m4
<1>6. m5 \in Memory /\ m5.next = [m4.next EXCEPT ![h] = y] /\ m5.prev = m4.prev
    <2>1. m4 \in Memory
        BY <1>5
    <2> QED BY <2>1, NextSet
<1> HIDE DEF m5
<1>7. m6 \in Memory /\ m6.prev = [m5.prev EXCEPT ![y] = h] /\ m6.next = m5.next
    BY <1>6, PrevSet
<1>8. list_cut_before(m, l, h, y) = m6
    BY <1>2, <1>a, <1>b DEF list_cut_before, m1, m2, m3, m4, m5
<1> HIDE DEF m6
<1>9. /\ m.next \in [Nodes -> Nodes \cup {NULL, LIST_POISON1}]
      /\ m.prev \in [Nodes -> Nodes \cup {NULL, LIST_POISON2}]
    BY MemoryTypes
<1>10. /\ m6.next = [[[m.next EXCEPT ![l] = x] EXCEPT ![e] = l] EXCEPT ![h] = y]
       /\ m6.prev = [[[m.prev EXCEPT ![x] = l] EXCEPT ![l] = e] EXCEPT ![y] = h]
    BY <1>1, <1>3, <1>4, <1>5, <1>6, <1>7
<1>11. CutOut(m, m6, l, h, x, e, y)
    BY <1>9, <1>10 DEF CutOut
<1> QED BY <1>7, <1>8, <1>11

\* x is t followed by u, and t has k entries.
Halves(x, k, t, u) ==
    /\ Len(t) = k /\ Len(u) = Len(x) - k
    /\ \A i \in 1 .. k : t[i] = x[i]
    /\ \A i \in 1 .. Len(x) - k : u[i] = x[i + k]

\* Cutting hands the first k entries of h to l.
LEMMA HandedOver ==
    ASSUME NEW m, NEW q, NEW used, Holds(m, q, used),
           NEW h \in used, NEW l \in Heads, l # h,
           NEW k \in 1 .. Len(q[h]),
           NEW t \in Seq(Entries), NEW u \in Seq(Entries), Halves(q[h], k, t, u),
           NEW m2 \in Memory,
           CutOut(m, m2, l, h, NodeAt(h, q[h], 1), NodeAt(h, q[h], k), NodeAt(h, q[h], k + 1))
    PROVE  Holds(m2, [q EXCEPT ![l] = t, ![h] = u], used \cup {l})
<1> DEFINE N == Len(q[h])
           x == NodeAt(h, q[h], 1)
           e == NodeAt(h, q[h], k)
           y == NodeAt(h, q[h], k + 1)
           r == [q EXCEPT ![l] = t, ![h] = u]
<1>1. /\ Lists(q, used) /\ m \in Memory /\ h \in Heads
      /\ q[h] \in Seq(Entries) /\ Ring(m, h, q[h])
    BY ListsTypes DEF Holds
<1>e. N = Len(q[h])
    OBVIOUS
<1>2. N \in Nat /\ k \in 1 .. N /\ Len(t) = k /\ Len(u) = N - k
    BY <1>1 DEF Halves
<1>a. /\ \A i \in 1 .. k : t[i] = q[h][i]
      /\ \A i \in 1 .. N - k : u[i] = q[h][i + k]
    BY DEF Halves
<1>b. /\ \A i : NodeAt(h, q[h], i) = IF i \in 1 .. N THEN q[h][i] ELSE h
      /\ \A i : NodeAt(l, t, i) = IF i \in 1 .. k THEN t[i] ELSE l
      /\ \A i : NodeAt(h, u, i) = IF i \in 1 .. N - k THEN u[i] ELSE h
    BY <1>2 DEF NodeAt
<1> HIDE DEF N
<1>3. /\ \A i \in 1 .. k : NodeAt(l, t, i) = NodeAt(h, q[h], i)
      /\ NodeAt(l, t, 0) = l /\ NodeAt(l, t, k + 1) = l
      /\ \A i \in 1 .. N - k + 1 : NodeAt(h, u, i) = NodeAt(h, q[h], i + k)
      /\ NodeAt(h, u, 0) = h
    <2>1. ASSUME NEW i \in 1 .. k
          PROVE  NodeAt(l, t, i) = NodeAt(h, q[h], i)
        <3>1. i \in 1 .. N
            BY <1>2
        <3> QED BY <1>a, <1>b, <3>1
    <2>2. NodeAt(l, t, 0) = l /\ NodeAt(l, t, k + 1) = l /\ NodeAt(h, u, 0) = h
        <3>1. 0 \notin 1 .. k /\ k + 1 \notin 1 .. k /\ 0 \notin 1 .. N - k
            BY <1>2
        <3> QED BY <1>b, <3>1
    <2>3. ASSUME NEW i \in 1 .. N - k + 1
          PROVE  NodeAt(h, u, i) = NodeAt(h, q[h], i + k)
        <3>1. i \in 1 .. N - k <=> i + k \in 1 .. N
            BY <1>2
        <3> QED BY <1>a, <1>b, <3>1
    <2> QED BY <2>1, <2>2, <2>3
<1>4. \A g \in used : /\ g # l => l \notin {NodeAt(g, q[g], i) : i \in Int}
                      /\ \A i \in Int : NodeAt(g, q[g], i) \in Nodes
    BY <1>1, ListsTypes, NodesAssumption DEF NodeAt, Nodes
<1>5. /\ \A i \in 0 .. N : /\ i # k => NodeAt(h, q[h], i) # e
                           /\ i # 0 => NodeAt(h, q[h], i) # h
                           /\ NodeAt(h, q[h], i) \in Nodes \ {l}
      /\ \A i \in 1 .. N + 1 : /\ i # 1 => NodeAt(h, q[h], i) # x
                               /\ i # k + 1 => NodeAt(h, q[h], i) # y
                               /\ NodeAt(h, q[h], i) \in Nodes \ {l}
    <2>1. /\ 0 \in 0 .. N /\ k \in 0 .. N /\ 1 \in 1 .. N + 1 /\ k + 1 \in 1 .. N + 1
          /\ \A i \in 0 .. N : i \in Int
          /\ \A i \in 1 .. N + 1 : i \in Int
          /\ 0 \notin 1 .. N
        BY <1>2
    <2>2. \A i \in 0 .. N : i # k => NodeAt(h, q[h], i) # e
        BY <1>1, <1>e, <2>1, Distinct
    <2>3. NodeAt(h, q[h], 0) = h
        BY <1>b, <2>1
    <2>4. \A i \in 0 .. N : i # 0 => NodeAt(h, q[h], i) # h
        BY <1>1, <1>e, <2>1, <2>3, Distinct
    <2>5. \A i \in 1 .. N + 1 : i # 1 => NodeAt(h, q[h], i) # x
        BY <1>1, <1>e, <2>1, Distinct
    <2>6. \A i \in 1 .. N + 1 : i # k + 1 => NodeAt(h, q[h], i) # y
        BY <1>1, <1>e, <2>1, Distinct
    <2>7. \A i \in Int : NodeAt(h, q[h], i) \in Nodes \ {l}
        BY <1>4
    <2> QED BY <2>1, <2>2, <2>4, <2>5, <2>6, <2>7
<1>6. /\ m2.next[l] = x /\ m2.prev[x] = l
      /\ m2.next[e] = l /\ m2.prev[l] = e
      /\ m2.next[h] = y /\ m2.prev[y] = h
      /\ \A n \in Nodes \ {l, e, h} : m2.next[n] = m.next[n]
      /\ \A n \in Nodes \ {l, x, y} : m2.prev[n] = m.prev[n]
    BY DEF CutOut
<1>7. ASSUME NEW i \in 1 .. N, i # k
      PROVE  /\ m2.next[NodeAt(h, q[h], i)] = NodeAt(h, q[h], i + 1)
             /\ m2.prev[NodeAt(h, q[h], i + 1)] = NodeAt(h, q[h], i)
    <2>1. i \in 0 .. N /\ i # 0 /\ i + 1 \in 1 .. N + 1 /\ i + 1 # 1 /\ i + 1 # k + 1
        BY <1>2, <1>7
    <2>2. NodeAt(h, q[h], i) \in Nodes \ {l, e, h} /\ NodeAt(h, q[h], i + 1) \in Nodes \ {l, x, y}
        BY <1>5, <1>7, <2>1
    <2> QED BY <1>1, <1>e, <1>6, <2>1, <2>2 DEF Ring
<1>8. Ring(m2, l, t)
    <2>1. ASSUME NEW i \in 0 .. k
          PROVE  m2.next[NodeAt(l, t, i)] = NodeAt(l, t, i + 1) /\ m2.prev[NodeAt(l, t, i + 1)] = NodeAt(l, t, i)
        <3>1. CASE i = 0
            <4>1. 1 \in 1 .. k /\ i + 1 = 1
                BY <1>2, <3>1
            <4> QED BY <1>3, <1>6, <3>1, <4>1
        <3>2. CASE i # 0 /\ i # k
            <4>1. i \in 1 .. k /\ i + 1 \in 1 .. k /\ i \in 1 .. N
                BY <1>2, <3>2
            <4> QED BY <1>3, <1>7, <3>2, <4>1
        <3>3. CASE i = k
            <4>1. k \in 1 .. k
                BY <1>2
            <4> QED BY <1>3, <1>6, <3>3, <4>1
        <3> QED BY <3>1, <3>2, <3>3
    <2> QED BY <1>2, <2>1 DEF Ring
<1>9. Ring(m2, h, u)
    <2>1. ASSUME NEW i \in 0 .. N - k
          PROVE  m2.next[NodeAt(h, u, i)] = NodeAt(h, u, i + 1) /\ m2.prev[NodeAt(h, u, i + 1)] = NodeAt(h, u, i)
        <3>1. CASE i = 0
            <4>1. 1 \in 1 .. N - k + 1 /\ i + 1 = 1 /\ 1 + k = k + 1
                BY <1>2, <3>1
            <4> QED BY <1>3, <1>6, <3>1, <4>1
        <3>2. CASE i # 0
            <4>1. /\ i \in 1 .. N - k + 1 /\ i + 1 \in 1 .. N - k + 1 /\ i + k \in 1 .. N
                  /\ i + k # k /\ (i + 1) + k = (i + k) + 1
                BY <1>2, <3>2
            <4> QED BY <1>3, <1>7, <4>1
        <3> QED BY <3>1, <3>2
    <2> QED BY <1>2, <2>1 DEF Ring
<1>10. ASSUME NEW g \in used, g # h, g # l
       PROVE  Ring(m2, g, q[g])
    <2>1. /\ g \in Heads /\ q[g] \in Seq(Entries) /\ Ring(m, g, q[g]) /\ Len(q[g]) \in Nat
          /\ 0 \in 0 .. N /\ k \in 0 .. N /\ k + 1 \in 1 .. N + 1 /\ 1 \in 1 .. N + 1
          /\ 0 \notin 1 .. N
        BY <1>1, <1>2, ListsTypes DEF Holds
    <2>2. \A i \in 0 .. Len(q[g]) : NodeAt(g, q[g], i) # e
        BY <1>1, <1>e, <1>10, <2>1, Distinct
    <2>3. NodeAt(h, q[h], 0) = h
        BY <1>b, <2>1
    <2>4. \A i \in 0 .. Len(q[g]) : NodeAt(g, q[g], i) # h
        BY <1>1, <1>e, <1>10, <2>1, <2>3, Distinct
    <2>5. \A i \in 1 .. Len(q[g]) + 1 : NodeAt(g, q[g], i) # x
        BY <1>1, <1>e, <1>10, <2>1, Distinct
    <2>6. \A i \in 1 .. Len(q[g]) + 1 : NodeAt(g, q[g], i) # y
        BY <1>1, <1>e, <1>10, <2>1, Distinct
    <2>7. \A i \in Int : NodeAt(g, q[g], i) \in Nodes \ {l}
        BY <1>4, <1>10
    <2>8. \A i \in 0 .. Len(q[g]) : i + 1 \in 1 .. Len(q[g]) + 1 /\ i \in Int /\ i + 1 \in Int
        BY <2>1
    <2> HIDE DEF x, e, y
    <2>9. \A i \in 0 .. Len(q[g]) : /\ NodeAt(g, q[g], i) \in Nodes \ {l, e, h}
                                    /\ NodeAt(g, q[g], i + 1) \in Nodes \ {l, x, y}
        BY <2>2, <2>4, <2>5, <2>6, <2>7, <2>8
    <2> QED BY <1>6, <2>1, <2>9 DEF Ring
<1>11. Lists(r, used \cup {l})
    <2>1. /\ r \in [Heads -> Seq(Entries)] /\ r[h] = u /\ r[l] = t
          /\ \A g \in Heads \ {h, l} : r[g] = q[g]
        BY <1>1 DEF Lists
    <2>2. \A g \in Heads \ (used \cup {l}) : r[g] = <<>>
        BY <1>1, <2>1 DEF Lists
    <2> HIDE DEF r, x, e, y
    <2>3. \A i, j \in 1 .. N : q[h][i] = q[h][j] => i = j
        BY <1>1, <1>e DEF Lists, OnceEach
    <2>4. \A i \in 1 .. N - k : i + k \in 1 .. N /\ i + k > k
        BY <1>2
    <2>5. \A i \in 1 .. k : i \in 1 .. N /\ i <= k
        BY <1>2
    <2>6. \A i, j \in 1 .. k : t[i] = t[j] => i = j
        BY <1>a, <2>3, <2>5
    <2>7. \A i, j \in 1 .. N - k : u[i] = u[j] => i = j
        <3>1. \A i, j \in 1 .. N - k : i + k = j + k => i = j
            BY <1>2
        <3> QED BY <1>a, <2>3, <2>4, <3>1
    <2>8. ASSUME NEW i \in 1 .. k, NEW j \in 1 .. N - k
          PROVE  t[i] # u[j]
        <3>1. i # j + k /\ i \in 1 .. N /\ j + k \in 1 .. N
            BY <1>2
        <3> QED BY <1>a, <2>3, <3>1
    <2>9. OnceAmong(r, {h, l})
        <3>1. SUFFICES ASSUME NEW f \in {h, l}, NEW g \in {h, l},
                              NEW i \in 1 .. Len(r[f]), NEW j \in 1 .. Len(r[g]),
                              r[f][i] = r[g][j]
                       PROVE  f = g /\ i = j
            BY DEF OnceAmong
        <3>2. Len(r[h]) = N - k /\ Len(r[l]) = k
            BY <1>2, <2>1
        <3> QED BY <2>1, <2>6, <2>7, <2>8, <3>1, <3>2
    <2>10. \A g \in {h, l} : \A i \in 1 .. Len(r[g]) :
              \E f \in {h, l} : \E j \in 1 .. Len(q[f]) : r[g][i] = q[f][j]
        <3>1. Len(r[h]) = N - k /\ Len(r[l]) = k
            BY <1>2, <2>1
        <3>2. SUFFICES ASSUME NEW g \in {h, l}, NEW i \in 1 .. Len(r[g])
                       PROVE  \E j \in 1 .. N : r[g][i] = q[h][j]
            BY <1>e
        <3>3. CASE g = h
            <4>1. i + k \in 1 .. N /\ r[g][i] = q[h][i + k]
                BY <1>a, <2>1, <2>4, <3>1, <3>2, <3>3
            <4> QED BY <4>1
        <3>4. CASE g = l
            <4>1. i \in 1 .. N /\ r[g][i] = q[h][i]
                BY <1>a, <2>1, <2>5, <3>1, <3>2, <3>4
            <4> QED BY <4>1
        <3> QED BY <3>2, <3>3, <3>4
    <2>11. {h, l} \in SUBSET Heads
        BY <1>1
    <2>12. OnceEach(r)
        <3>1. /\ Lists(q, used) /\ r \in [Heads -> Seq(Entries)]
              /\ \A g \in Heads \ {h, l} : r[g] = q[g]
            BY <1>1, <2>1
        <3>2. PICK some \in SUBSET Heads : some = {h, l}
            BY <2>11
        <3>3. /\ \A g \in Heads \ some : r[g] = q[g]
              /\ OnceAmong(r, some)
            BY <2>9, <3>1, <3>2
        <3>4. \A g \in some : \A i \in 1 .. Len(r[g]) :
                  \E f \in some : \E j \in 1 .. Len(q[f]) : r[g][i] = q[f][j]
            BY <2>10, <3>2
        <3>5. Lists(q, used) /\ r \in [Heads -> Seq(Entries)]
            BY <3>1
        <3> QED BY <3>3, <3>4, <3>5, Regrouped
    <2> QED BY <1>1, <2>1, <2>2, <2>12 DEF Lists
<1>12. \A g \in used \cup {l} : Ring(m2, g, r[g])
    <2>1. r[h] = u /\ r[l] = t /\ \A g \in Heads \ {h, l} : r[g] = q[g]
        BY <1>1 DEF Lists
    <2> HIDE DEF r
    <2> QED BY <1>1, <1>8, <1>9, <1>10, <2>1, ListsTypes
<1> QED BY <1>11, <1>12 DEF Holds

\* m2 is m with p and x, z and f, e and h made neighbours, in this order.
Bulked(m, m2, h, f, e, p, x, z) ==
    /\ m2.next = [[[m.next EXCEPT ![p] = x] EXCEPT ![z] = f] EXCEPT ![e] = h]
    /\ m2.prev = [[[m.prev EXCEPT ![x] = p] EXCEPT ![f] = z] EXCEPT ![h] = e]

\* The assignments of list_bulk_move_tail.  The head may follow last already:
\* its prev is then written before it is read.
LEMMA BulkSets ==
    ASSUME NEW m \in Memory, NEW h \in Nodes, NEW f \in Nodes, NEW e \in Nodes,
           NEW p \in Nodes, NEW x \in Nodes, NEW z \in Nodes,
           m.prev[f] = p, m.next[e] = x,
           x = h => z = p, x # h => z = m.prev[h],
           p # e, f # x, f # h
    PROVE  /\ list_bulk_move_tail(m, h, f, e) \in Memory
           /\ Bulked(m, list_bulk_move_tail(m, h, f, e), h, f, e, p, x, z)
<1> DEFINE m1 == SetNext(m, p, x)
           m2 == SetPrev(m1, x, p)
           m3 == SetNext(m2, z, f)
           m4 == SetPrev(m3, f, z)
           m5 == SetNext(m4, e, h)
           m6 == SetPrev(m5, h, e)
<1>1. m1 \in Memory /\ m1.next = [m.next EXCEPT ![p] = x] /\ m1.prev = m.prev
    BY NextSet
<1>2. m1.next[e] = x /\ m1.prev[f] = p
    BY <1>1, MemoryTypes
<1> HIDE DEF m1
<1>3. m2 \in Memory /\ m2.prev = [m1.prev EXCEPT ![x] = p] /\ m2.next = m1.next
    <2>1. m1 \in Memory
        BY <1>1
    <2> QED BY <2>1, PrevSet
<1>4. m2.prev[h] = z
    BY <1>1, <1>3, MemoryTypes
<1> HIDE DEF m2
<1>5. m3 \in Memory /\ m3.next = [m2.next EXCEPT ![z] = f] /\ m3.prev = m2.prev
    <2>1. m2 \in Memory
        BY <1>3
    <2> QED BY <2>1, NextSet
<1>6. m3.prev[h] = z
    BY <1>4, <1>5
<1> HIDE DEF m3
<1>7. m4 \in Memory /\ m4.prev = [m3.prev EXCEPT ![f] = z] /\ m4.next = m3.next
    <2>1. m3 \in Memory
        BY <1>5
    <2> QED BY <2>1, PrevSet
<1> HIDE DEF m4
<1>8. m5 \in Memory /\ m5.next = [m4.next EXCEPT ![e] = h] /\ m5.prev = m4.prev
    <2>1. m4 \in Memory
        BY <1>7
    <2> QED BY <2>1, NextSet
<1> HIDE DEF m5
<1>9. m6 \in Memory /\ m6.prev = [m5.prev EXCEPT ![h] = e] /\ m6.next = m5.next
    <2>1. m5 \in Memory
        BY <1>8
    <2> QED BY <2>1, PrevSet
<1>10. list_bulk_move_tail(m, h, f, e) = m6
    BY <1>2, <1>4, <1>6 DEF list_bulk_move_tail, m1, m2, m3, m4, m5
<1> HIDE DEF m6
<1>11. Bulked(m, m6, h, f, e, p, x, z)
    BY <1>1, <1>3, <1>5, <1>7, <1>8, <1>9 DEF Bulked
<1> QED BY <1>9, <1>10, <1>11

\* s is x with its entries i to j behind the others.
Rotated(s, x, i, j) ==
    LET N == Len(x)
        w == j - i + 1
    IN  /\ Len(s) = N
        /\ \A v \in 1 .. N : s[v] = IF v < i THEN x[v]
                                    ELSE IF v <= N - w THEN x[v + w] ELSE x[v - (N - j)]

\* list_bulk_move_tail moves the entries i to j of h behind the others.
LEMMA BulkMoved ==
    ASSUME NEW m, NEW q, NEW used, Holds(m, q, used),
           NEW h \in used, NEW i \in 1 .. Len(q[h]), NEW j \in 1 .. Len(q[h]), i <= j,
           NEW s \in Seq(Entries), Rotated(s, q[h], i, j)
    PROVE  Holds(list_bulk_move_tail(m, h, q[h][i], q[h][j]), [q EXCEPT ![h] = s], used)
<1> DEFINE N == Len(q[h])
           w == j - i + 1
           p == NodeAt(h, q[h], i - 1)
           x == NodeAt(h, q[h], j + 1)
           f == NodeAt(h, q[h], i)
           e == NodeAt(h, q[h], j)
           t == NodeAt(h, q[h], N)
           z == IF x = h THEN p ELSE t
           m2 == list_bulk_move_tail(m, h, f, e)
<1>1. /\ Lists(q, used) /\ m \in Memory /\ h \in Heads
      /\ q[h] \in Seq(Entries) /\ Ring(m, h, q[h]) /\ h \in Nodes
    BY ListsTypes DEF Holds
<1>e. N = Len(q[h])
    OBVIOUS
<1>2. /\ N \in Nat /\ i \in 1 .. N /\ j \in 1 .. N /\ i <= j /\ Len(s) = N
      /\ w \in 1 .. N /\ w = j - i + 1
    <2>1. N \in Nat /\ i \in 1 .. N /\ j \in 1 .. N /\ i <= j
        BY <1>1
    <2>2. Len(s) = N
        BY DEF Rotated
    <2>3. w \in 1 .. N
        <3> HIDE DEF N
        <3> QED BY <2>1
    <2> QED BY <2>1, <2>2, <2>3
<1>a. \A v \in 1 .. N : s[v] = IF v < i THEN q[h][v]
                               ELSE IF v <= N - w THEN q[h][v + w] ELSE q[h][v - (N - j)]
    BY DEF Rotated
<1>b. /\ \A v : NodeAt(h, q[h], v) = IF v \in 1 .. N THEN q[h][v] ELSE h
      /\ \A v : NodeAt(h, s, v) = IF v \in 1 .. N THEN s[v] ELSE h
    BY <1>2 DEF NodeAt
<1> HIDE DEF N, w
<1>3. /\ i - 1 \in 0 .. N /\ i \in 0 .. N /\ j \in 0 .. N /\ N \in 0 .. N
      /\ j + 1 \in 1 .. N + 1 /\ i \in 1 .. N + 1 /\ N + 1 \in 1 .. N + 1
      /\ i - 1 # j /\ i # j + 1 /\ i # N + 1 /\ 0 \in 0 .. N
      /\ \A v \in 0 .. N : v \in Int /\ v + 1 \in 1 .. N + 1
      /\ \A v \in 1 .. N + 1 : v \in Int
    BY <1>2
<1>4. /\ f = q[h][i] /\ e = q[h][j]
      /\ NodeAt(h, q[h], 0) = h /\ NodeAt(h, q[h], N + 1) = h /\ NodeAt(h, s, 0) = h /\ NodeAt(h, s, N + 1) = h
    <2>1. 0 \notin 1 .. N /\ N + 1 \notin 1 .. N
        BY <1>2
    <2> QED BY <1>2, <1>b, <2>1
<1>5. \A v \in Int : NodeAt(h, q[h], v) \in Nodes
    BY <1>1, Neighbours
<1>6. m.prev[f] = p /\ m.next[e] = x /\ m.prev[h] = t
    <2>1. i \in 1 .. Len(q[h]) /\ j \in 1 .. Len(q[h])
        OBVIOUS
    <2>2. /\ m.prev[q[h][i]] = NodeAt(h, q[h], i - 1) /\ m.next[q[h][j]] = NodeAt(h, q[h], j + 1)
          /\ m.prev[h] = NodeAt(h, q[h], Len(q[h]))
        BY <1>1, <2>1, Neighbours
    <2> QED BY <1>4, <1>e, <2>2
<1>7. /\ \A v \in 0 .. N : /\ v # i - 1 => NodeAt(h, q[h], v) # p
                           /\ v # j => NodeAt(h, q[h], v) # e
                           /\ v # N => NodeAt(h, q[h], v) # t
      /\ \A v \in 1 .. N + 1 : /\ v # j + 1 => NodeAt(h, q[h], v) # x
                               /\ v # i => NodeAt(h, q[h], v) # f
                               /\ v # N + 1 => NodeAt(h, q[h], v) # h
    <2>1. \A v \in 0 .. N : v # i - 1 => NodeAt(h, q[h], v) # p
        BY <1>1, <1>3, <1>e, Distinct
    <2>2. \A v \in 0 .. N : v # j => NodeAt(h, q[h], v) # e
        BY <1>1, <1>3, <1>e, Distinct
    <2>3. \A v \in 0 .. N : v # N => NodeAt(h, q[h], v) # t
        BY <1>1, <1>3, <1>e, Distinct
    <2>4. \A v \in 1 .. N + 1 : v # j + 1 => NodeAt(h, q[h], v) # x
        BY <1>1, <1>3, <1>e, Distinct
    <2>5. \A v \in 1 .. N + 1 : v # i => NodeAt(h, q[h], v) # f
        BY <1>1, <1>3, <1>e, Distinct
    <2>6. \A v \in 1 .. N + 1 : v # N + 1 => NodeAt(h, q[h], v) # h
        BY <1>1, <1>3, <1>4, <1>e, Distinct, SMTT(30)
    <2> QED BY <2>1, <2>2, <2>3, <2>4, <2>5, <2>6
<1>8. /\ m2 \in Memory
      /\ m2.next = [[[m.next EXCEPT ![p] = x] EXCEPT ![z] = f] EXCEPT ![e] = h]
      /\ m2.prev = [[[m.prev EXCEPT ![x] = p] EXCEPT ![f] = z] EXCEPT ![h] = e]
    <2>1. p \in Nodes /\ x \in Nodes /\ f \in Nodes /\ e \in Nodes /\ t \in Nodes /\ z \in Nodes
        BY <1>2, <1>3, <1>5
    <2>2. p # e /\ f # x /\ f # h
        BY <1>3, <1>7
    <2>3. (x = h => z = p) /\ (x # h => z = m.prev[h])
        BY <1>6
    <2>4. m.prev[f] = p /\ m.next[e] = x /\ m \in Memory /\ h \in Nodes
        BY <1>1, <1>6
    <2> HIDE DEF p, x, f, e, t, z
    <2>5. m2 \in Memory /\ Bulked(m, m2, h, f, e, p, x, z)
        BY <2>1, <2>2, <2>3, <2>4, BulkSets, SMTT(30)
    <2> QED BY <2>5 DEF Bulked
<1>9. CASE x = h
    <2>1. j = N
        <3>1. SUFFICES ASSUME j + 1 # N + 1 PROVE FALSE
            BY <1>2
        <3>2. j + 1 \in 1 .. N + 1
            BY <1>3
        <3> QED BY <1>7, <1>9, <3>1, <3>2
    <2>2. z = p /\ e = t
        BY <1>9, <2>1
    <2>3. m.next[p] = f /\ m.prev[x] = e
        <3>1. i - 1 \in 0 .. Len(q[h]) /\ (i - 1) + 1 = i
            BY <1>2, <1>3, <1>e
        <3>2. m.next[p] = f
            BY <1>1, <3>1 DEF Ring
        <3> QED BY <1>6, <1>9, <2>2, <3>2
    <2>4. m2.next = m.next /\ m2.prev = m.prev
        <3>1. p \in Nodes /\ e \in Nodes /\ f \in Nodes /\ p # e /\ f # h
            BY <1>2, <1>3, <1>5, <1>7
        <3> HIDE DEF p, x, f, e, t, z, m2
        <3>2. m2.next = [[[m.next EXCEPT ![p] = h] EXCEPT ![p] = f] EXCEPT ![e] = h]
            BY <1>8, <1>9, <2>2
        <3>3. m2.prev = [[[m.prev EXCEPT ![h] = p] EXCEPT ![f] = p] EXCEPT ![h] = e]
            BY <1>8, <1>9, <2>2
        <3>4. m2.next = m.next
            BY <1>1, <1>6, <1>9, <2>3, <3>1, <3>2, MemoryTypes
        <3>5. m2.prev = m.prev
            BY <1>1, <1>6, <1>9, <2>3, <3>1, <3>3, MemoryTypes
        <3> QED BY <3>4, <3>5
    <2>5. s = q[h]
        <3>1. \A v \in 1 .. N : v <= N - w => v < i
            BY <1>2, <2>1
        <3>2. \A v \in 1 .. N : v - (N - j) = v
            BY <1>2, <2>1
        <3>3. \A v \in 1 .. N : s[v] = q[h][v]
            BY <1>a, <3>1, <3>2
        <3>4. q[h] \in Seq(Entries) /\ Len(s) = Len(q[h]) /\ \A v \in 1 .. Len(s) : s[v] = q[h][v]
            BY <1>1, <1>2, <1>e, <3>3
        <3> QED BY <3>4
    <2>6. [q EXCEPT ![h] = s] = q
        BY <1>1, <2>5 DEF Lists
    <2>7. Holds(m2, q, used)
        <3> HIDE DEF p, x, f, e, t, z, m2
        <3>1. Lists(q, used) /\ \A g \in used : Ring(m, g, q[g])
            BY DEF Holds
        <3>2. \A g \in used : Ring(m2, g, q[g])
            BY <2>4, <3>1 DEF Ring
        <3>3. m2 \in Memory
            BY <1>8
        <3> QED BY <3>1, <3>2, <3>3 DEF Holds
    <2> QED BY <1>4, <2>6, <2>7
<1>10. CASE x # h
    <2>1. j < N
        <3>1. SUFFICES ASSUME j = N PROVE FALSE
            BY <1>2
        <3> QED BY <1>4, <1>10, <3>1
    <2>2. z = t
        BY <1>10
    <2>3. /\ m2.next[p] = x /\ m2.prev[x] = p
          /\ m2.next[t] = f /\ m2.prev[f] = t
          /\ m2.next[e] = h /\ m2.prev[h] = e
          /\ \A n \in Nodes \ {p, t, e} : m2.next[n] = m.next[n]
          /\ \A n \in Nodes \ {x, f, h} : m2.prev[n] = m.prev[n]
        <3>1. p \in Nodes /\ x \in Nodes /\ f \in Nodes /\ e \in Nodes /\ t \in Nodes
            BY <1>2, <1>3, <1>5
        <3>2. p # e /\ f # x /\ f # h /\ x # h
            BY <1>3, <1>7, <1>10
        <3>3. p # t /\ e # t
            <4>1. i - 1 # N /\ j # N
                BY <1>2, <2>1
            <4> QED BY <1>3, <1>7, <4>1
        <3>4. /\ m2.next = [[[m.next EXCEPT ![p] = x] EXCEPT ![t] = f] EXCEPT ![e] = h]
              /\ m2.prev = [[[m.prev EXCEPT ![x] = p] EXCEPT ![f] = t] EXCEPT ![h] = e]
            BY <1>8, <2>2
        <3>5. m \in Memory /\ h \in Nodes
            BY <1>1
        <3> HIDE DEF p, x, f, e, t, z, m2
        <3> QED BY <3>1, <3>2, <3>3, <3>4, <3>5, MemoryTypes
    <2>4. ASSUME NEW v \in 0 .. N, v # i - 1, v # j, v # N
          PROVE  /\ m2.next[NodeAt(h, q[h], v)] = NodeAt(h, q[h], v + 1)
                 /\ m2.prev[NodeAt(h, q[h], v + 1)] = NodeAt(h, q[h], v)
        <3>1. v + 1 \in 1 .. N + 1 /\ v + 1 # i /\ v + 1 # j + 1 /\ v + 1 # N + 1 /\ v \in Int /\ v + 1 \in Int
            BY <1>2, <2>4
        <3>2. NodeAt(h, q[h], v) \in Nodes \ {p, t, e} /\ NodeAt(h, q[h], v + 1) \in Nodes \ {x, f, h}
            BY <1>5, <1>7, <2>4, <3>1
        <3> HIDE DEF p, x, f, e, t, z, m2
        <3> QED BY <1>1, <1>e, <2>3, <3>2 DEF Ring
    <2>5. /\ \A v \in 0 .. i - 1 : NodeAt(h, s, v) = NodeAt(h, q[h], v)
          /\ \A v \in i .. N - w : NodeAt(h, s, v) = NodeAt(h, q[h], v + w)
          /\ \A v \in N - w + 1 .. N : NodeAt(h, s, v) = NodeAt(h, q[h], v - (N - j))
        <3>1. ASSUME NEW v \in 0 .. i - 1
              PROVE  NodeAt(h, s, v) = NodeAt(h, q[h], v)
            <4>1. v \in 1 .. N => v < i
                BY <1>2
            <4> QED BY <1>a, <1>b, <4>1
        <3>2. ASSUME NEW v \in i .. N - w
              PROVE  NodeAt(h, s, v) = NodeAt(h, q[h], v + w)
            <4>1. v \in 1 .. N /\ v + w \in 1 .. N /\ ~ v < i /\ v <= N - w
                BY <1>2
            <4> QED BY <1>a, <1>b, <4>1
        <3>3. ASSUME NEW v \in N - w + 1 .. N
              PROVE  NodeAt(h, s, v) = NodeAt(h, q[h], v - (N - j))
            <4>1. v \in 1 .. N /\ v - (N - j) \in 1 .. N /\ ~ v < i /\ ~ v <= N - w
                BY <1>2
            <4> QED BY <1>a, <1>b, <4>1
        <3> QED BY <3>1, <3>2, <3>3
    <2>6. ASSUME NEW v \in 0 .. N
          PROVE  m2.next[NodeAt(h, s, v)] = NodeAt(h, s, v + 1) /\ m2.prev[NodeAt(h, s, v + 1)] = NodeAt(h, s, v)
        <3> HIDE DEF m2
        <3>1. CASE v < i - 1
            <4>1. /\ v \in 0 .. i - 1 /\ v + 1 \in 0 .. i - 1
                  /\ v # i - 1 /\ v # j /\ v # N
                BY <1>2, <3>1
            <4> QED BY <2>4, <2>5, <4>1
        <3>2. CASE v = i - 1
            <4>1. v \in 0 .. i - 1 /\ v + 1 \in i .. N - w /\ (v + 1) + w = j + 1
                BY <1>2, <2>1, <3>2
            <4> QED BY <2>3, <2>5, <3>2, <4>1
        <3>3. CASE i <= v /\ v < N - w
            <4>1. /\ v \in i .. N - w /\ v + 1 \in i .. N - w /\ (v + 1) + w = (v + w) + 1
                  /\ v + w \in 0 .. N /\ v + w # i - 1 /\ v + w # j /\ v + w # N
                BY <1>2, <3>3
            <4> QED BY <2>4, <2>5, <4>1
        <3>4. CASE v = N - w
            <4>1. /\ v \in i .. N - w /\ v + 1 \in N - w + 1 .. N
                  /\ v + w = N /\ (v + 1) - (N - j) = i
                BY <1>2, <2>1, <3>4
            <4> QED BY <2>3, <2>5, <4>1
        <3>5. CASE N - w < v /\ v < N
            <4>1. /\ v \in N - w + 1 .. N /\ v + 1 \in N - w + 1 .. N
                  /\ (v + 1) - (N - j) = (v - (N - j)) + 1 /\ v - (N - j) \in 0 .. N
                  /\ v - (N - j) # i - 1 /\ v - (N - j) # j /\ v - (N - j) # N
                BY <1>2, <2>1, <3>5
            <4> QED BY <2>4, <2>5, <4>1
        <3>6. CASE v = N
            <4>1. v \in N - w + 1 .. N /\ v - (N - j) = j
                BY <1>2, <3>6
            <4> QED BY <1>4, <2>3, <2>5, <3>6, <4>1
        <3>7. \/ v < i - 1 \/ v = i - 1 \/ (i <= v /\ v < N - w)
              \/ v = N - w \/ (N - w < v /\ v < N) \/ v = N
            BY <1>2
        <3> QED BY <3>1, <3>2, <3>3, <3>4, <3>5, <3>6, <3>7
    <2>7. Ring(m2, h, s)
        <3> HIDE DEF m2
        <3> QED BY <1>2, <2>6 DEF Ring
    <2>8. ASSUME NEW g \in used, g # h
          PROVE  Ring(m2, g, q[g])
        <3>1. g \in Heads /\ q[g] \in Seq(Entries) /\ Ring(m, g, q[g]) /\ Len(q[g]) \in Nat
            BY <1>1, ListsTypes DEF Holds
        <3>2. \A v \in 0 .. Len(q[g]) : NodeAt(g, q[g], v) # p
            BY <1>1, <1>3, <1>e, <2>8, <3>1, Distinct
        <3>3. \A v \in 0 .. Len(q[g]) : NodeAt(g, q[g], v) # t
            BY <1>1, <1>3, <1>e, <2>8, <3>1, Distinct
        <3>4. \A v \in 0 .. Len(q[g]) : NodeAt(g, q[g], v) # e
            BY <1>1, <1>3, <1>e, <2>8, <3>1, Distinct
        <3>5. \A v \in 1 .. Len(q[g]) + 1 : NodeAt(g, q[g], v) # x
            BY <1>1, <1>3, <1>e, <2>8, <3>1, Distinct
        <3>6. \A v \in 1 .. Len(q[g]) + 1 : NodeAt(g, q[g], v) # f
            BY <1>1, <1>3, <1>e, <2>8, <3>1, Distinct
        <3>7. \A v \in 1 .. Len(q[g]) + 1 : NodeAt(g, q[g], v) # h
            BY <1>1, <1>3, <1>4, <1>e, <2>8, <3>1, Distinct, SMTT(30)
        <3>8. \A v \in Int : NodeAt(g, q[g], v) \in Nodes
            BY <1>1, <3>1, Neighbours
        <3>9. \A v \in 0 .. Len(q[g]) : v + 1 \in 1 .. Len(q[g]) + 1 /\ v \in Int /\ v + 1 \in Int
            BY <3>1
        <3> HIDE DEF p, x, f, e, t, z, m2
        <3>10. \A v \in 0 .. Len(q[g]) : /\ NodeAt(g, q[g], v) \in Nodes \ {p, t, e}
                                         /\ NodeAt(g, q[g], v + 1) \in Nodes \ {x, f, h}
            BY <3>2, <3>3, <3>4, <3>5, <3>6, <3>7, <3>8, <3>9
        <3> QED BY <2>3, <3>1, <3>10 DEF Ring
    <2>9. Lists([q EXCEPT ![h] = s], used)
        <3> DEFINE place == [v \in 1 .. N |-> IF v < i THEN v
                                              ELSE IF v <= N - w THEN v + w ELSE v - (N - j)]
        <3>1. \A v \in 1 .. N : s[v] = q[h][place[v]]
            BY <1>a
        <3>2. \A v \in 1 .. N : place[v] \in 1 .. N
            BY <1>2
        <3>3. ASSUME NEW v \in 1 .. N, NEW v2 \in 1 .. N, place[v] = place[v2]
              PROVE  v = v2
            BY <1>2, <3>3
        <3> HIDE DEF place
        <3>4. \A v \in 1 .. Len(s) : place[v] \in 1 .. Len(q[h]) /\ s[v] = q[h][place[v]]
            BY <1>2, <1>e, <3>1, <3>2
        <3>5. \A v \in 1 .. Len(s), v2 \in 1 .. Len(s) : place[v] = place[v2] => v = v2
            BY <1>2, <3>3
        <3>6. Lists(q, used)
            BY <1>1
        <3> QED BY <3>4, <3>5, <3>6, Reordered
    <2>10. \A g \in used : Ring(m2, g, [q EXCEPT ![h] = s][g])
        <3> HIDE DEF m2
        <3> QED BY <1>1, <2>7, <2>8, ListsTypes DEF Lists
    <2>11. Holds(m2, [q EXCEPT ![h] = s], used)
        <3> HIDE DEF m2
        <3> QED BY <1>8, <2>9, <2>10 DEF Holds
    <2> QED BY <1>4, <2>11
<1> QED BY <1>9, <1>10
-----------------------------------------------------------------------------
(***************************************************************************)
(* The caller's sequences.                                                 *)
(***************************************************************************)
\* RemoveAt, entry by entry.
LEMMA RemovedFrom ==
    ASSUME NEW S, NEW s \in Seq(S), NEW k \in 1 .. Len(s)
    PROVE  /\ RemoveAt(s, k) \in Seq(S)
           /\ Len(RemoveAt(s, k)) = Len(s) - 1
           /\ \A i \in 1 .. Len(s) - 1 : RemoveAt(s, k)[i] = IF i < k THEN s[i] ELSE s[i + 1]
<1> DEFINE x == SubSeq(s, 1, k - 1)
           y == SubSeq(s, k + 1, Len(s))
<1>1. Len(s) \in Nat
    OBVIOUS
<1>2. x \in Seq(S) /\ Len(x) = k - 1 /\ \A i \in 1 .. k - 1 : x[i] = s[i]
    BY <1>1
<1>3. y \in Seq(S) /\ Len(y) = Len(s) - k /\ \A i \in 1 .. Len(s) - k : y[i] = s[k + i]
    BY <1>1
<1>4. RemoveAt(s, k) = x \o y
    BY DEF RemoveAt
<1> HIDE DEF x, y
<1>5. ASSUME NEW i \in 1 .. Len(s) - 1
      PROVE  (x \o y)[i] = IF i < k THEN s[i] ELSE s[i + 1]
    <2>1. CASE i < k
        BY <1>1, <1>2, <1>3, <2>1
    <2>2. CASE ~ i < k
        <3>1. (x \o y)[i] = y[i - (k - 1)]
            BY <1>1, <1>2, <1>3, <2>2
        <3>2. i - (k - 1) \in 1 .. Len(s) - k /\ k + (i - (k - 1)) = i + 1
            BY <1>1, <2>2
        <3> QED BY <1>3, <2>2, <3>1, <3>2
    <2> QED BY <2>1, <2>2
<1>6. x \o y \in Seq(S) /\ Len(x \o y) = Len(s) - 1
    BY <1>1, <1>2, <1>3
<1> QED BY <1>4, <1>5, <1>6

\* The same for entries.
LEMMA RemovedAt ==
    ASSUME NEW s \in Seq(Entries), NEW k \in 1 .. Len(s)
    PROVE  /\ RemoveAt(s, k) \in Seq(Entries)
           /\ Len(RemoveAt(s, k)) = Len(s) - 1
           /\ \A i \in 1 .. Len(s) - 1 : RemoveAt(s, k)[i] = IF i < k THEN s[i] ELSE s[i + 1]
BY RemovedFrom

\* Every entry that is on a list has its place there.
LEMMA Placed ==
    ASSUME NEW q, NEW e \in On(q)
    PROVE  \E h \in Heads : \E k \in 1 .. Len(q[h]) : e = q[h][k]
BY DEF On

\* What the invariant says, one by one.
LEMMA InvTypes ==
    ASSUME Inv
    PROVE  /\ Lists(seq, live) /\ mem \in Memory
           /\ seq \in [Heads -> Seq(Entries)] /\ live \subseteq Heads
           /\ \A h \in live : Ring(mem, h, seq[h])
           /\ \A h \in Heads : seq[h] \in Seq(Entries) /\ Len(seq[h]) \in Nat
BY ListsTypes DEF Inv, Holds, Lists

\* An entry that is linked is on one of the lists.
LEMMA LinkedIs ==
    ASSUME Inv
    PROVE  Linked = On(seq)
<1>1. \A h \in Heads : Range(seq[h]) = {seq[h][i] : i \in 1 .. Len(seq[h])}
    BY InvTypes DEF Range
<1>2. \A h \in Heads \ live : {seq[h][i] : i \in 1 .. Len(seq[h])} = {}
    BY InvTypes DEF Lists
<1>3. live \subseteq Heads
    BY InvTypes
<1>4. ASSUME NEW x \in Linked
      PROVE  x \in On(seq)
    <2>1. PICK h \in live : x \in Range(seq[h])
        BY DEF Linked
    <2> QED BY <1>1, <1>3, <2>1 DEF On
<1>5. ASSUME NEW x \in On(seq)
      PROVE  x \in Linked
    <2>1. PICK h \in Heads : x \in {seq[h][i] : i \in 1 .. Len(seq[h])}
        BY DEF On
    <2>2. h \in live /\ x \in Range(seq[h])
        BY <1>1, <1>2, <2>1
    <2> QED BY <2>2 DEF Linked
<1> QED BY <1>4, <1>5

\* The caller's picture without an entry that is on a list.
LEMMA WithoutIs ==
    ASSUME NEW used, Lists(seq, used), NEW h \in Heads, NEW k \in 1 .. Len(seq[h])
    PROVE  /\ Without(seq[h][k]) = [seq EXCEPT ![h] = RemoveAt(seq[h], k)]
           /\ seq[h][k] \notin On(Without(seq[h][k]))
           /\ On(Without(seq[h][k])) = On(seq) \ {seq[h][k]}
<1> DEFINE e == seq[h][k]
           r == [seq EXCEPT ![h] = RemoveAt(seq[h], k)]
<1>1. \A f, g \in Heads : \A i \in 1 .. Len(seq[f]), j \in 1 .. Len(seq[g]) :
          seq[f][i] = seq[g][j] => f = g /\ i = j
    BY DEF Lists, OnceEach
<1>2. RemoveFirst(seq[h], e) = RemoveAt(seq[h], k)
    <2>1. {j \in 1 .. Len(seq[h]) : seq[h][j] = e} = {k}
        BY <1>1
    <2>2. Min({k}) = k
        BY DEF Min
    <2>3. \E i \in 1 .. Len(seq[h]) : seq[h][i] = e
        OBVIOUS
    <2> HIDE DEF e
    <2> QED BY <2>1, <2>2, <2>3 DEF RemoveFirst, SelectInSeq
<1>3. \A g \in Heads \ {h} : RemoveFirst(seq[g], e) = seq[g]
    <2>1. \A g \in Heads \ {h} : ~ \E i \in 1 .. Len(seq[g]) : seq[g][i] = e
        BY <1>1
    <2> HIDE DEF e
    <2> QED BY <2>1 DEF RemoveFirst
<1>4. Without(e) = r
    <2>1. seq \in [Heads -> Seq(Entries)]
        BY DEF Lists
    <2> HIDE DEF e
    <2> QED BY <1>2, <1>3, <2>1 DEF Without
<1>5. /\ \A g \in Heads \ {h} : r[g] = seq[g]
      /\ Len(r[h]) = Len(seq[h]) - 1 /\ Len(seq[h]) \in Nat
      /\ \A i \in 1 .. Len(seq[h]) - 1 : r[h][i] = IF i < k THEN seq[h][i] ELSE seq[h][i + 1]
    BY ListsTypes, RemovedAt DEF Lists
<1> HIDE DEF r
<1>6. \A g \in Heads : \A i \in 1 .. Len(r[g]) :
          \E j \in 1 .. Len(seq[g]) : r[g][i] = seq[g][j] /\ (g = h => j # k)
    <2>1. SUFFICES ASSUME NEW g \in Heads, NEW i \in 1 .. Len(r[g])
                   PROVE  \E j \in 1 .. Len(seq[g]) : r[g][i] = seq[g][j] /\ (g = h => j # k)
        OBVIOUS
    <2>2. CASE g # h
        BY <1>5, <2>2
    <2>3. CASE g = h /\ i < k
        <3>1. i \in 1 .. Len(seq[g]) /\ r[g][i] = seq[g][i] /\ i # k
            BY <1>5, <2>3
        <3> QED BY <3>1
    <2>4. CASE g = h /\ ~ i < k
        <3>1. i + 1 \in 1 .. Len(seq[g]) /\ r[g][i] = seq[g][i + 1] /\ i + 1 # k
            BY <1>5, <2>4
        <3> QED BY <3>1
    <2> QED BY <2>2, <2>3, <2>4
<1>7. e \notin On(r)
    <2>1. SUFFICES ASSUME e \in On(r) PROVE FALSE
        OBVIOUS
    <2>a. PICK g \in Heads : \E i \in 1 .. Len(r[g]) : e = r[g][i]
        BY <2>1, Placed
    <2>2. PICK i \in 1 .. Len(r[g]) : e = r[g][i]
        BY <2>a
    <2>3. PICK j \in 1 .. Len(seq[g]) : r[g][i] = seq[g][j] /\ (g = h => j # k)
        BY <1>6
    <2> QED BY <1>1, <2>2, <2>3
<1>8. On(r) \subseteq On(seq)
    <2>1. SUFFICES ASSUME NEW x \in On(r) PROVE x \in On(seq)
        OBVIOUS
    <2>a. PICK g \in Heads : \E i \in 1 .. Len(r[g]) : x = r[g][i]
        BY <2>1, Placed
    <2>2. PICK i \in 1 .. Len(r[g]) : x = r[g][i]
        BY <2>a
    <2>3. PICK j \in 1 .. Len(seq[g]) : r[g][i] = seq[g][j]
        BY <1>6
    <2> QED BY <2>2, <2>3 DEF On
<1>9. \A g \in Heads : \A j \in 1 .. Len(seq[g]) : seq[g][j] # e =>
          \E i \in 1 .. Len(r[g]) : r[g][i] = seq[g][j]
    <2>1. SUFFICES ASSUME NEW g \in Heads, NEW j \in 1 .. Len(seq[g]), seq[g][j] # e
                   PROVE  \E i \in 1 .. Len(r[g]) : r[g][i] = seq[g][j]
        OBVIOUS
    <2>2. CASE g # h
        BY <1>5, <2>2
    <2>3. CASE g = h /\ j < k
        <3>1. j \in 1 .. Len(r[g]) /\ r[g][j] = seq[g][j]
            BY <1>5, <2>3
        <3> QED BY <3>1
    <2>4. CASE g = h /\ ~ j < k
        <3>1. j # k
            BY <2>1, <2>4
        <3>2. j - 1 \in 1 .. Len(r[g]) /\ r[g][j - 1] = seq[g][j]
            BY <1>5, <2>4, <3>1
        <3> QED BY <3>2
    <2> QED BY <2>2, <2>3, <2>4
<1>10. ASSUME NEW x \in On(seq), x # e
       PROVE  x \in On(r)
    <2>a. PICK g \in Heads : \E j \in 1 .. Len(seq[g]) : x = seq[g][j]
        BY <1>10, Placed
    <2>1. PICK j \in 1 .. Len(seq[g]) : x = seq[g][j]
        BY <2>a
    <2>2. PICK i \in 1 .. Len(r[g]) : r[g][i] = seq[g][j]
        BY <1>9, <1>10, <2>1
    <2> QED BY <2>1, <2>2 DEF On
<1> QED BY <1>4, <1>7, <1>8, <1>10 DEF r

\* The caller's picture without an entry that is on none.
LEMMA WithoutNone ==
    ASSUME NEW used, Lists(seq, used), NEW e \in Entries \ On(seq)
    PROVE  Without(e) = seq
<1>1. \A g \in Heads : ~ \E i \in 1 .. Len(seq[g]) : seq[g][i] = e
    BY DEF On
<1>2. \A g \in Heads : RemoveFirst(seq[g], e) = seq[g]
    BY <1>1 DEF RemoveFirst
<1> QED BY <1>2 DEF Without, Lists
-----------------------------------------------------------------------------
(***************************************************************************)
(* The callers' operations.                                                *)
(***************************************************************************)
\* __list_del_entry takes an entry out of the list it is on.
LEMMA TakenOff ==
    ASSUME NEW m, NEW used, Holds(m, seq, used), NEW e \in On(seq)
    PROVE  /\ e \in Entries /\ e \notin On(Without(e))
           /\ Holds(Unlink(m, e), Without(e), used)
<1>1. Lists(seq, used)
    BY DEF Holds
<1>a. PICK h \in Heads : \E k \in 1 .. Len(seq[h]) : e = seq[h][k]
    BY Placed
<1>2. PICK k \in 1 .. Len(seq[h]) : e = seq[h][k]
    BY <1>a
<1>3. h \in used
    <2>1. h \notin used => Len(seq[h]) = 0
        BY <1>1 DEF Lists
    <2> QED BY <1>2, <2>1
<1>4. /\ RemoveAt(seq[h], k) \in Seq(Entries)
      /\ Len(RemoveAt(seq[h], k)) = Len(seq[h]) - 1
      /\ \A i \in 1 .. Len(seq[h]) - 1 :
            RemoveAt(seq[h], k)[i] = IF i < k THEN seq[h][i] ELSE seq[h][i + 1]
    BY <1>1, ListsTypes, RemovedAt
<1>5. Holds(Unlink(m, seq[h][k]), [seq EXCEPT ![h] = RemoveAt(seq[h], k)], used)
    BY <1>3, <1>4, Unlinked
<1>6. e \in Entries
    BY <1>1, <1>2, ListsTypes
<1> QED BY <1>1, <1>2, <1>5, <1>6, WithoutIs

\* It changes nothing of the lists when the entry points to itself.
LEMMA TakenOut ==
    ASSUME Inv, NEW e \in Linked \cup Selfish
    PROVE  /\ e \in Entries /\ e \notin On(Without(e))
           /\ Holds(Unlink(mem, e), Without(e), live)
<1>1. CASE e \in Linked
    BY <1>1, LinkedIs, TakenOff DEF Inv
<1>2. CASE e \in Selfish
    <2>1. e \in Entries /\ e \notin On(seq) /\ mem.next[e] = e /\ mem.prev[e] = e
        BY <1>2, LinkedIs DEF Selfish, Free
    <2>2. Without(e) = seq
        BY <2>1, InvTypes, WithoutNone
    <2>3. e \in Nodes /\ mem \in Memory /\ Holds(mem, seq, live)
        BY <2>1, InvTypes DEF Nodes, Inv
    <2>4. /\ Unlink(mem, e) \in Memory
          /\ \A n \in Nodes \ {e} : /\ Unlink(mem, e).next[n] = mem.next[n]
                                    /\ Unlink(mem, e).prev[n] = mem.prev[n]
        BY <2>1, <2>3, JoinSets DEF Unlink
    <2>5. Holds(Unlink(mem, e), seq, live)
        BY <2>1, <2>3, <2>4, FreeTouched
    <2> QED BY <2>1, <2>2, <2>5
<1> QED BY <1>1, <1>2

\* list_add and list_add_tail.
LEMMA Added ==
    ASSUME NEW m, NEW q, NEW used, Holds(m, q, used),
           NEW e \in Entries, e \notin On(q), NEW h \in used
    PROVE  /\ Holds(list_add(m, e, h), [q EXCEPT ![h] = <<e>> \o q[h]], used)
           /\ Holds(list_add_tail(m, e, h), [q EXCEPT ![h] = Append(q[h], e)], used)
<1>1. /\ h \in Heads /\ q[h] \in Seq(Entries) /\ Len(q[h]) \in Nat
      /\ Ring(m, h, q[h]) /\ m \in Memory
    BY ListsTypes DEF Holds
<1>2. /\ m.next[h] = NodeAt(h, q[h], 1) /\ m.prev[h] = NodeAt(h, q[h], Len(q[h]))
      /\ NodeAt(h, q[h], 0) = h /\ NodeAt(h, q[h], Len(q[h]) + 1) = h
    <2>1. NodeAt(h, q[h], 0) = h /\ NodeAt(h, q[h], Len(q[h]) + 1) = h
        BY <1>1 DEF NodeAt
    <2> QED BY <1>1, <2>1, Neighbours
<1>3. Holds(list_add(m, e, h), [q EXCEPT ![h] = <<e>> \o q[h]], used)
    <2> DEFINE s == <<e>> \o q[h]
    <2>1. s \in Seq(Entries) /\ Len(s) = Len(q[h]) + 1
        BY <1>1
    <2>2. \A i \in 1 .. Len(q[h]) + 1 :
              s[i] = IF i <= 0 THEN q[h][i] ELSE IF i = 0 + 1 THEN e ELSE q[h][i - 1]
        BY <1>1
    <2>3. 0 \in 0 .. Len(q[h]) /\ 0 + 1 = 1
        BY <1>1
    <2> HIDE DEF s
    <2>4. Holds(InsertBetween(m, e, NodeAt(h, q[h], 0), NodeAt(h, q[h], 0 + 1)), [q EXCEPT ![h] = s], used)
        BY <2>1, <2>2, <2>3, Inserted
    <2>5. list_add(m, e, h) = InsertBetween(m, e, NodeAt(h, q[h], 0), NodeAt(h, q[h], 0 + 1))
        BY <1>2, <2>3 DEF list_add
    <2> QED BY <2>4, <2>5 DEF s
<1>4. Holds(list_add_tail(m, e, h), [q EXCEPT ![h] = Append(q[h], e)], used)
    <2> DEFINE s == Append(q[h], e)
               N == Len(q[h])
    <2>1. s \in Seq(Entries) /\ Len(s) = Len(q[h]) + 1
        BY <1>1
    <2>2. \A i \in 1 .. Len(q[h]) + 1 :
              s[i] = IF i <= N THEN q[h][i] ELSE IF i = N + 1 THEN e ELSE q[h][i - 1]
        BY <1>1
    <2>3. N \in 0 .. Len(q[h])
        BY <1>1
    <2>4. list_add_tail(m, e, h) = InsertBetween(m, e, NodeAt(h, q[h], N), NodeAt(h, q[h], N + 1))
        BY <1>2 DEF list_add_tail
    <2> HIDE DEF s, N
    <2>5. Holds(InsertBetween(m, e, NodeAt(h, q[h], N), NodeAt(h, q[h], N + 1)), [q EXCEPT ![h] = s], used)
        BY <2>1, <2>2, <2>3, Inserted
    <2> QED BY <2>4, <2>5 DEF s
<1> QED BY <1>3, <1>4

\* The predicate list_empty tells of a list in use.
LEMMA Emptiness ==
    ASSUME Inv, NEW h \in live
    PROVE  list_empty(mem, h) <=> seq[h] = <<>>
<1>1. h \in Heads /\ seq[h] \in Seq(Entries) /\ mem.next[h] = NodeAt(h, seq[h], 1)
    BY InvTypes, Neighbours
<1>2. CASE seq[h] = <<>>
    BY <1>1, <1>2 DEF list_empty, NodeAt
<1>3. CASE seq[h] # <<>>
    <2>1. 1 \in 1 .. Len(seq[h])
        BY <1>1, <1>3
    <2>2. NodeAt(h, seq[h], 1) \in Entries
        BY <1>1, <2>1 DEF NodeAt
    <2> QED BY <1>1, <1>3, <2>2, NodesAssumption DEF list_empty
<1> QED BY <1>2, <1>3

\* A head that holds no list may be dropped.
LEMMA Dropped ==
    ASSUME NEW m, NEW q, NEW used, Holds(m, q, used), NEW h \in Heads, q[h] = <<>>
    PROVE  Holds(m, q, used \ {h})
BY DEF Holds, Lists

\* INIT_LIST_HEAD on a head that has no list to lose.
LEMMA InitialisedHead ==
    ASSUME NEW m, NEW q, NEW used, Holds(m, q, used), NEW h \in Heads, q[h] = <<>>
    PROVE  Holds(INIT_LIST_HEAD(m, h), q, used \cup {h})
<1>1. m \in Memory /\ h \in Nodes
    BY DEF Holds, Nodes
<1>2. LET m2 == INIT_LIST_HEAD(m, h)
      IN  /\ m2 \in Memory
          /\ m2.next[h] = h /\ m2.prev[h] = h
          /\ \A x \in Nodes \ {h} : m2.next[x] = m.next[x] /\ m2.prev[x] = m.prev[x]
    BY <1>1, InitSets
<1> QED BY <1>2, HeadInitialised

\* INIT_LIST_HEAD on an entry that is on no list.
LEMMA InitialisedEntry ==
    ASSUME NEW m, NEW q, NEW used, Holds(m, q, used), NEW e \in Entries, e \notin On(q)
    PROVE  Holds(INIT_LIST_HEAD(m, e), q, used)
<1>1. m \in Memory /\ e \in Nodes
    BY DEF Holds, Nodes
<1>2. LET m2 == INIT_LIST_HEAD(m, e)
      IN  /\ m2 \in Memory
          /\ m2.next[e] = e /\ m2.prev[e] = e
          /\ \A x \in Nodes \ {e} : m2.next[x] = m.next[x] /\ m2.prev[x] = m.prev[x]
    BY <1>1, InitSets
<1> QED BY <1>2, FreeTouched

\* The poison of list_del.
LEMMA Poisoned ==
    ASSUME NEW m, NEW q, NEW used, Holds(m, q, used), NEW e \in Entries, e \notin On(q)
    PROVE  Holds(SetPrev(SetNext(m, e, LIST_POISON1), e, LIST_POISON2), q, used)
<1> DEFINE m1 == SetNext(m, e, LIST_POISON1)
           m2 == SetPrev(m1, e, LIST_POISON2)
<1>1. m \in Memory /\ e \in Nodes
    BY DEF Holds, Nodes
<1>2. m1 \in Memory /\ m1.next = [m.next EXCEPT ![e] = LIST_POISON1] /\ m1.prev = m.prev
    BY <1>1, NextSet, ZenonT(30)
<1> HIDE DEF m1
<1>3. m2 \in Memory /\ m2.prev = [m1.prev EXCEPT ![e] = LIST_POISON2] /\ m2.next = m1.next
    <2>1. m1 \in Memory /\ e \in Nodes
        BY <1>1, <1>2
    <2> QED BY <2>1, PrevSet
<1> HIDE DEF m2
<1>4. \A n \in Nodes \ {e} : m2.next[n] = m.next[n] /\ m2.prev[n] = m.prev[n]
    BY <1>1, <1>2, <1>3, MemoryTypes
<1>5. Holds(m2, q, used)
    BY <1>3, <1>4, FreeTouched
<1> QED BY <1>5 DEF m1, m2

\* InitHead.
LEMMA InitHeadKeeps ==
    ASSUME Inv, NEW h \in Heads, InitHead(h)
    PROVE  Inv'
<1>1. Holds(mem, seq, live) /\ seq[h] = <<>>
    BY DEF Inv, Holds, Lists, InitHead, Losable
<1>2. Holds(INIT_LIST_HEAD(mem, h), seq, live \cup {h})
    BY <1>1, InitialisedHead
<1> QED BY <1>2 DEF Inv, InitHead

\* Add.
LEMMA AddKeeps ==
    ASSUME Inv, NEW e \in Entries, NEW h \in live, Add(e, h)
    PROVE  Inv'
<1>1. Holds(mem, seq, live) /\ e \notin On(seq)
    BY LinkedIs DEF Inv, Add, Free
<1>2. /\ Holds(list_add(mem, e, h), [seq EXCEPT ![h] = <<e>> \o seq[h]], live)
      /\ Holds(list_add_tail(mem, e, h), [seq EXCEPT ![h] = Append(seq[h], e)], live)
    BY <1>1, Added
<1> QED BY <1>2 DEF Inv, Add

\* Delete.
LEMMA DeleteKeeps ==
    ASSUME Inv, NEW e \in Entries, Delete(e)
    PROVE  Inv'
<1>1. /\ e \notin On(Without(e)) /\ Holds(Unlink(mem, e), Without(e), live)
    BY TakenOut DEF Delete
<1>2. Holds(list_del(mem, e), Without(e), live)
    BY <1>1, Poisoned DEF list_del
<1>3. Holds(list_del_init(mem, e), Without(e), live)
    BY <1>1, InitialisedEntry DEF list_del_init
<1> QED BY <1>2, <1>3 DEF Inv, Delete

\* Move.
LEMMA MoveKeeps ==
    ASSUME Inv, NEW e \in Entries, NEW h \in live, Move(e, h)
    PROVE  Inv'
<1>1. /\ e \notin On(Without(e)) /\ Holds(Unlink(mem, e), Without(e), live)
    BY TakenOut DEF Move
<1>2. /\ Holds(list_move(mem, e, h), [Without(e) EXCEPT ![h] = <<e>> \o Without(e)[h]], live)
      /\ Holds(list_move_tail(mem, e, h), [Without(e) EXCEPT ![h] = Append(Without(e)[h], e)], live)
    BY <1>1, Added DEF list_move, list_move_tail
<1> QED BY <1>2 DEF Inv, Move

\* Two memories with the same pointers are one.
LEMMA SameMemory ==
    ASSUME NEW m1 \in Memory, NEW m2 \in Memory,
           \A n \in Nodes : m1.next[n] = m2.next[n] /\ m1.prev[n] = m2.prev[n]
    PROVE  m1 = m2
<1>1. m1.next = m2.next /\ m1.prev = m2.prev
    BY MemoryTypes
<1> QED BY <1>1 DEF Memory

\* The four assignments of list_replace, for a node that is not its own
\* neighbour.
LEMMA ReplaceSets ==
    ASSUME NEW m \in Memory, NEW old \in Nodes, NEW new \in Nodes,
           NEW a \in Nodes, NEW b \in Nodes, m.prev[old] = a, m.next[old] = b,
           old # new, b # old, b # new
    PROVE  LET m2 == list_replace(m, old, new)
           IN  /\ m2 \in Memory
               /\ m2.next[a] = new /\ (a # new => m2.next[new] = b)
               /\ m2.prev[b] = new /\ m2.prev[new] = a
               /\ \A n \in Nodes \ {a, new} : m2.next[n] = m.next[n]
               /\ \A n \in Nodes \ {b, new} : m2.prev[n] = m.prev[n]
<1> DEFINE m1 == SetNext(m, new, b)
           m2 == SetPrev(m1, b, new)
           m3 == SetPrev(m2, new, a)
           m4 == SetNext(m3, a, new)
<1>1. m1 \in Memory /\ m1.next = [m.next EXCEPT ![new] = b] /\ m1.prev = m.prev
    BY NextSet
<1>2. m1.next[new] = b
    BY <1>1, MemoryTypes
<1> HIDE DEF m1
<1>3. m2 \in Memory /\ m2.prev = [m1.prev EXCEPT ![b] = new] /\ m2.next = m1.next
    <2>1. m1 \in Memory
        BY <1>1
    <2> QED BY <2>1, PrevSet
<1>4. m2.prev[old] = a
    BY <1>1, <1>3, MemoryTypes
<1> HIDE DEF m2
<1>5. m3 \in Memory /\ m3.prev = [m2.prev EXCEPT ![new] = a] /\ m3.next = m2.next
    <2>1. m2 \in Memory
        BY <1>3
    <2> QED BY <2>1, PrevSet
<1>6. m3.prev[new] = a
    BY <1>3, <1>5, MemoryTypes
<1> HIDE DEF m3
<1>7. m4 \in Memory /\ m4.next = [m3.next EXCEPT ![a] = new] /\ m4.prev = m3.prev
    <2>1. m3 \in Memory
        BY <1>5
    <2> QED BY <2>1, NextSet
<1>8. list_replace(m, old, new) = m4
    BY <1>2, <1>4, <1>6 DEF list_replace, m1, m2, m3
<1> HIDE DEF m4
<1> QED BY <1>1, <1>3, <1>5, <1>7, <1>8, MemoryTypes

\* Node n is between a and b.
Between(m, n, a, b) == m.prev[n] = a /\ m.next[n] = b

\* The pointers of InsertBetween as functions.
LEMMA InsertIs ==
    ASSUME NEW m \in Memory, NEW e \in Nodes, NEW a \in Nodes, NEW b \in Nodes,
           e # a, e # b
    PROVE  /\ InsertBetween(m, e, a, b) \in Memory
           /\ InsertBetween(m, e, a, b).next = [[m.next EXCEPT ![e] = b] EXCEPT ![a] = e]
           /\ InsertBetween(m, e, a, b).prev = [[m.prev EXCEPT ![b] = e] EXCEPT ![e] = a]
<1> DEFINE j == InsertBetween(m, e, a, b)
<1>1. /\ j \in Memory
      /\ j.next[a] = e /\ j.next[e] = b
      /\ j.prev[b] = e /\ j.prev[e] = a
      /\ \A n \in Nodes \ {a, e} : j.next[n] = m.next[n]
      /\ \A n \in Nodes \ {b, e} : j.prev[n] = m.prev[n]
    BY InsertSets
<1> HIDE DEF j
<1>2. /\ j.next = [[m.next EXCEPT ![e] = b] EXCEPT ![a] = e]
      /\ j.prev = [[m.prev EXCEPT ![b] = e] EXCEPT ![e] = a]
    BY <1>1, MemoryTypes
<1> QED BY <1>1, <1>2 DEF j

\* Replacing an entry is unlinking it and linking the new one in its place.
LEMMA ReplaceIs ==
    ASSUME NEW m \in Memory, NEW old \in Nodes, NEW new \in Nodes,
           NEW a \in Nodes, NEW b \in Nodes, Between(m, old, a, b),
           old # new, a # old, b # old, a # new, b # new
    PROVE  list_replace(m, old, new) = InsertBetween(Unlink(m, old), new, a, b)
<1> DEFINE r == list_replace(m, old, new)
           u == JoinAround(m, a, b)
           i == InsertBetween(u, new, a, b)
<1>1. /\ r \in Memory
      /\ r.next[a] = new /\ r.next[new] = b
      /\ r.prev[b] = new /\ r.prev[new] = a
      /\ \A n \in Nodes \ {a, new} : r.next[n] = m.next[n]
      /\ \A n \in Nodes \ {b, new} : r.prev[n] = m.prev[n]
    BY ReplaceSets DEF Between
<1> HIDE DEF r
<1>2. u = Unlink(m, old)
    BY DEF Unlink, Between
<1>3. /\ u \in Memory
      /\ u.next = [m.next EXCEPT ![a] = b] /\ u.prev = [m.prev EXCEPT ![b] = a]
    BY JoinIs
<1> HIDE DEF u
<1>4. /\ i \in Memory
      /\ i.next = [[u.next EXCEPT ![new] = b] EXCEPT ![a] = new]
      /\ i.prev = [[u.prev EXCEPT ![b] = new] EXCEPT ![new] = a]
    <2>1. u \in Memory
        BY <1>3
    <2> QED BY <2>1, InsertIs
<1> HIDE DEF i
<1>5. \A n \in Nodes : r.next[n] = i.next[n] /\ r.prev[n] = i.prev[n]
    BY <1>1, <1>3, <1>4, MemoryTypes
<1>6. r = i
    <2>1. r \in Memory /\ i \in Memory
        BY <1>1, <1>4
    <2> QED BY <1>5, <2>1, SameMemory
<1> QED BY <1>2, <1>6 DEF r, i

\* Replace.
LEMMA ReplaceKeeps ==
    ASSUME Inv, NEW old \in Entries, NEW new \in Entries, Replace(old, new)
    PROVE  Inv'
<1>1. old \in Linked /\ new \notin On(seq) /\ Holds(mem, seq, live)
    BY LinkedIs DEF Replace, Free, Inv
<1>2. PICK h \in Heads : \E k \in 1 .. Len(seq[h]) : old = seq[h][k]
    BY <1>1, LinkedIs, Placed
<1>3. PICK k \in 1 .. Len(seq[h]) : old = seq[h][k]
    BY <1>2
<1> DEFINE N == Len(seq[h])
           a == NodeAt(h, seq[h], k - 1)
           b == NodeAt(h, seq[h], k + 1)
           u == RemoveAt(seq[h], k)
           s == [i \in DOMAIN seq[h] |-> IF seq[h][i] = old THEN new ELSE seq[h][i]]
           m2 == list_replace(mem, old, new)
           r == [seq EXCEPT ![h] = s]
<1>4. /\ h \in live /\ seq[h] \in Seq(Entries) /\ N \in Nat /\ k \in 1 .. N
      /\ mem \in Memory /\ Ring(mem, h, seq[h]) /\ Lists(seq, live)
      /\ seq \in [Heads -> Seq(Entries)]
    <2>1. h \notin live => Len(seq[h]) = 0
        BY InvTypes DEF Lists
    <2>2. h \in live
        BY <1>3, <2>1
    <2> QED BY <1>3, <2>2, InvTypes
<1>5. \A i, j \in 1 .. N : seq[h][i] = seq[h][j] => i = j
    BY <1>4 DEF Lists, OnceEach
<1>6. /\ s \in Seq(Entries) /\ Len(s) = N
      /\ \A i \in 1 .. N : s[i] = IF i = k THEN new ELSE seq[h][i]
    <2>1. DOMAIN seq[h] = 1 .. N
        BY <1>4
    <2>2. s \in [1 .. N -> Entries] /\ \A i \in 1 .. N : s[i] = IF i = k THEN new ELSE seq[h][i]
        BY <1>3, <1>4, <1>5, <2>1
    <2> HIDE DEF s
    <2> QED BY <1>4, <2>2
<1>7. /\ u \in Seq(Entries) /\ Len(u) = N - 1
      /\ \A i \in 1 .. N - 1 : u[i] = IF i < k THEN seq[h][i] ELSE seq[h][i + 1]
    BY <1>4, RemovedAt
<1>8. /\ Holds(Unlink(mem, old), Without(old), live)
      /\ Without(old) = [seq EXCEPT ![h] = u]
      /\ new \notin On(Without(old))
    <2>1. Without(old) = [seq EXCEPT ![h] = u] /\ On(Without(old)) = On(seq) \ {old}
        BY <1>1, <1>3, <1>4, InvTypes, WithoutIs
    <2> QED BY <1>1, <1>3, <1>4, <2>1, TakenOut
<1>9. Without(old)[h] = u
    BY <1>4, <1>8
<1> HIDE DEF s, u, N
<1>10. Holds(InsertBetween(Unlink(mem, old), new, NodeAt(h, u, k - 1), NodeAt(h, u, k)),
             [Without(old) EXCEPT ![h] = s], live)
    <2> DEFINE w == Without(old)
               c == k - 1
    <2>1. /\ c \in 0 .. Len(w[h]) /\ Len(s) = Len(w[h]) + 1 /\ c + 1 = k
          /\ \A i \in 1 .. Len(w[h]) + 1 :
                s[i] = IF i <= c THEN w[h][i] ELSE IF i = c + 1 THEN new ELSE w[h][i - 1]
        <3>1. /\ c \in 0 .. N - 1 /\ c + 1 = k
              /\ \A i \in 1 .. N : i <= c => i < k /\ i \in 1 .. N - 1 /\ i # k
              /\ \A i \in 1 .. N : ~ i <= c /\ i # c + 1 =>
                    ~ i - 1 < k /\ i - 1 \in 1 .. N - 1 /\ (i - 1) + 1 = i /\ i # k
              /\ (N - 1) + 1 = N
            BY <1>4
        <3> HIDE DEF c, w
        <3>2. w[h] = u
            BY <1>9 DEF w
        <3>3. Len(w[h]) = N - 1 /\ Len(s) = N /\ N \in Nat
            BY <1>4, <1>6, <1>7, <3>2 DEF N
        <3>4. \A i \in 1 .. N :
                  s[i] = IF i <= c THEN u[i] ELSE IF i = c + 1 THEN new ELSE u[i - 1]
            <4>1. SUFFICES ASSUME NEW i \in 1 .. N
                           PROVE  s[i] = IF i <= c THEN u[i]
                                         ELSE IF i = c + 1 THEN new ELSE u[i - 1]
                OBVIOUS
            <4>2. CASE i <= c
                <5>1. i < k /\ i \in 1 .. N - 1 /\ i # k
                    BY <3>1, <4>2
                <5> QED BY <1>6, <1>7, <4>2, <5>1
            <4>3. CASE ~ i <= c /\ i = c + 1
                BY <1>6, <3>1, <4>3
            <4>4. CASE ~ i <= c /\ i # c + 1
                <5>1. u[i - 1] = seq[h][i]
                    BY <1>7, <3>1, <4>4
                <5> QED BY <1>6, <3>1, <4>4, <5>1
            <4> QED BY <4>2, <4>3, <4>4
        <3> QED BY <3>1, <3>2, <3>3, <3>4
    <2>2. Holds(Unlink(mem, old), w, live)
        BY <1>8
    <2> HIDE DEF w, c
    <2>3. Holds(InsertBetween(Unlink(mem, old), new, NodeAt(h, w[h], c), NodeAt(h, w[h], c + 1)),
                [w EXCEPT ![h] = s], live)
        BY <1>4, <1>6, <1>8, <2>1, <2>2, Inserted DEF w
    <2>4. NodeAt(h, w[h], c) = NodeAt(h, u, k - 1) /\ NodeAt(h, w[h], c + 1) = NodeAt(h, u, k)
        BY <1>9, <2>1 DEF w, c
    <2> QED BY <2>3, <2>4 DEF w
<1>11. NodeAt(h, u, k - 1) = a /\ NodeAt(h, u, k) = b
    <2>1. Len(u) = N - 1 /\ N = Len(seq[h])
        BY <1>7 DEF N
    <2>2. /\ k - 1 \in 1 .. N - 1 <=> k - 1 \in 1 .. N
          /\ k \in 1 .. N - 1 <=> k + 1 \in 1 .. N
          /\ k - 1 < k /\ ~ k < k
        BY <1>4
    <2> QED BY <1>7, <2>1, <2>2 DEF NodeAt
<1>12. [Without(old) EXCEPT ![h] = s] = r
    BY <1>4, <1>8
<1>13. m2 = InsertBetween(Unlink(mem, old), new, a, b)
    <2>1. Between(mem, old, a, b)
        BY <1>3, <1>4, Neighbours DEF Between
    <2>2. a \in Nodes /\ b \in Nodes /\ old \in Nodes /\ new \in Nodes
        <3>1. k - 1 \in Int /\ k + 1 \in Int
            BY <1>4
        <3> QED BY <1>4, <3>1, Neighbours DEF Nodes
    <2>3. old # new /\ a # old /\ b # old /\ a # new /\ b # new
        <3>1. old # new /\ \A i \in 1 .. N : seq[h][i] # new
            BY <1>1, <1>3 DEF On, N
        <3>2. /\ k - 1 \in 0 .. N /\ k \in 0 .. N /\ k + 1 \in 1 .. N + 1 /\ k \in 1 .. N + 1
              /\ k - 1 # k /\ k + 1 # k
            BY <1>4
        <3>3. NodeAt(h, seq[h], k) = old
            BY <1>3 DEF NodeAt
        <3>4. a # old
            BY <1>4, <3>2, <3>3, Distinct DEF N
        <3>5. b # old
            BY <1>4, <3>2, <3>3, Distinct DEF N
        <3>6. h # new
            BY NodesAssumption
        <3>7. a # new /\ b # new
            BY <3>1, <3>6 DEF NodeAt, N
        <3> QED BY <3>1, <3>4, <3>5, <3>7
    <2> HIDE DEF a, b
    <2>4. mem \in Memory
        BY <1>4
    <2> QED BY <2>1, <2>2, <2>3, <2>4, ReplaceIs
<1>14. Holds(m2, r, live)
    <2> HIDE DEF m2, r, a, b
    <2> QED BY <1>10, <1>11, <1>12, <1>13
<1>15. seq' = r
    <2>1. \A g \in Heads \ {h} : \A i \in 1 .. Len(seq[g]) : seq[g][i] # old
        BY <1>3, <1>4 DEF Lists, OnceEach
    <2>2. \A g \in Heads \ {h} :
              [i \in DOMAIN seq[g] |-> IF seq[g][i] = old THEN new ELSE seq[g][i]] = seq[g]
        <3>1. SUFFICES ASSUME NEW g \in Heads \ {h}
                       PROVE [i \in DOMAIN seq[g] |-> IF seq[g][i] = old THEN new ELSE seq[g][i]]
                             = seq[g]
            OBVIOUS
        <3>2. seq[g] \in Seq(Entries)
            BY <1>4
        <3> QED BY <2>1, <3>2
    <2> QED BY <1>4, <2>2 DEF Replace, s
<1>16. old \notin On(r)
    <2>1. SUFFICES ASSUME old \in On(r) PROVE FALSE
        OBVIOUS
    <2>2. PICK g \in Heads : \E i \in 1 .. Len(r[g]) : old = r[g][i]
        BY <2>1, Placed
    <2>3. PICK i \in 1 .. Len(r[g]) : old = r[g][i]
        BY <2>2
    <2>4. old # new
        BY <1>1, <1>3 DEF On
    <2>5. CASE g = h
        BY <1>3, <1>4, <1>5, <1>6, <2>3, <2>4, <2>5 DEF N
    <2>6. CASE g # h
        BY <1>3, <1>4, <2>3, <2>6 DEF Lists, OnceEach
    <2> QED BY <2>5, <2>6
<1>17. Holds(list_replace_init(mem, old, new), r, live)
    BY <1>14, <1>16, InitialisedEntry DEF list_replace_init
<1> QED BY <1>14, <1>15, <1>17 DEF Inv, Replace

\* A head that holds no list may be written to.
LEMMA FreeHeadTouched ==
    ASSUME NEW m, NEW q, NEW used, Holds(m, q, used),
           NEW h \in Heads, h \notin used, NEW m2 \in Memory,
           \A n \in Nodes \ {h} : m2.next[n] = m.next[n] /\ m2.prev[n] = m.prev[n]
    PROVE  Holds(m2, q, used)
<1>1. Lists(q, used)
    BY DEF Holds
<1>2. ASSUME NEW g \in used
      PROVE  Ring(m2, g, q[g])
    <2>1. g \in Heads /\ g # h
        BY <1>1, ListsTypes
    <2>2. g \notin {h} /\ \A i \in 1 .. Len(q[g]) : q[g][i] \notin {h}
        BY <1>1, <2>1, ListsTypes, NodesAssumption
    <2> QED BY <2>2, OthersKept
<1> QED BY <1>1, <1>2 DEF Holds

\* The pointers of INIT_LIST_HEAD as functions.
LEMMA InitIs ==
    ASSUME NEW m \in Memory, NEW n \in Nodes
    PROVE  /\ INIT_LIST_HEAD(m, n) \in Memory
           /\ INIT_LIST_HEAD(m, n).next = [m.next EXCEPT ![n] = n]
           /\ INIT_LIST_HEAD(m, n).prev = [m.prev EXCEPT ![n] = n]
<1> DEFINE j == INIT_LIST_HEAD(m, n)
<1>1. /\ j \in Memory /\ j.next[n] = n /\ j.prev[n] = n
      /\ \A x \in Nodes \ {n} : j.next[x] = m.next[x] /\ j.prev[x] = m.prev[x]
    BY InitSets
<1> HIDE DEF j
<1>2. j.next = [m.next EXCEPT ![n] = n] /\ j.prev = [m.prev EXCEPT ![n] = n]
    BY <1>1, MemoryTypes
<1> QED BY <1>1, <1>2 DEF j

\* The pointers of SpliceBetween as functions.
LEMMA SpliceIs ==
    ASSUME NEW m \in Memory, NEW l \in Nodes, NEW a \in Nodes, NEW b \in Nodes,
           NEW c \in Nodes, NEW d \in Nodes, Between(m, l, d, c), a # d, b # c
    PROVE  /\ SpliceBetween(m, l, a, b) \in Memory
           /\ SpliceBetween(m, l, a, b).next = [[m.next EXCEPT ![a] = c] EXCEPT ![d] = b]
           /\ SpliceBetween(m, l, a, b).prev = [[m.prev EXCEPT ![c] = a] EXCEPT ![b] = d]
<1> DEFINE j == SpliceBetween(m, l, a, b)
<1>1. /\ j \in Memory
      /\ j.next[a] = c /\ j.prev[c] = a
      /\ j.next[d] = b /\ j.prev[b] = d
      /\ \A n \in Nodes \ {a, d} : j.next[n] = m.next[n]
      /\ \A n \in Nodes \ {b, c} : j.prev[n] = m.prev[n]
    BY SpliceSets DEF Between
<1> HIDE DEF j
<1>2. /\ j.next = [[m.next EXCEPT ![a] = c] EXCEPT ![d] = b]
      /\ j.prev = [[m.prev EXCEPT ![c] = a] EXCEPT ![b] = d]
    BY <1>1, MemoryTypes
<1> QED BY <1>1, <1>2 DEF j

\* list_replace of a head that points to itself: the new head does so too.
LEMMA ReplaceEmptyIs ==
    ASSUME NEW m \in Memory, NEW old \in Nodes, NEW new \in Nodes,
           Between(m, old, old, old), old # new
    PROVE  list_replace(m, old, new) = INIT_LIST_HEAD(SetPrev(m, old, new), new)
<1> DEFINE m1 == SetNext(m, new, old)
           m2 == SetPrev(m1, old, new)
           m3 == SetPrev(m2, new, new)
           m4 == SetNext(m3, new, new)
           v == SetPrev(m, old, new)
           j == INIT_LIST_HEAD(v, new)
<1>1. m1 \in Memory /\ m1.next = [m.next EXCEPT ![new] = old] /\ m1.prev = m.prev
    BY NextSet
<1>2. m1.next[new] = old
    BY <1>1, MemoryTypes
<1> HIDE DEF m1
<1>3. m2 \in Memory /\ m2.prev = [m1.prev EXCEPT ![old] = new] /\ m2.next = m1.next
    <2>1. m1 \in Memory
        BY <1>1
    <2> QED BY <2>1, PrevSet
<1>4. m2.prev[old] = new
    BY <1>1, <1>3, MemoryTypes
<1> HIDE DEF m2
<1>5. m3 \in Memory /\ m3.prev = [m2.prev EXCEPT ![new] = new] /\ m3.next = m2.next
    <2>1. m2 \in Memory
        BY <1>3
    <2> QED BY <2>1, PrevSet
<1>6. m3.prev[new] = new
    BY <1>3, <1>5, MemoryTypes
<1> HIDE DEF m3
<1>7. m4 \in Memory /\ m4.next = [m3.next EXCEPT ![new] = new] /\ m4.prev = m3.prev
    <2>1. m3 \in Memory
        BY <1>5
    <2> QED BY <2>1, NextSet
<1>8. list_replace(m, old, new) = m4
    BY <1>2, <1>4, <1>6 DEF list_replace, m1, m2, m3, Between
<1> HIDE DEF m4
<1>9. v \in Memory /\ v.prev = [m.prev EXCEPT ![old] = new] /\ v.next = m.next
    BY PrevSet
<1> HIDE DEF v
<1>10. /\ j \in Memory /\ j.next = [v.next EXCEPT ![new] = new]
       /\ j.prev = [v.prev EXCEPT ![new] = new]
    <2>1. v \in Memory
        BY <1>9
    <2> QED BY <2>1, InitIs
<1> HIDE DEF j
<1>11. \A n \in Nodes : m4.next[n] = j.next[n] /\ m4.prev[n] = j.prev[n]
    BY <1>1, <1>3, <1>5, <1>7, <1>9, <1>10, MemoryTypes
<1>12. m4 = j
    <2>1. m4 \in Memory /\ j \in Memory
        BY <1>7, <1>10
    <2> QED BY <1>11, <2>1, SameMemory
<1> QED BY <1>8, <1>12 DEF j, v

\* list_replace of a head with a list: as if that list were spliced into the
\* new head, initialised before.
LEMMA ReplaceHeadIs ==
    ASSUME NEW m \in Memory, NEW old \in Nodes, NEW new \in Nodes,
           NEW a \in Nodes, NEW b \in Nodes, Between(m, old, a, b),
           old # new, b # old, a # new, b # new
    PROVE  list_replace(m, old, new) = SpliceBetween(INIT_LIST_HEAD(m, new), old, new, new)
<1> DEFINE r == list_replace(m, old, new)
           u == INIT_LIST_HEAD(m, new)
           i == SpliceBetween(u, old, new, new)
<1>1. /\ r \in Memory
      /\ r.next[a] = new /\ r.next[new] = b
      /\ r.prev[b] = new /\ r.prev[new] = a
      /\ \A n \in Nodes \ {a, new} : r.next[n] = m.next[n]
      /\ \A n \in Nodes \ {b, new} : r.prev[n] = m.prev[n]
    BY ReplaceSets DEF Between
<1> HIDE DEF r
<1>2. /\ u \in Memory /\ u.next = [m.next EXCEPT ![new] = new]
      /\ u.prev = [m.prev EXCEPT ![new] = new]
    BY InitIs
<1> HIDE DEF u
<1>3. Between(u, old, a, b)
    BY <1>2, MemoryTypes DEF Between
<1>4. /\ i \in Memory
      /\ i.next = [[u.next EXCEPT ![new] = b] EXCEPT ![a] = new]
      /\ i.prev = [[u.prev EXCEPT ![b] = new] EXCEPT ![new] = a]
    <2>1. u \in Memory
        BY <1>2
    <2> QED BY <1>3, <2>1, SpliceIs, SMTT(30)
<1> HIDE DEF i
<1>5. \A n \in Nodes : r.next[n] = i.next[n] /\ r.prev[n] = i.prev[n]
    BY <1>1, <1>2, <1>4, MemoryTypes
<1>6. r = i
    <2>1. r \in Memory /\ i \in Memory
        BY <1>1, <1>4
    <2> QED BY <1>5, <2>1, SameMemory
<1> QED BY <1>6 DEF r, i, u

\* A head takes the list of another one.
LEMMA TakenOver ==
    ASSUME NEW m, NEW q, NEW used, Holds(m, q, used),
           NEW old \in used, NEW new \in Heads, new # old, q[new] = <<>>
    PROVE  LET r2 == [q EXCEPT ![new] = q[old], ![old] = <<>>]
           IN  /\ Holds(list_replace(m, old, new), r2, (used \cup {new}) \ {old})
               /\ Holds(list_replace_init(m, old, new), r2, used \cup {new})
<1> DEFINE r == list_replace(m, old, new)
           r2 == [q EXCEPT ![new] = q[old], ![old] = <<>>]
           rest == (used \cup {new}) \ {old}
<1>1. /\ Holds(m, q, used) /\ q[new] = <<>> /\ new # old
      /\ old \in Heads /\ old \in Nodes /\ new \in Nodes /\ m \in Memory
      /\ q[old] \in Seq(Entries) /\ Ring(m, old, q[old])
      /\ q \in [Heads -> Seq(Entries)]
    BY ListsTypes DEF Holds, Lists, Nodes
<1>2. Holds(r, r2, rest)
    <2>1. CASE q[old] = <<>>
        <3>1. Between(m, old, old, old)
            BY <1>1, <2>1, Neighbours DEF Between, NodeAt
        <3>2. r = INIT_LIST_HEAD(SetPrev(m, old, new), new)
            BY <1>1, <3>1, ReplaceEmptyIs
        <3> DEFINE v == SetPrev(m, old, new)
        <3>3. v \in Memory /\ v.prev = [m.prev EXCEPT ![old] = new] /\ v.next = m.next
            BY <1>1, PrevSet
        <3>4. \A n \in Nodes \ {old} : v.next[n] = m.next[n] /\ v.prev[n] = m.prev[n]
            BY <1>1, <3>3, MemoryTypes
        <3>5. Holds(m, q, used \ {old})
            BY <1>1, <2>1, Dropped
        <3> HIDE DEF v
        <3>6. Holds(v, q, used \ {old})
            BY <1>1, <3>3, <3>4, <3>5, FreeHeadTouched
        <3>7. Holds(INIT_LIST_HEAD(v, new), q, (used \ {old}) \cup {new})
            BY <1>1, <3>6, InitialisedHead
        <3>8. r2 = q /\ rest = (used \ {old}) \cup {new}
            BY <1>1, <2>1
        <3> QED BY <3>2, <3>7, <3>8 DEF v
    <2>2. CASE q[old] # <<>>
        <3> DEFINE u == INIT_LIST_HEAD(m, new)
        <3>1. Len(q[old]) \in Nat /\ Len(q[old]) > 0
            BY <1>1, <2>2
        <3>2. Holds(u, q, used \cup {new})
            BY <1>1, InitialisedHead
        <3>3. NodeAt(new, q[new], 0) = new /\ NodeAt(new, q[new], 0 + 1) = new
            BY <1>1 DEF NodeAt
        <3>4. Wedged(q[old], q[new], q[old], 0) /\ 0 \in 0 .. Len(q[new])
            BY <1>1, <3>1 DEF Wedged
        <3> HIDE DEF u
        <3>5. Holds(SpliceBetween(u, old, NodeAt(new, q[new], 0), NodeAt(new, q[new], 0 + 1)),
                    [q EXCEPT ![new] = q[old], ![old] = <<>>], (used \cup {new}) \ {old})
            <4>1. old \in used \cup {new} /\ new \in used \cup {new}
                OBVIOUS
            <4> QED BY <1>1, <3>1, <3>2, <3>4, <4>1, Spliced
        <3> DEFINE a == NodeAt(old, q[old], Len(q[old]))
                   b == NodeAt(old, q[old], 1)
        <3>6. Between(m, old, a, b)
            BY <1>1, Neighbours DEF Between
        <3>7. a \in Entries /\ b \in Entries
            BY <1>1, <3>1 DEF NodeAt
        <3> HIDE DEF a, b
        <3>8. /\ a \in Nodes /\ b \in Nodes
              /\ b # old /\ a # new /\ b # new
            BY <1>1, <3>7, NodesAssumption DEF Nodes
        <3>9. r = SpliceBetween(u, old, new, new)
            BY <1>1, <3>6, <3>8, ReplaceHeadIs DEF u
        <3> QED BY <3>3, <3>5, <3>9
    <2> QED BY <2>1, <2>2
<1>3. Holds(list_replace_init(m, old, new), r2, used \cup {new})
    <2>1. r2[old] = <<>> /\ rest \cup {old} = used \cup {new}
        BY <1>1
    <2> HIDE DEF r, r2, rest
    <2>2. Holds(INIT_LIST_HEAD(r, old), r2, rest \cup {old})
        BY <1>1, <1>2, <2>1, InitialisedHead
    <2> QED BY <2>1, <2>2 DEF list_replace_init, r
<1> QED BY <1>2, <1>3

\* TakeOver.
LEMMA TakeOverKeeps ==
    ASSUME Inv, NEW old \in live, NEW new \in Heads, TakeOver(old, new)
    PROVE  Inv'
<1>1. Holds(mem, seq, live) /\ seq[new] = <<>> /\ new # old
    BY InvTypes DEF Inv, Lists, TakeOver, Losable
<1> DEFINE q == [seq EXCEPT ![new] = seq[old], ![old] = <<>>]
<1>2. /\ Holds(list_replace(mem, old, new), q, (live \cup {new}) \ {old})
      /\ Holds(list_replace_init(mem, old, new), q, live \cup {new})
    BY <1>1, TakenOver
<1>3. /\ seq' = q
      /\ \/ mem' = list_replace(mem, old, new) /\ live' = (live \cup {new}) \ {old}
         \/ mem' = list_replace_init(mem, old, new) /\ live' = live \cup {new}
    BY DEF TakeOver
<1> HIDE DEF q
<1> QED BY <1>2, <1>3 DEF Inv

\* BulkMove.
LEMMA BulkMoveKeeps ==
    ASSUME Inv, NEW h \in live, NEW i \in DOMAIN seq[h], NEW j \in DOMAIN seq[h],
           i <= j, BulkMove(h, i, j)
    PROVE  Inv'
<1> DEFINE x == seq[h]
           N == Len(x)
           u == SubSeq(x, 1, i - 1)
           v == SubSeq(x, j + 1, N)
           w == SubSeq(x, i, j)
           s == u \o v \o w
<1>1. /\ Holds(mem, seq, live) /\ x \in Seq(Entries) /\ N \in Nat
      /\ i \in 1 .. N /\ j \in 1 .. N /\ i <= j
    BY InvTypes DEF Inv
<1> HIDE DEF x
<1>2. u \in Seq(Entries) /\ Len(u) = i - 1 /\ \A k \in 1 .. i - 1 : u[k] = x[k]
    BY <1>1
<1>3. v \in Seq(Entries) /\ Len(v) = N - j /\ \A k \in 1 .. N - j : v[k] = x[j + k]
    BY <1>1
<1>4. w \in Seq(Entries) /\ Len(w) = j - i + 1 /\ \A k \in 1 .. j - i + 1 : w[k] = x[(i - 1) + k]
    BY <1>1
<1> HIDE DEF u, v, w, N
<1>5. /\ s \in Seq(Entries) /\ Len(s) = N
      /\ \A k \in 1 .. N : s[k] = IF k <= Len(u) THEN u[k]
                                  ELSE IF k <= Len(u) + Len(v) THEN v[k - Len(u)]
                                  ELSE w[k - Len(u) - Len(v)]
    <2>1. u \in Seq(Entries) /\ v \in Seq(Entries) /\ w \in Seq(Entries)
        BY <1>2, <1>3, <1>4
    <2>2. /\ s \in Seq(Entries) /\ Len(s) = Len(u) + Len(v) + Len(w)
          /\ \A k \in 1 .. Len(u) + Len(v) + Len(w) :
                s[k] = IF k <= Len(u) THEN u[k]
                       ELSE IF k <= Len(u) + Len(v) THEN v[k - Len(u)]
                       ELSE w[k - Len(u) - Len(v)]
        BY <2>1
    <2>3. Len(u) + Len(v) + Len(w) = N
        BY <1>1, <1>2, <1>3, <1>4
    <2> QED BY <2>2, <2>3
<1> HIDE DEF s
<1>6. \A k \in 1 .. N : s[k] = IF k < i THEN x[k]
                               ELSE IF k <= N - (j - i + 1) THEN x[k + (j - i + 1)]
                               ELSE x[k - (N - j)]
    <2>1. SUFFICES ASSUME NEW k \in 1 .. N
                   PROVE  s[k] = IF k < i THEN x[k]
                                 ELSE IF k <= N - (j - i + 1) THEN x[k + (j - i + 1)]
                                 ELSE x[k - (N - j)]
        OBVIOUS
    <2>2. CASE k < i
        <3>1. k <= i - 1 /\ k \in 1 .. i - 1
            BY <1>1, <2>2
        <3> QED BY <1>2, <1>5, <2>2, <3>1
    <2>3. CASE ~ k < i /\ k <= N - (j - i + 1)
        <3>1. /\ ~ k <= i - 1 /\ k <= (i - 1) + (N - j)
              /\ k - (i - 1) \in 1 .. N - j /\ j + (k - (i - 1)) = k + (j - i + 1)
            BY <1>1, <2>3
        <3> QED BY <1>2, <1>3, <1>5, <2>3, <3>1
    <2>4. CASE ~ k < i /\ ~ k <= N - (j - i + 1)
        <3>1. /\ ~ k <= i - 1 /\ ~ k <= (i - 1) + (N - j)
              /\ k - (i - 1) - (N - j) \in 1 .. j - i + 1
              /\ (i - 1) + (k - (i - 1) - (N - j)) = k - (N - j)
            BY <1>1, <2>4
        <3> QED BY <1>2, <1>3, <1>4, <1>5, <2>4, <3>1
    <2> QED BY <2>2, <2>3, <2>4
<1>7. Rotated(s, seq[h], i, j)
    BY <1>5, <1>6 DEF Rotated, N, x
<1>8. Holds(list_bulk_move_tail(mem, h, seq[h][i], seq[h][j]), [seq EXCEPT ![h] = s], live)
    <2>1. i \in 1 .. Len(seq[h]) /\ j \in 1 .. Len(seq[h])
        BY <1>1 DEF N, x
    <2> QED BY <1>1, <1>5, <1>7, <2>1, BulkMoved
<1> QED BY <1>8 DEF Inv, BulkMove, s, u, v, w, x, N

\* Rotate.
LEMMA RotateKeeps ==
    ASSUME Inv, NEW h \in live, Rotate(h)
    PROVE  Inv'
<1>1. /\ Holds(mem, seq, live) /\ h \in Heads /\ seq[h] \in Seq(Entries)
      /\ Ring(mem, h, seq[h]) /\ mem \in Memory /\ seq \in [Heads -> Seq(Entries)]
    BY InvTypes DEF Inv
<1>2. CASE seq[h] = <<>>
    <2>1. mem' = mem
        BY <1>2, Emptiness DEF Rotate, list_rotate_left
    <2>2. seq' = seq /\ live' = live
        BY <1>1, <1>2 DEF Rotate
    <2> QED BY <1>1, <2>1, <2>2 DEF Inv
<1>3. CASE seq[h] # <<>>
    <2> DEFINE s == Tail(seq[h])
               e == seq[h][1]
               q == [seq EXCEPT ![h] = s]
    <2>1. /\ Len(seq[h]) \in Nat /\ 1 \in 1 .. Len(seq[h])
          /\ s \in Seq(Entries) /\ Len(s) = Len(seq[h]) - 1
          /\ \A i \in 1 .. Len(seq[h]) - 1 : s[i] = IF i < 1 THEN seq[h][i] ELSE seq[h][i + 1]
        BY <1>1, <1>3
    <2>2. Head(seq[h]) = e
        OBVIOUS
    <2>3. mem.next[h] = e
        BY <1>1, <2>1, Neighbours DEF NodeAt
    <2>4. s = RemoveAt(seq[h], 1)
        <3> DEFINE x == seq[h]
                   y == RemoveAt(x, 1)
        <3>1. x \in Seq(Entries) /\ 1 \in 1 .. Len(x)
            BY <1>1, <2>1
        <3> HIDE DEF x
        <3>2. /\ y \in Seq(Entries) /\ Len(y) = Len(x) - 1
              /\ \A i \in 1 .. Len(x) - 1 : y[i] = IF i < 1 THEN x[i] ELSE x[i + 1]
            BY <3>1, RemovedAt
        <3> HIDE DEF y, s
        <3>3. Len(s) = Len(y) /\ \A i \in 1 .. Len(y) : s[i] = y[i]
            BY <2>1, <3>2 DEF x
        <3>4. s = y
            BY <2>1, <3>2, <3>3
        <3> QED BY <3>4 DEF x, y
    <2> HIDE DEF s
    <2>5. Holds(Unlink(mem, e), q, live)
        BY <1>1, <2>1, Unlinked
    <2>6. e \in Entries /\ e \notin On(q)
        <3>1. /\ Without(seq[h][1]) = [seq EXCEPT ![h] = RemoveAt(seq[h], 1)]
              /\ seq[h][1] \notin On(Without(seq[h][1]))
            BY <1>1, <2>1, InvTypes, WithoutIs
        <3> QED BY <1>1, <2>1, <2>4, <3>1
    <2>7. q[h] = s
        BY <1>1
    <2>8. Holds(list_add_tail(Unlink(mem, e), e, h), [q EXCEPT ![h] = Append(q[h], e)], live)
        <3> HIDE DEF e, q
        <3> QED BY <2>5, <2>6, Added
    <2>9. mem' = list_add_tail(Unlink(mem, e), e, h)
        BY <1>3, <2>3, Emptiness DEF Rotate, list_rotate_left, list_move_tail
    <2>10. seq' = [q EXCEPT ![h] = Append(q[h], e)] /\ live' = live
        BY <1>1, <1>3, <2>2, <2>7 DEF Rotate, s
    <2> QED BY <2>8, <2>9, <2>10 DEF Inv
<1> QED BY <1>2, <1>3

\* Splice.
LEMMA SpliceKeeps ==
    ASSUME Inv, NEW h \in live, NEW l \in live, Splice(l, h)
    PROVE  Inv'
<1> DEFINE p == [seq EXCEPT ![h] = seq[l] \o seq[h], ![l] = <<>>]
           t == [seq EXCEPT ![h] = seq[h] \o seq[l], ![l] = <<>>]
<1>1. /\ Holds(mem, seq, live) /\ h \in Heads /\ seq[h] \in Seq(Entries)
      /\ l \in Heads /\ seq[l] \in Seq(Entries) /\ l # h
      /\ Len(seq[h]) \in Nat /\ Len(seq[l]) \in Nat
      /\ Ring(mem, h, seq[h]) /\ mem \in Memory /\ seq \in [Heads -> Seq(Entries)]
    BY InvTypes DEF Inv, Splice
<1>2. CASE seq[l] = <<>>
    <2>1. p = seq /\ t = seq
        BY <1>1, <1>2
    <2>2. mem' = mem
        BY <1>2, Emptiness
           DEF Splice, list_splice, list_splice_tail, list_splice_init, list_splice_tail_init
    <2>3. live' = live
        BY <1>2 DEF Splice
    <2>4. seq' = p \/ seq' = t
        BY DEF Splice
    <2> QED BY <1>1, <2>1, <2>2, <2>3, <2>4 DEF Inv
<1>3. CASE seq[l] # <<>>
    <2> DEFINE N == Len(seq[h])
    <2>1. /\ mem.next[h] = NodeAt(h, seq[h], 1) /\ mem.prev[h] = NodeAt(h, seq[h], N)
          /\ NodeAt(h, seq[h], 0) = h /\ NodeAt(h, seq[h], N + 1) = h /\ 0 + 1 = 1
          /\ Len(seq[l]) > 0
        <3>1. NodeAt(h, seq[h], 0) = h /\ NodeAt(h, seq[h], N + 1) = h
            BY <1>1 DEF NodeAt
        <3>2. Len(seq[l]) > 0
            BY <1>1, <1>3
        <3> QED BY <1>1, <3>1, <3>2, Neighbours
    <2>2. list_splice(mem, l, h) = SpliceBetween(mem, l, NodeAt(h, seq[h], 0), NodeAt(h, seq[h], 0 + 1))
        BY <1>3, <2>1, Emptiness DEF list_splice
    <2>3. list_splice_tail(mem, l, h) = SpliceBetween(mem, l, NodeAt(h, seq[h], N), NodeAt(h, seq[h], N + 1))
        BY <1>3, <2>1, Emptiness DEF list_splice_tail
    <2>4. Holds(list_splice(mem, l, h), p, live \ {l})
        <3> DEFINE s == seq[l] \o seq[h]
        <3>1. s \in Seq(Entries) /\ Wedged(s, seq[h], seq[l], 0) /\ 0 \in 0 .. Len(seq[h])
            BY <1>1 DEF Wedged
        <3> HIDE DEF s
        <3>2. Holds(SpliceBetween(mem, l, NodeAt(h, seq[h], 0), NodeAt(h, seq[h], 0 + 1)),
                    [seq EXCEPT ![h] = s, ![l] = <<>>], live \ {l})
            BY <1>1, <2>1, <3>1, Spliced
        <3> QED BY <2>2, <3>2 DEF s
    <2>5. Holds(list_splice_tail(mem, l, h), t, live \ {l})
        <3> DEFINE s == seq[h] \o seq[l]
        <3>1. s \in Seq(Entries) /\ Wedged(s, seq[h], seq[l], N) /\ N \in 0 .. Len(seq[h])
            BY <1>1 DEF Wedged
        <3> HIDE DEF s, N
        <3>2. Holds(SpliceBetween(mem, l, NodeAt(h, seq[h], N), NodeAt(h, seq[h], N + 1)),
                    [seq EXCEPT ![h] = s, ![l] = <<>>], live \ {l})
            BY <1>1, <2>1, <3>1, Spliced
        <3> QED BY <2>3, <3>2 DEF s
    <2>6. p[l] = <<>> /\ t[l] = <<>> /\ (live \ {l}) \cup {l} = live
        BY <1>1
    <2>7. Holds(list_splice_init(mem, l, h), p, live)
        <3>1. list_splice_init(mem, l, h) = INIT_LIST_HEAD(list_splice(mem, l, h), l)
            BY <1>3, Emptiness DEF list_splice_init
        <3> HIDE DEF p
        <3>2. Holds(INIT_LIST_HEAD(list_splice(mem, l, h), l), p, (live \ {l}) \cup {l})
            BY <1>1, <2>4, <2>6, InitialisedHead
        <3> QED BY <2>6, <3>1, <3>2
    <2>8. Holds(list_splice_tail_init(mem, l, h), t, live)
        <3>1. list_splice_tail_init(mem, l, h) = INIT_LIST_HEAD(list_splice_tail(mem, l, h), l)
            BY <1>3, Emptiness DEF list_splice_tail_init
        <3> HIDE DEF t
        <3>2. Holds(INIT_LIST_HEAD(list_splice_tail(mem, l, h), l), t, (live \ {l}) \cup {l})
            BY <1>1, <2>5, <2>6, InitialisedHead
        <3> QED BY <2>6, <3>1, <3>2
    <2>9. \/ mem' = list_splice(mem, l, h) /\ seq' = p /\ live' = live \ {l}
          \/ mem' = list_splice_tail(mem, l, h) /\ seq' = t /\ live' = live \ {l}
          \/ mem' = list_splice_init(mem, l, h) /\ seq' = p /\ live' = live
          \/ mem' = list_splice_tail_init(mem, l, h) /\ seq' = t /\ live' = live
        BY <1>3 DEF Splice
    <2> HIDE DEF p, t
    <2> QED BY <2>4, <2>5, <2>7, <2>8, <2>9 DEF Inv
<1> QED BY <1>2, <1>3

\* The nodes of a list that is cut, and what the two halves hold.
LEMMA CutParts ==
    ASSUME Inv, NEW h \in live, NEW l \in Losable \ {h}, NEW i \in 0 .. Len(seq[h])
    PROVE  /\ Holds(mem, seq, live) /\ h \in Heads /\ l \in Heads /\ seq[l] = <<>>
           /\ i = 0 => Handed(l, h, i) = seq
           /\ i # 0 => Halves(seq[h], i, SubSeq(seq[h], 1, i), SubSeq(seq[h], i + 1, Len(seq[h])))
           /\ SubSeq(seq[h], 1, i) \in Seq(Entries)
           /\ SubSeq(seq[h], i + 1, Len(seq[h])) \in Seq(Entries)
<1>1. /\ Holds(mem, seq, live) /\ h \in Heads /\ l \in Heads /\ seq[l] = <<>>
      /\ seq \in [Heads -> Seq(Entries)] /\ seq[h] \in Seq(Entries) /\ Len(seq[h]) \in Nat
    BY InvTypes DEF Inv, Lists, Losable
<1>2. ASSUME i = 0 PROVE Handed(l, h, i) = seq
    <2>1. SubSeq(seq[h], 1, 0) = <<>> /\ SubSeq(seq[h], 0 + 1, Len(seq[h])) = seq[h]
        BY <1>1
    <2> QED BY <1>1, <1>2, <2>1 DEF Handed
<1>3. SubSeq(seq[h], 1, i) \in Seq(Entries) /\ SubSeq(seq[h], i + 1, Len(seq[h])) \in Seq(Entries)
    BY <1>1
<1>4. ASSUME i # 0
      PROVE  Halves(seq[h], i, SubSeq(seq[h], 1, i), SubSeq(seq[h], i + 1, Len(seq[h])))
    BY <1>1, <1>4 DEF Halves
<1> QED BY <1>1, <1>2, <1>3, <1>4

\* The nodes at which h is cut.
LEMMA CutNodes ==
    ASSUME Inv, NEW h \in live, NEW l \in Losable \ {h}, NEW i \in 1 .. Len(seq[h])
    PROVE  LET x == NodeAt(h, seq[h], 1)
               e == NodeAt(h, seq[h], i)
               y == NodeAt(h, seq[h], i + 1)
           IN  /\ x \in Nodes /\ e \in Nodes /\ y \in Nodes /\ h \in Nodes /\ l \in Nodes
               /\ e = seq[h][i]
               /\ mem.next[h] = x /\ mem.next[e] = y /\ mem.prev[y] = e
               /\ l # h /\ l # e /\ l # x /\ l # y /\ h # e /\ x # y
<1>1. /\ h \in Heads /\ l \in Heads /\ l # h /\ mem \in Memory /\ Lists(seq, live)
      /\ seq[h] \in Seq(Entries) /\ Len(seq[h]) \in Nat /\ Ring(mem, h, seq[h])
    BY InvTypes DEF Losable
<1>2. \A j \in Int : NodeAt(h, seq[h], j) \in Nodes /\ NodeAt(h, seq[h], j) # l
    <2>1. \A j \in Int : NodeAt(h, seq[h], j) \in Nodes
        BY <1>1, Neighbours
    <2>2. \A j \in Int : NodeAt(h, seq[h], j) \in Entries \cup {h}
        BY <1>1 DEF NodeAt
    <2>3. l \notin Entries
        BY <1>1, NodesAssumption
    <2> QED BY <1>1, <2>1, <2>2, <2>3
<1>3. NodeAt(h, seq[h], i) = seq[h][i]
    BY DEF NodeAt
<1>4. /\ 1 \in Int /\ i \in Int /\ i + 1 \in Int /\ i \in 0 .. Len(seq[h])
      /\ 1 \in 1 .. Len(seq[h]) + 1 /\ i + 1 \in 1 .. Len(seq[h]) + 1 /\ 1 # i + 1
    BY <1>1
<1>5. mem.next[h] = NodeAt(h, seq[h], 1)
    BY <1>1, Neighbours
<1>6. mem.next[NodeAt(h, seq[h], i)] = NodeAt(h, seq[h], i + 1) /\ mem.prev[NodeAt(h, seq[h], i + 1)] = NodeAt(h, seq[h], i)
    BY <1>1, <1>4 DEF Ring
<1>7. NodeAt(h, seq[h], 1) # NodeAt(h, seq[h], i + 1)
    BY <1>1, <1>4, Distinct
<1>8. h # seq[h][i]
    BY <1>1, NodesAssumption
<1>9. h \in Nodes /\ l \in Nodes
    BY <1>1 DEF Nodes
<1> QED BY <1>1, <1>2, <1>3, <1>4, <1>5, <1>6, <1>7, <1>8, <1>9

\* CutPosition.
LEMMA CutPositionKeeps ==
    ASSUME Inv, NEW h \in live, NEW l \in Heads, NEW i \in 0 .. Len(seq[h]),
           CutPosition(l, h, i)
    PROVE  Inv'
<1>1. l \in Losable \ {h}
    BY DEF CutPosition
<1>2. /\ Holds(mem, seq, live) /\ h \in Heads /\ seq[l] = <<>>
      /\ seq[h] \in Seq(Entries) /\ Len(seq[h]) \in Nat /\ mem \in Memory
    BY <1>1, CutParts, InvTypes
<1>3. CASE i = 0
    <2>1. seq' = seq
        BY <1>1, <1>3, CutParts DEF CutPosition
    <2>2. CASE list_empty(mem, h)
        <3>1. mem' = mem
            BY <1>3, <2>2 DEF CutPosition, list_cut_position, CutsNothing
        <3>2. live' = live
            BY <2>2, Emptiness DEF CutPosition
        <3> QED BY <1>2, <2>1, <3>1, <3>2 DEF Inv
    <2>3. CASE ~ list_empty(mem, h)
        <3>1. mem' = INIT_LIST_HEAD(mem, l)
            BY <1>3, <2>3 DEF CutPosition, list_cut_position, CutsNothing
        <3>2. live' = live \cup {l}
            BY <2>3, Emptiness DEF CutPosition
        <3>3. Holds(INIT_LIST_HEAD(mem, l), seq, live \cup {l})
            BY <1>2, InitialisedHead
        <3> QED BY <2>1, <3>1, <3>2, <3>3 DEF Inv
    <2> QED BY <2>2, <2>3
<1>4. CASE i # 0
    <2> DEFINE x == NodeAt(h, seq[h], 1)
               e == NodeAt(h, seq[h], i)
               y == NodeAt(h, seq[h], i + 1)
               t == SubSeq(seq[h], 1, i)
               u == SubSeq(seq[h], i + 1, Len(seq[h]))
    <2>1. i \in 1 .. Len(seq[h])
        BY <1>2, <1>4
    <2>2. /\ x \in Nodes /\ e \in Nodes /\ y \in Nodes /\ h \in Nodes /\ l \in Nodes
          /\ e = seq[h][i]
          /\ mem.next[h] = x /\ mem.next[e] = y
          /\ l # h /\ l # e /\ l # x /\ l # y /\ h # e /\ x # y
        BY <1>1, <2>1, CutNodes
    <2>3. Cut(mem, l, h, e) \in Memory /\ CutOut(mem, Cut(mem, l, h, e), l, h, x, e, y)
        <3> HIDE DEF x, e, y
        <3> QED BY <1>2, <2>2, CutSets
    <2>4. Halves(seq[h], i, t, u) /\ t \in Seq(Entries) /\ u \in Seq(Entries)
        BY <1>1, <1>4, CutParts
    <2>5. Holds(Cut(mem, l, h, e), [seq EXCEPT ![l] = t, ![h] = u], live \cup {l})
        <3> HIDE DEF t, u
        <3> QED BY <1>2, <2>1, <2>2, <2>3, <2>4, HandedOver
    <2>6. seq[h] # <<>> /\ ~ list_empty(mem, h)
        BY <1>2, <2>1, Emptiness
    <2>7. ~ (list_is_singular(mem, h) /\ mem.next[h] # e /\ h # e)
        <3>1. SUFFICES ASSUME list_is_singular(mem, h), x # e PROVE FALSE
            BY <2>2
        <3>2. mem.prev[h] = NodeAt(h, seq[h], Len(seq[h])) /\ Ring(mem, h, seq[h])
            BY <1>2, InvTypes, Neighbours
        <3>3. x = NodeAt(h, seq[h], Len(seq[h]))
            BY <2>2, <3>1, <3>2 DEF list_is_singular
        <3>4. 1 \in 0 .. Len(seq[h]) /\ Len(seq[h]) \in 0 .. Len(seq[h])
            BY <1>2, <2>1
        <3>5. Lists(seq, live)
            BY InvTypes
        <3>6. Len(seq[h]) = 1
            BY <1>2, <3>3, <3>4, <3>5, Distinct, ZenonT(30)
        <3>7. i = 1
            BY <2>1, <3>6
        <3> QED BY <3>1, <3>7
    <2>8. mem' = Cut(mem, l, h, e)
        BY <1>4, <2>2, <2>6, <2>7 DEF CutPosition, list_cut_position, CutsNothing
    <2>9. seq' = [seq EXCEPT ![l] = t, ![h] = u] /\ live' = live \cup {l}
        BY <2>6 DEF CutPosition, Handed
    <2> QED BY <2>5, <2>8, <2>9 DEF Inv
<1> QED BY <1>3, <1>4

\* CutBefore.
LEMMA CutBeforeKeeps ==
    ASSUME Inv, NEW h \in live, NEW l \in Heads, NEW i \in 0 .. Len(seq[h]),
           CutBefore(l, h, i)
    PROVE  Inv'
<1> DEFINE entry == IF i = Len(seq[h]) THEN h ELSE seq[h][i + 1]
<1>1. l \in Losable \ {h}
    BY DEF CutBefore
<1>2. /\ Holds(mem, seq, live) /\ h \in Heads /\ seq[l] = <<>>
      /\ seq[h] \in Seq(Entries) /\ Len(seq[h]) \in Nat /\ mem \in Memory
      /\ Ring(mem, h, seq[h])
    BY <1>1, CutParts, InvTypes
<1>3. entry = NodeAt(h, seq[h], i + 1)
    BY <1>2 DEF NodeAt
<1>4. mem' = list_cut_before(mem, l, h, entry) /\ live' = live \cup {l}
    BY DEF CutBefore
<1>5. mem.next[h] = NodeAt(h, seq[h], 1)
    BY <1>2, Neighbours
<1> HIDE DEF entry
<1>6. CASE i = 0
    <2>1. seq' = seq
        BY <1>1, <1>6, CutParts DEF CutBefore
    <2>2. mem' = INIT_LIST_HEAD(mem, l)
        BY <1>3, <1>4, <1>5, <1>6 DEF list_cut_before
    <2>3. Holds(INIT_LIST_HEAD(mem, l), seq, live \cup {l})
        BY <1>2, InitialisedHead
    <2> QED BY <1>4, <2>1, <2>2, <2>3 DEF Inv
<1>7. CASE i # 0
    <2> DEFINE x == NodeAt(h, seq[h], 1)
               e == NodeAt(h, seq[h], i)
               y == NodeAt(h, seq[h], i + 1)
               t == SubSeq(seq[h], 1, i)
               u == SubSeq(seq[h], i + 1, Len(seq[h]))
    <2>1. i \in 1 .. Len(seq[h])
        BY <1>2, <1>7
    <2>2. /\ x \in Nodes /\ e \in Nodes /\ y \in Nodes /\ h \in Nodes /\ l \in Nodes
          /\ mem.next[h] = x /\ mem.prev[y] = e
          /\ l # h /\ l # e /\ l # x /\ l # y /\ h # e /\ x # y
        BY <1>1, <2>1, CutNodes
    <2>3. /\ list_cut_before(mem, l, h, y) \in Memory
          /\ CutOut(mem, list_cut_before(mem, l, h, y), l, h, x, e, y)
        <3> HIDE DEF x, e, y
        <3> QED BY <1>2, <2>2, CutBeforeSets
    <2>4. Halves(seq[h], i, t, u) /\ t \in Seq(Entries) /\ u \in Seq(Entries)
        BY <1>1, <1>7, CutParts
    <2>5. Holds(list_cut_before(mem, l, h, y), [seq EXCEPT ![l] = t, ![h] = u], live \cup {l})
        <3> HIDE DEF t, u
        <3> QED BY <1>2, <2>1, <2>2, <2>3, <2>4, HandedOver
    <2>6. seq' = [seq EXCEPT ![l] = t, ![h] = u]
        BY DEF CutBefore, Handed
    <2> QED BY <1>3, <1>4, <2>5, <2>6 DEF Inv
<1> QED BY <1>6, <1>7
-----------------------------------------------------------------------------
(***************************************************************************)
(* The theorem.                                                            *)
(***************************************************************************)
\* Nothing is in use at the start.
LEMMA InitInv == Init => Inv
<1> SUFFICES ASSUME Init PROVE Inv
    OBVIOUS
<1>1. mem \in Memory
    BY DEF Init, Memory
<1>2. seq = [h \in Heads |-> <<>>] /\ live = {}
    BY DEF Init
<1>3. seq \in [Heads -> Seq(Entries)] /\ \A h \in Heads : Len(seq[h]) = 0
    BY <1>2
<1>4. OnceEach(seq)
    BY <1>3 DEF OnceEach
<1> QED BY <1>1, <1>2, <1>3, <1>4 DEF Inv, Holds, Lists

\* Every operation keeps the lists.
LEMMA NextInv == Inv /\ [Next]_vars => Inv'
<1> SUFFICES ASSUME Inv, [Next]_vars PROVE Inv'
    OBVIOUS
<1>1. CASE \E h \in Heads : InitHead(h)
    BY <1>1, InitHeadKeeps
<1>2. CASE \E e \in Entries : Delete(e)
    BY <1>2, DeleteKeeps
<1>3. CASE \E e, new \in Entries : Replace(e, new)
    BY <1>3, ReplaceKeeps
<1>4. ASSUME NEW h \in live, Rotate(h) PROVE Inv'
    BY <1>4, RotateKeeps
<1>5. ASSUME NEW h \in live, NEW e \in Entries, Add(e, h) \/ Move(e, h) PROVE Inv'
    BY <1>5, AddKeeps, MoveKeeps
<1>6. ASSUME NEW h \in live, NEW new \in Heads, TakeOver(h, new) PROVE Inv'
    BY <1>6, TakeOverKeeps
<1>7. ASSUME NEW h \in live, NEW i \in DOMAIN seq[h], NEW j \in DOMAIN seq[h],
             i <= j, BulkMove(h, i, j)
      PROVE  Inv'
    BY <1>7, BulkMoveKeeps
<1>8. ASSUME NEW h \in live, NEW l \in Heads, NEW i \in 0 .. Len(seq[h]),
             CutPosition(l, h, i) \/ CutBefore(l, h, i)
      PROVE  Inv'
    BY <1>8, CutPositionKeeps, CutBeforeKeeps
<1>9. ASSUME NEW h \in live, NEW l \in live, Splice(l, h) PROVE Inv'
    BY <1>9, SpliceKeeps
<1>10. CASE UNCHANGED vars
    BY <1>10 DEF Inv, vars
<1> QED BY <1>1, <1>2, <1>3, <1>4, <1>5, <1>6, <1>7, <1>8, <1>9, <1>10 DEF Next

\* The invariant says what the run checks.
LEMMA InvImplies == Inv => ListInv
<1> SUFFICES ASSUME Inv PROVE ListInv
    OBVIOUS
<1>1. TypeOK
    BY InvTypes DEF TypeOK, Memory
<1>2. \A h \in live : IsRing(mem, h, seq[h])
    BY InvTypes, RingIs
<1> QED BY <1>1, <1>2 DEF ListInv, Rings

\* For any heads and entries and any sequence of calls that list.h allows, the
\* functions of src/uki/list.h keep every list in use a ring, forwards and
\* backwards, of the caller's entries in the caller's order.
THEOREM ListInvariance == Spec => []ListInv
<1>1. Init => Inv
    BY InitInv
<1>2. Inv /\ [Next]_vars => Inv'
    BY NextInv
<1>3. Inv => ListInv
    BY InvImplies
<1> QED BY <1>1, <1>2, <1>3, PTL DEF Spec
-----------------------------------------------------------------------------
(***************************************************************************)
(* The hash-table lists.                                                   *)
(***************************************************************************)
HMemory == [cell : [Cells -> Elems \cup {NULL, LIST_POISON1}],
            pprev : [Elems -> Cells \cup {NULL, LIST_POISON2}]]

\* The pointer that leads on from the i-th element of h and s, or from h.
CellAt(h, s, i) == IF i \in 1 .. Len(s) THEN NextOf(s[i]) ELSE First(h)

\* The i-th element of s, or NULL behind its last.
ElemAt(s, i) == IF i \in 1 .. Len(s) THEN s[i] ELSE NULL

\* The pointers of h and s, one by one.
Chain(m, h, s) ==
    /\ \A i \in 0 .. Len(s) : m.cell[CellAt(h, s, i)] = ElemAt(s, i + 1)
    /\ \A i \in 1 .. Len(s) : m.pprev[s[i]] = CellAt(h, s, i - 1)

\* No element is on two lists, or twice on one.
HOnceEach(q) ==
    \A g, h \in HHeads : \A i \in 1 .. Len(q[g]), j \in 1 .. Len(q[h]) :
        q[g][i] = q[h][j] => g = h /\ i = j

\* The elements that are on some list.
HOn(q) == UNION {{q[h][i] : i \in 1 .. Len(q[h])} : h \in HHeads}

\* Lists of elements, and fakes that are on none.
HLists(q, some) ==
    /\ q \in [HHeads -> Seq(Elems)]
    /\ some \subseteq Elems \ HOn(q)
    /\ HOnceEach(q)

\* Memory m holds the lists q; the elements of some are fakes and the others
\* look unhashed or deleted.
HHolds(m, q, some) ==
    /\ m \in HMemory
    /\ HLists(q, some)
    /\ \A h \in HHeads : Chain(m, h, q[h])
    /\ \A n \in some : m.cell[NextOf(n)] = NULL /\ m.pprev[n] = NextOf(n)
    /\ \A n \in Elems \ (HOn(q) \cup some) : m.pprev[n] \in {NULL, LIST_POISON2}

\* The inductive invariant.
HInv == HHolds(hmem, hseq, fakes)
-----------------------------------------------------------------------------
(***************************************************************************)
(* Pointers and chains.                                                    *)
(***************************************************************************)
\* Two pointers are the same cell only when they belong to the same node.
LEMMA CellsApart ==
    /\ \A g, h : First(g) = First(h) => g = h
    /\ \A x, y : NextOf(x) = NextOf(y) => x = y
    /\ \A h, x : First(h) # NextOf(x)
    /\ \A h \in HHeads : First(h) \in Cells
    /\ \A n \in Elems : NextOf(n) \in Cells
    /\ NULL \notin Cells /\ LIST_POISON2 \notin Cells /\ NULL \notin Elems
<1>1. /\ \A g, h : First(g) = First(h) => g = h
      /\ \A x, y : NextOf(x) = NextOf(y) => x = y
      /\ \A h, x : First(h) # NextOf(x)
    BY DEF First, NextOf
<1>2. /\ \A h \in HHeads : First(h) \in Cells
      /\ \A n \in Elems : NextOf(n) \in Cells
    BY DEF Cells
<1>3. NULL \notin Cells /\ LIST_POISON2 \notin Cells /\ NULL \notin Elems
    BY ElemsAssumption
<1> QED BY <1>1, <1>2, <1>3

\* An assignment through a pointer changes one cell.
LEMMA CellSet ==
    ASSUME NEW m \in HMemory, NEW c \in Cells,
           NEW x \in Elems \cup {NULL, LIST_POISON1}
    PROVE  /\ SetCell(m, c, x) \in HMemory
           /\ SetCell(m, c, x).cell = [m.cell EXCEPT ![c] = x]
           /\ SetCell(m, c, x).pprev = m.pprev
BY DEF SetCell, HMemory

\* An assignment to pprev changes one of them.
LEMMA BackSet ==
    ASSUME NEW m \in HMemory, NEW n \in Elems,
           NEW c \in Cells \cup {NULL, LIST_POISON2}
    PROVE  /\ SetBack(m, n, c) \in HMemory
           /\ SetBack(m, n, c).pprev = [m.pprev EXCEPT ![n] = c]
           /\ SetBack(m, n, c).cell = m.cell
BY DEF SetBack, HMemory

\* In m2 the element n, if it is not missing, has c for its pprev.
Backed(m, m2, n, c) ==
    /\ m2 \in HMemory
    /\ m2.cell = m.cell
    /\ n # NULL => m2.pprev[n] = c
    /\ \A e \in Elems \ {n} : m2.pprev[e] = m.pprev[e]

\* The assignment to pprev of an element that may be missing.
LEMMA BackIs ==
    ASSUME NEW m \in HMemory, NEW n \in Elems \cup {NULL}, NEW c \in Cells
    PROVE  Backed(m, Back(m, n, c), n, c)
<1>1. CASE n = NULL
    <2>1. Back(m, n, c) = m
        BY <1>1 DEF Back
    <2> QED BY <1>1, <2>1 DEF Backed
<1>2. CASE n \in Elems
    <2>1. Back(m, n, c) = SetBack(m, n, c)
        BY <1>2, CellsApart DEF Back
    <2>2. m.pprev \in [Elems -> Cells \cup {NULL, LIST_POISON2}]
        BY DEF HMemory
    <2>3. /\ SetBack(m, n, c) \in HMemory
          /\ SetBack(m, n, c).pprev = [m.pprev EXCEPT ![n] = c]
          /\ SetBack(m, n, c).cell = m.cell
        <3>1. c \in Cells \cup {NULL, LIST_POISON2}
            OBVIOUS
        <3> QED BY <1>2, <3>1, BackSet
    <2>4. Backed(m, SetBack(m, n, c), n, c)
        BY <1>2, <2>2, <2>3 DEF Backed
    <2> QED BY <2>1, <2>4
<1> QED BY <1>1, <1>2

\* Memory with the pointers as they are, by their names.
LEMMA HMemoryTypes ==
    ASSUME NEW m \in HMemory
    PROVE  /\ m.cell \in [Cells -> Elems \cup {NULL, LIST_POISON1}]
           /\ m.pprev \in [Elems -> Cells \cup {NULL, LIST_POISON2}]
BY DEF HMemory

\* What HLists says, one by one.
LEMMA HListsTypes ==
    ASSUME NEW q, NEW some, HLists(q, some)
    PROVE  /\ \A h \in HHeads : q[h] \in Seq(Elems) /\ Len(q[h]) \in Nat
           /\ \A h \in HHeads : \A i \in 1 .. Len(q[h]) :
                 q[h][i] \in Elems /\ q[h][i] \in HOn(q)
           /\ \A h \in HHeads, i \in Int : /\ CellAt(h, q[h], i) \in Cells
                                           /\ ElemAt(q[h], i) \in Elems \cup {NULL}
           /\ \A g, h \in HHeads : \A i \in 1 .. Len(q[g]), j \in 1 .. Len(q[h]) :
                 q[g][i] = q[h][j] => g = h /\ i = j
<1>1. \A h \in HHeads : q[h] \in Seq(Elems) /\ Len(q[h]) \in Nat
    BY DEF HLists
<1>2. \A h \in HHeads : \A i \in 1 .. Len(q[h]) :
         q[h][i] \in Elems /\ q[h][i] \in HOn(q)
    BY <1>1 DEF HOn
<1>3. \A h \in HHeads, i \in Int : /\ CellAt(h, q[h], i) \in Cells
                                   /\ ElemAt(q[h], i) \in Elems \cup {NULL}
    BY <1>2, CellsApart DEF CellAt, ElemAt
<1> QED BY <1>1, <1>2, <1>3 DEF HLists, HOnceEach

\* No pointer is met twice on the way along the lists.
LEMMA CellsOnce ==
    ASSUME NEW q, NEW some, HLists(q, some), NEW g \in HHeads, NEW h \in HHeads,
           NEW i \in 0 .. Len(q[g]), NEW j \in 0 .. Len(q[h]),
           CellAt(g, q[g], i) = CellAt(h, q[h], j)
    PROVE  g = h /\ i = j
<1>1. Len(q[g]) \in Nat /\ Len(q[h]) \in Nat
    BY HListsTypes
<1>2. CASE i = 0 /\ j = 0
    BY <1>1, <1>2, CellsApart DEF CellAt
<1>3. CASE i = 0 /\ j # 0
    BY <1>1, <1>3, CellsApart DEF CellAt
<1>4. CASE i # 0 /\ j = 0
    BY <1>1, <1>4, CellsApart DEF CellAt
<1>5. CASE i # 0 /\ j # 0
    <2>1. i \in 1 .. Len(q[g]) /\ j \in 1 .. Len(q[h])
        BY <1>1, <1>5
    <2>2. q[g][i] = q[h][j]
        BY <2>1, CellsApart DEF CellAt
    <2> QED BY <2>1, <2>2, HListsTypes
<1> QED BY <1>2, <1>3, <1>4, <1>5

\* The pointers of a list in memory.
LEMMA ChainIs ==
    ASSUME NEW m, NEW q, NEW some, HHolds(m, q, some), NEW h \in HHeads
    PROVE  /\ m.cell[First(h)] = ElemAt(q[h], 1)
           /\ CellAt(h, q[h], 0) = First(h)
           /\ \A i \in 1 .. Len(q[h]) :
                 /\ CellAt(h, q[h], i) = NextOf(q[h][i])
                 /\ m.cell[NextOf(q[h][i])] = ElemAt(q[h], i + 1)
                 /\ m.pprev[q[h][i]] = CellAt(h, q[h], i - 1)
<1>1. HLists(q, some) /\ Chain(m, h, q[h])
    BY DEF HHolds
<1>2. Len(q[h]) \in Nat
    BY <1>1, HListsTypes
<1>3. CellAt(h, q[h], 0) = First(h)
    BY <1>2 DEF CellAt
<1>4. m.cell[CellAt(h, q[h], 0)] = ElemAt(q[h], 0 + 1)
    BY <1>1, <1>2 DEF Chain
<1>5. \A i \in 1 .. Len(q[h]) : CellAt(h, q[h], i) = NextOf(q[h][i])
    BY DEF CellAt
<1>6. \A i \in 1 .. Len(q[h]) : i \in 0 .. Len(q[h])
    BY <1>2
<1> QED BY <1>1, <1>3, <1>4, <1>5, <1>6 DEF Chain
-----------------------------------------------------------------------------
(***************************************************************************)
(* An element enters a list, leaves it, or is touched on its own.          *)
(***************************************************************************)
\* In m2 the element x stands between the pointer a and the element b.
Enters(m, m2, x, a, b) ==
    /\ m2 \in HMemory
    /\ m2.cell[a] = x /\ m2.cell[NextOf(x)] = b
    /\ m2.pprev[x] = a
    /\ b # NULL => m2.pprev[b] = NextOf(x)
    /\ \A c \in Cells \ {a, NextOf(x)} : m2.cell[c] = m.cell[c]
    /\ \A n \in Elems \ {x, b} : m2.pprev[n] = m.pprev[n]

\* In m2 the pointer a goes past the element x to b.
Leaves(m, m2, x, a, b) ==
    /\ m2 \in HMemory
    /\ a # NextOf(x) => m2.cell[a] = b
    /\ b # NULL => m2.pprev[b] = a
    /\ \A c \in Cells \ {a, NextOf(x)} : m2.cell[c] = m.cell[c]
    /\ \A n \in Elems \ {x, b} : m2.pprev[n] = m.pprev[n]

\* Only the pointers of x may differ.
Only(m, m2, x) ==
    /\ m2 \in HMemory
    /\ \A c \in Cells \ {NextOf(x)} : m2.cell[c] = m.cell[c]
    /\ \A n \in Elems \ {x} : m2.pprev[n] = m.pprev[n]

\* The sequence t is s with x behind its k-th element.
Grown(s, t, k, x) ==
    /\ Len(t) = Len(s) + 1
    /\ \A i \in 1 .. Len(s) + 1 :
          t[i] = IF i <= k THEN s[i] ELSE IF i = k + 1 THEN x ELSE s[i - 1]

\* A list none of whose pointers changed.
LEMMA ChainKept ==
    ASSUME NEW m, NEW m2, NEW q, NEW some, HHolds(m, q, some), NEW g \in HHeads,
           \A i \in 0 .. Len(q[g]) :
               m2.cell[CellAt(g, q[g], i)] = m.cell[CellAt(g, q[g], i)],
           \A i \in 1 .. Len(q[g]) : m2.pprev[q[g][i]] = m.pprev[q[g][i]]
    PROVE  Chain(m2, g, q[g])
BY DEF HHolds, Chain

\* An element of its own enters h behind the k-th.
LEMMA HInserted ==
    ASSUME NEW m, NEW q, NEW some, HHolds(m, q, some),
           NEW x \in Elems, x \notin HOn(q), x \notin some,
           NEW h \in HHeads, NEW k \in 0 .. Len(q[h]),
           NEW s \in Seq(Elems), Grown(q[h], s, k, x),
           NEW m2, Enters(m, m2, x, CellAt(h, q[h], k), ElemAt(q[h], k + 1))
    PROVE  HHolds(m2, [q EXCEPT ![h] = s], some)
<1> DEFINE r == [q EXCEPT ![h] = s]
           N == Len(q[h])
<1>1. PICK a : a = CellAt(h, q[h], k)
    OBVIOUS
<1>2. PICK b : b = ElemAt(q[h], k + 1)
    OBVIOUS
<1>3. HLists(q, some) /\ m \in HMemory /\ q \in [HHeads -> Seq(Elems)] /\ N \in Nat
    BY HListsTypes DEF HHolds, HLists
<1>4. /\ m2 \in HMemory
      /\ m2.cell[a] = x /\ m2.cell[NextOf(x)] = b
      /\ m2.pprev[x] = a
      /\ b # NULL => m2.pprev[b] = NextOf(x)
      /\ \A c \in Cells \ {a, NextOf(x)} : m2.cell[c] = m.cell[c]
      /\ \A n \in Elems \ {x, b} : m2.pprev[n] = m.pprev[n]
    BY <1>1, <1>2 DEF Enters
<1>5. /\ \A g \in HHeads \ {h} : r[g] = q[g]
      /\ r[h] = s /\ r \in [HHeads -> Seq(Elems)] /\ Len(s) = N + 1
    BY <1>3 DEF Grown
<1>6. \A i \in 1 .. N + 1 : s[i] = IF i <= k THEN q[h][i] ELSE IF i = k + 1 THEN x ELSE q[h][i - 1]
    BY DEF Grown
<1>7. \A g \in HHeads : \A i \in 1 .. Len(q[g]) :
         /\ q[g][i] \in Elems /\ q[g][i] # x
         /\ q[g][i] = b => g = h /\ i = k + 1
    <2>1. SUFFICES ASSUME NEW g \in HHeads, NEW i \in 1 .. Len(q[g])
                   PROVE  /\ q[g][i] \in Elems /\ q[g][i] # x
                          /\ q[g][i] = b => g = h /\ i = k + 1
        OBVIOUS
    <2>2. q[g][i] \in Elems /\ q[g][i] # x /\ q[g][i] # NULL
        BY <1>3, HListsTypes, CellsApart
    <2>3. CASE k + 1 \in 1 .. N
        <3>1. b = q[h][k + 1]
            BY <1>2, <2>3 DEF ElemAt
        <3> QED BY <1>3, <2>2, <2>3, <3>1, HListsTypes
    <2>4. CASE k + 1 \notin 1 .. N
        BY <1>2, <2>2, <2>4 DEF ElemAt
    <2> QED BY <2>2, <2>3, <2>4
<1>8. \A g \in HHeads : \A i \in 0 .. Len(q[g]) :
         /\ CellAt(g, q[g], i) \in Cells /\ CellAt(g, q[g], i) # NextOf(x)
         /\ CellAt(g, q[g], i) = a => g = h /\ i = k
    <2>1. SUFFICES ASSUME NEW g \in HHeads, NEW i \in 0 .. Len(q[g])
                   PROVE  /\ CellAt(g, q[g], i) \in Cells /\ CellAt(g, q[g], i) # NextOf(x)
                          /\ CellAt(g, q[g], i) = a => g = h /\ i = k
        OBVIOUS
    <2>2. CellAt(g, q[g], i) = a => g = h /\ i = k
        BY <1>1, <1>3, CellsOnce
    <2>3. CellAt(g, q[g], i) # NextOf(x)
        BY <1>7, CellsApart DEF CellAt
    <2>4. CellAt(g, q[g], i) \in Cells
        BY <1>3, HListsTypes
    <2> QED BY <2>2, <2>3, <2>4
<1>9. ASSUME NEW g \in HHeads \ {h}
      PROVE  Chain(m2, g, r[g])
    <2>1. \A i \in 0 .. Len(q[g]) : m2.cell[CellAt(g, q[g], i)] = m.cell[CellAt(g, q[g], i)]
        BY <1>4, <1>8
    <2>2. \A i \in 1 .. Len(q[g]) : m2.pprev[q[g][i]] = m.pprev[q[g][i]]
        BY <1>4, <1>7
    <2>3. Chain(m2, g, q[g])
        BY <2>1, <2>2, ChainKept
    <2> QED BY <1>5, <2>3
<1>10. Chain(m2, h, s)
    <2>1. /\ \A i \in 0 .. N : m.cell[CellAt(h, q[h], i)] = ElemAt(q[h], i + 1)
          /\ \A i \in 1 .. N : m.pprev[q[h][i]] = CellAt(h, q[h], i - 1)
        BY DEF HHolds, Chain
    <2>2. \A i \in 0 .. N + 1 :
             /\ i <= k => CellAt(h, s, i) = CellAt(h, q[h], i)
             /\ i = k + 1 => CellAt(h, s, i) = NextOf(x)
             /\ i > k + 1 => CellAt(h, s, i) = CellAt(h, q[h], i - 1)
        BY <1>3, <1>5, <1>6 DEF CellAt
    <2>3. \A i \in 1 .. N + 2 :
             /\ i <= k => ElemAt(s, i) = ElemAt(q[h], i)
             /\ i = k + 1 => ElemAt(s, i) = x
             /\ i > k + 1 => ElemAt(s, i) = ElemAt(q[h], i - 1)
        BY <1>3, <1>5, <1>6 DEF ElemAt
    <2>4. ASSUME NEW i \in 0 .. N + 1
          PROVE  m2.cell[CellAt(h, s, i)] = ElemAt(s, i + 1)
        <3>1. CASE i < k
            <4>1. i \in 0 .. N /\ CellAt(h, s, i) = CellAt(h, q[h], i)
                  /\ ElemAt(s, i + 1) = ElemAt(q[h], i + 1)
                BY <1>3, <2>2, <2>3, <3>1
            <4>2. CellAt(h, q[h], i) \in Cells \ {a, NextOf(x)}
                BY <1>8, <3>1, <4>1
            <4> QED BY <1>4, <2>1, <4>1, <4>2
        <3>2. CASE i = k
            <4>1. CellAt(h, s, i) = a /\ ElemAt(s, i + 1) = x
                BY <1>1, <1>3, <2>2, <2>3, <3>2
            <4> QED BY <1>4, <4>1
        <3>3. CASE i = k + 1
            <4>1. CellAt(h, s, i) = NextOf(x) /\ ElemAt(s, i + 1) = b
                BY <1>2, <1>3, <2>2, <2>3, <3>3
            <4> QED BY <1>4, <4>1
        <3>4. CASE i > k + 1
            <4>1. i - 1 \in 0 .. N /\ CellAt(h, s, i) = CellAt(h, q[h], i - 1)
                  /\ ElemAt(s, i + 1) = ElemAt(q[h], (i - 1) + 1)
                BY <1>3, <2>2, <2>3, <3>4
            <4>2. CellAt(h, q[h], i - 1) \in Cells \ {a, NextOf(x)}
                BY <1>8, <3>4, <4>1
            <4> QED BY <1>4, <2>1, <4>1, <4>2
        <3> QED BY <1>3, <3>1, <3>2, <3>3, <3>4
    <2>5. ASSUME NEW i \in 1 .. N + 1
          PROVE  m2.pprev[s[i]] = CellAt(h, s, i - 1)
        <3>1. CASE i <= k
            <4>1. i \in 1 .. N /\ s[i] = q[h][i] /\ i # k + 1
                  /\ CellAt(h, s, i - 1) = CellAt(h, q[h], i - 1)
                BY <1>3, <1>6, <2>2, <3>1
            <4>2. q[h][i] \in Elems \ {x, b}
                BY <1>7, <4>1
            <4>3. m2.pprev[q[h][i]] = CellAt(h, q[h], i - 1)
                BY <1>4, <2>1, <4>1, <4>2
            <4> QED BY <4>1, <4>3
        <3>2. CASE i = k + 1
            <4>1. s[i] = x /\ CellAt(h, s, i - 1) = a
                BY <1>1, <1>3, <1>6, <2>2, <3>2
            <4> QED BY <1>4, <4>1
        <3>3. CASE i = k + 2
            <4>1. k + 1 \in 1 .. N /\ s[i] = q[h][k + 1] /\ CellAt(h, s, i - 1) = NextOf(x)
                BY <1>3, <1>6, <2>2, <3>3
            <4>2. b = q[h][k + 1] /\ b # NULL
                BY <1>2, <1>7, <4>1, CellsApart DEF ElemAt
            <4> QED BY <1>4, <4>1, <4>2
        <3>4. CASE i > k + 2
            <4>1. i - 1 \in 1 .. N /\ s[i] = q[h][i - 1] /\ i - 1 # k + 1
                  /\ CellAt(h, s, i - 1) = CellAt(h, q[h], (i - 1) - 1)
                BY <1>3, <1>6, <2>2, <3>4
            <4>2. q[h][i - 1] \in Elems \ {x, b}
                BY <1>7, <4>1
            <4>3. m2.pprev[q[h][i - 1]] = CellAt(h, q[h], (i - 1) - 1)
                BY <1>4, <2>1, <4>1, <4>2
            <4> QED BY <4>1, <4>3
        <3>5. i <= k \/ i = k + 1 \/ i = k + 2 \/ i > k + 2
            BY <1>3
        <3> QED BY <3>1, <3>2, <3>3, <3>4, <3>5
    <2> QED BY <1>5, <2>4, <2>5 DEF Chain
<1> HIDE DEF r
<1>11. ASSUME NEW g \in HHeads, NEW i \in 1 .. Len(r[g])
       PROVE  \/ g = h /\ i = k + 1 /\ r[g][i] = x
              \/ \E j \in 1 .. Len(q[g]) : /\ r[g][i] = q[g][j]
                                           /\ g # h => i = j
                                           /\ g = h => i = IF j <= k THEN j ELSE j + 1
    <2>1. CASE g # h
        BY <1>5, <2>1
    <2>2. CASE g = h /\ i <= k
        <3>1. i \in 1 .. N /\ r[g][i] = q[g][i]
            BY <1>3, <1>5, <1>6, <2>2
        <3> QED BY <2>2, <3>1
    <2>3. CASE g = h /\ i = k + 1
        BY <1>3, <1>5, <1>6, <2>3
    <2>4. CASE g = h /\ i > k + 1
        <3>1. i - 1 \in 1 .. N /\ r[g][i] = q[g][i - 1] /\ ~ (i - 1 <= k)
            BY <1>3, <1>5, <1>6, <2>4
        <3>2. i = (i - 1) + 1
            BY <1>5, <2>4
        <3> QED BY <2>4, <3>1, <3>2
    <2> QED BY <1>3, <1>5, <2>1, <2>2, <2>3, <2>4
<1>12. HOnceEach(r)
    <2>1. SUFFICES ASSUME NEW f \in HHeads, NEW g \in HHeads,
                          NEW i \in 1 .. Len(r[f]), NEW j \in 1 .. Len(r[g]),
                          r[f][i] = r[g][j]
                   PROVE  f = g /\ i = j
        BY DEF HOnceEach
    <2>a. ASSUME NEW e \in HHeads, NEW l \in 1 .. Len(r[e]), r[e][l] = x
          PROVE  e = h /\ l = k + 1
        <3>1. ~ \E v \in 1 .. Len(q[e]) : r[e][l] = q[e][v]
            BY <1>7, <2>a
        <3> QED BY <1>11, <3>1
    <2>2. CASE r[f][i] = x
        <3>1. f = h /\ i = k + 1
            BY <2>2, <2>a
        <3>2. r[g][j] = x
            BY <2>1, <2>2
        <3>3. g = h /\ j = k + 1
            BY <3>2, <2>a
        <3> QED BY <3>1, <3>3
    <2>3. CASE r[f][i] # x
        <3>1. PICK v \in 1 .. Len(q[f]) : /\ r[f][i] = q[f][v]
                                          /\ f # h => i = v
                                          /\ f = h => i = IF v <= k THEN v ELSE v + 1
            BY <1>11, <2>3
        <3>2. PICK w \in 1 .. Len(q[g]) : /\ r[g][j] = q[g][w]
                                          /\ g # h => j = w
                                          /\ g = h => j = IF w <= k THEN w ELSE w + 1
            BY <1>11, <2>1, <2>3
        <3>3. q[f][v] = q[g][w]
            BY <2>1, <3>1, <3>2
        <3>4. f = g /\ v = w
            BY <1>3, <3>3 DEF HLists, HOnceEach
        <3> QED BY <3>1, <3>2, <3>4
    <2> QED BY <2>2, <2>3
<1>13. HOn(r) = HOn(q) \cup {x}
    <2>1. ASSUME NEW y \in HOn(r)
          PROVE  y \in HOn(q) \cup {x}
        <3>1. PICK g \in HHeads : \E i \in 1 .. Len(r[g]) : y = r[g][i]
            BY <2>1 DEF HOn
        <3>2. PICK i \in 1 .. Len(r[g]) : y = r[g][i]
            BY <3>1
        <3>3. y = x \/ \E j \in 1 .. Len(q[g]) : y = q[g][j]
            BY <1>11, <3>2
        <3> QED BY <3>3 DEF HOn
    <2>2. x \in HOn(r)
        <3>1. k + 1 \in 1 .. Len(r[h]) /\ r[h][k + 1] = x
            BY <1>3, <1>5, <1>6
        <3> QED BY <3>1 DEF HOn
    <2>3. ASSUME NEW y \in HOn(q)
          PROVE  y \in HOn(r)
        <3>1. PICK g \in HHeads : \E j \in 1 .. Len(q[g]) : y = q[g][j]
            BY <2>3 DEF HOn
        <3>2. PICK j \in 1 .. Len(q[g]) : y = q[g][j]
            BY <3>1
        <3>3. \E i \in 1 .. Len(r[g]) : y = r[g][i]
            <4>1. CASE g # h
                BY <1>5, <3>2, <4>1
            <4>2. CASE g = h /\ j <= k
                <5>1. j \in 1 .. Len(r[g]) /\ r[g][j] = q[g][j]
                    BY <1>3, <1>5, <1>6, <4>2
                <5> QED BY <3>2, <5>1
            <4>3. CASE g = h /\ ~ j <= k
                <5>1. j + 1 \in 1 .. Len(r[g]) /\ r[g][j + 1] = q[g][j]
                    BY <1>3, <1>5, <1>6, <4>3
                <5> QED BY <3>2, <5>1
            <4> QED BY <4>1, <4>2, <4>3
        <3> QED BY <3>3 DEF HOn
    <2> QED BY <2>1, <2>2, <2>3
<1>14. HLists(r, some)
    BY <1>3, <1>5, <1>12, <1>13 DEF HLists
<1>15. \A n \in some : n \in Elems /\ n # x /\ n \notin HOn(q)
    BY <1>3 DEF HLists
<1>16. b \in HOn(q) \cup {NULL}
    BY <1>2, <1>3, HListsTypes DEF ElemAt
<1>17. a = NextOf(x) \/ a \in {First(g) : g \in HHeads} \cup {NextOf(n) : n \in HOn(q)}
    BY <1>1, <1>3, HListsTypes DEF CellAt
<1>18. ASSUME NEW n \in some
       PROVE  m2.cell[NextOf(n)] = NULL /\ m2.pprev[n] = NextOf(n)
    <2>1. NextOf(n) \in Cells \ {a, NextOf(x)}
        BY <1>15, <1>17, CellsApart
    <2>2. n \in Elems \ {x, b}
        BY <1>15, <1>16, CellsApart
    <2> QED BY <1>4, <2>1, <2>2 DEF HHolds
<1>19. ASSUME NEW n \in Elems \ (HOn(r) \cup some)
       PROVE  m2.pprev[n] \in {NULL, LIST_POISON2}
    <2>1. n \in Elems \ {x, b} /\ n \in Elems \ (HOn(q) \cup some)
        BY <1>13, <1>16, CellsApart
    <2> QED BY <1>4, <2>1 DEF HHolds
<1> QED BY <1>4, <1>5, <1>9, <1>10, <1>14, <1>18, <1>19 DEF HHolds, r

\* The k-th element of h leaves the list.
LEMMA HRemoved ==
    ASSUME NEW m, NEW q, NEW some, HHolds(m, q, some),
           NEW h \in HHeads, NEW k \in 1 .. Len(q[h]), NEW x, x = q[h][k],
           NEW m2, Leaves(m, m2, x, CellAt(h, q[h], k - 1), ElemAt(q[h], k + 1)),
           m2.pprev[x] \in {NULL, LIST_POISON2}
    PROVE  HHolds(m2, [q EXCEPT ![h] = RemoveAt(q[h], k)], some)
<1> DEFINE s == RemoveAt(q[h], k)
           r == [q EXCEPT ![h] = s]
           N == Len(q[h])
<1>1. PICK a : a = CellAt(h, q[h], k - 1)
    OBVIOUS
<1>2. PICK b : b = ElemAt(q[h], k + 1)
    OBVIOUS
<1>3. /\ HLists(q, some) /\ m \in HMemory /\ q \in [HHeads -> Seq(Elems)] /\ N \in Nat
      /\ x \in Elems /\ x \in HOn(q)
    BY HListsTypes DEF HHolds, HLists
<1>4. \A f, g \in HHeads : \A i \in 1 .. Len(q[f]), j \in 1 .. Len(q[g]) :
          q[f][i] = q[g][j] => f = g /\ i = j
    BY <1>3 DEF HLists, HOnceEach
<1>5. /\ s \in Seq(Elems) /\ Len(s) = N - 1
      /\ \A i \in 1 .. N - 1 : s[i] = IF i < k THEN q[h][i] ELSE q[h][i + 1]
    BY <1>3, RemovedFrom
<1> HIDE DEF s
<1>6. /\ \A g \in HHeads \ {h} : r[g] = q[g]
      /\ r[h] = s /\ r \in [HHeads -> Seq(Elems)]
    BY <1>3, <1>5
<1>7. \A g \in HHeads : \A i \in 1 .. Len(q[g]) :
         /\ q[g][i] \in Elems
         /\ q[g][i] = x => g = h /\ i = k
         /\ q[g][i] = b => g = h /\ i = k + 1
    <2>1. SUFFICES ASSUME NEW g \in HHeads, NEW i \in 1 .. Len(q[g])
                   PROVE  /\ q[g][i] \in Elems
                          /\ q[g][i] = x => g = h /\ i = k
                          /\ q[g][i] = b => g = h /\ i = k + 1
        OBVIOUS
    <2>2. q[g][i] \in Elems /\ q[g][i] # NULL
        BY <1>3, HListsTypes, CellsApart
    <2>3. q[g][i] = x => g = h /\ i = k
        BY <1>4
    <2>4. CASE k + 1 \in 1 .. N
        <3>1. b = q[h][k + 1]
            BY <1>2, <2>4 DEF ElemAt
        <3> QED BY <1>4, <2>2, <2>3, <2>4, <3>1
    <2>5. CASE k + 1 \notin 1 .. N
        BY <1>2, <2>2, <2>3, <2>5 DEF ElemAt
    <2> QED BY <2>4, <2>5
<1>8. \A g \in HHeads : \A i \in 0 .. Len(q[g]) :
         /\ CellAt(g, q[g], i) \in Cells
         /\ CellAt(g, q[g], i) = NextOf(x) => g = h /\ i = k
         /\ CellAt(g, q[g], i) = a => g = h /\ i = k - 1
    <2>1. SUFFICES ASSUME NEW g \in HHeads, NEW i \in 0 .. Len(q[g])
                   PROVE  /\ CellAt(g, q[g], i) \in Cells
                          /\ CellAt(g, q[g], i) = NextOf(x) => g = h /\ i = k
                          /\ CellAt(g, q[g], i) = a => g = h /\ i = k - 1
        OBVIOUS
    <2>2. k - 1 \in 0 .. N /\ k \in 0 .. N /\ CellAt(h, q[h], k) = NextOf(x)
        BY <1>3 DEF CellAt
    <2>3. CellAt(g, q[g], i) = a => g = h /\ i = k - 1
        BY <1>1, <1>3, <2>2, CellsOnce
    <2>4. CellAt(g, q[g], i) = NextOf(x) => g = h /\ i = k
        BY <1>3, <2>2, CellsOnce
    <2>5. CellAt(g, q[g], i) \in Cells
        BY <1>3, HListsTypes
    <2> QED BY <2>3, <2>4, <2>5
<1>9. /\ m2 \in HMemory
      /\ m2.cell[a] = b
      /\ b # NULL => m2.pprev[b] = a
      /\ \A c \in Cells \ {a, NextOf(x)} : m2.cell[c] = m.cell[c]
      /\ \A n \in Elems \ {x, b} : m2.pprev[n] = m.pprev[n]
    <2>1. a # NextOf(x)
        <3>1. k - 1 \in 0 .. N /\ k - 1 # k
            BY <1>3
        <3> QED BY <1>1, <1>8, <3>1
    <2> QED BY <1>1, <1>2, <2>1 DEF Leaves
<1>10. ASSUME NEW g \in HHeads \ {h}
       PROVE  Chain(m2, g, r[g])
    <2>1. \A i \in 0 .. Len(q[g]) : m2.cell[CellAt(g, q[g], i)] = m.cell[CellAt(g, q[g], i)]
        BY <1>8, <1>9
    <2>2. \A i \in 1 .. Len(q[g]) : m2.pprev[q[g][i]] = m.pprev[q[g][i]]
        BY <1>7, <1>9
    <2>3. Chain(m2, g, q[g])
        BY <2>1, <2>2, ChainKept
    <2> QED BY <1>6, <2>3
<1>11. Chain(m2, h, s)
    <2>1. /\ \A i \in 0 .. N : m.cell[CellAt(h, q[h], i)] = ElemAt(q[h], i + 1)
          /\ \A i \in 1 .. N : m.pprev[q[h][i]] = CellAt(h, q[h], i - 1)
        BY DEF HHolds, Chain
    <2>2. \A i \in 0 .. N - 1 :
             /\ i < k => CellAt(h, s, i) = CellAt(h, q[h], i)
             /\ i >= k => CellAt(h, s, i) = CellAt(h, q[h], i + 1)
        BY <1>3, <1>5 DEF CellAt
    <2>3. \A i \in 1 .. N :
             /\ i < k => ElemAt(s, i) = ElemAt(q[h], i)
             /\ i >= k => ElemAt(s, i) = ElemAt(q[h], i + 1)
        BY <1>3, <1>5 DEF ElemAt
    <2>4. ASSUME NEW i \in 0 .. N - 1
          PROVE  m2.cell[CellAt(h, s, i)] = ElemAt(s, i + 1)
        <3>1. CASE i < k - 1
            <4>1. i \in 0 .. N /\ CellAt(h, s, i) = CellAt(h, q[h], i)
                  /\ ElemAt(s, i + 1) = ElemAt(q[h], i + 1)
                BY <1>3, <2>2, <2>3, <3>1
            <4>2. CellAt(h, q[h], i) \in Cells \ {a, NextOf(x)}
                BY <1>8, <3>1, <4>1
            <4> QED BY <1>9, <2>1, <4>1, <4>2
        <3>2. CASE i = k - 1
            <4>1. CellAt(h, s, i) = a /\ ElemAt(s, i + 1) = b
                BY <1>1, <1>2, <1>3, <2>2, <2>3, <3>2
            <4> QED BY <1>9, <4>1
        <3>3. CASE i >= k
            <4>1. i + 1 \in 0 .. N /\ CellAt(h, s, i) = CellAt(h, q[h], i + 1)
                  /\ ElemAt(s, i + 1) = ElemAt(q[h], (i + 1) + 1)
                BY <1>3, <2>2, <2>3, <3>3
            <4>2. CellAt(h, q[h], i + 1) \in Cells \ {a, NextOf(x)}
                BY <1>8, <3>3, <4>1
            <4> QED BY <1>9, <2>1, <4>1, <4>2
        <3> QED BY <1>3, <3>1, <3>2, <3>3
    <2>5. ASSUME NEW i \in 1 .. N - 1
          PROVE  m2.pprev[s[i]] = CellAt(h, s, i - 1)
        <3>1. CASE i < k
            <4>1. i \in 1 .. N /\ s[i] = q[h][i] /\ i # k /\ i # k + 1
                  /\ CellAt(h, s, i - 1) = CellAt(h, q[h], i - 1)
                BY <1>3, <1>5, <2>2, <3>1
            <4>2. q[h][i] \in Elems \ {x, b}
                BY <1>7, <4>1
            <4>3. m2.pprev[q[h][i]] = CellAt(h, q[h], i - 1)
                BY <1>9, <2>1, <4>1, <4>2
            <4> QED BY <4>1, <4>3
        <3>2. CASE i = k
            <4>1. k + 1 \in 1 .. N /\ s[i] = q[h][k + 1] /\ CellAt(h, s, i - 1) = a
                BY <1>1, <1>3, <1>5, <2>2, <3>2
            <4>2. b = q[h][k + 1] /\ b # NULL
                BY <1>2, <1>7, <4>1, CellsApart DEF ElemAt
            <4> QED BY <1>9, <4>1, <4>2
        <3>3. CASE i > k
            <4>1. i + 1 \in 1 .. N /\ s[i] = q[h][i + 1] /\ i + 1 # k + 1 /\ i + 1 # k
                  /\ CellAt(h, s, i - 1) = CellAt(h, q[h], (i + 1) - 1)
                <5>1. i + 1 \in 1 .. N /\ s[i] = q[h][i + 1] /\ i + 1 # k + 1 /\ i + 1 # k
                    BY <1>3, <1>5, <3>3
                <5>2. i - 1 \in 0 .. N - 1 /\ i - 1 >= k /\ (i - 1) + 1 = (i + 1) - 1
                    BY <1>3, <3>3
                <5>3. CellAt(h, s, i - 1) = CellAt(h, q[h], (i - 1) + 1)
                    BY <2>2, <5>2
                <5> QED BY <5>1, <5>2, <5>3
            <4>2. q[h][i + 1] \in Elems \ {x, b}
                BY <1>7, <4>1
            <4>3. m2.pprev[q[h][i + 1]] = CellAt(h, q[h], (i + 1) - 1)
                BY <1>9, <2>1, <4>1, <4>2
            <4> QED BY <4>1, <4>3
        <3> QED BY <1>3, <3>1, <3>2, <3>3
    <2> QED BY <1>5, <2>4, <2>5 DEF Chain
<1> HIDE DEF r
<1>12. ASSUME NEW g \in HHeads, NEW i \in 1 .. Len(r[g])
       PROVE  \E j \in 1 .. Len(q[g]) : /\ r[g][i] = q[g][j]
                                        /\ g # h => i = j
                                        /\ g = h => j # k /\ i = IF j < k THEN j ELSE j - 1
    <2>1. CASE g # h
        BY <1>6, <2>1
    <2>2. CASE g = h /\ i < k
        <3>1. i \in 1 .. N /\ r[g][i] = q[g][i] /\ i # k
            BY <1>3, <1>5, <1>6, <2>2
        <3> QED BY <2>2, <3>1
    <2>3. CASE g = h /\ i >= k
        <3>1. i + 1 \in 1 .. N /\ r[g][i] = q[g][i + 1] /\ ~ (i + 1 < k) /\ i + 1 # k
            BY <1>3, <1>5, <1>6, <2>3
        <3>2. i = (i + 1) - 1
            BY <1>6
        <3> QED BY <2>3, <3>1, <3>2
    <2> QED BY <1>3, <1>6, <2>1, <2>2, <2>3
<1>13. HOnceEach(r)
    <2>1. SUFFICES ASSUME NEW f \in HHeads, NEW g \in HHeads,
                          NEW i \in 1 .. Len(r[f]), NEW j \in 1 .. Len(r[g]),
                          r[f][i] = r[g][j]
                   PROVE  f = g /\ i = j
        BY DEF HOnceEach
    <2>2. PICK v \in 1 .. Len(q[f]) : /\ r[f][i] = q[f][v]
                                      /\ f # h => i = v
                                      /\ f = h => v # k /\ i = IF v < k THEN v ELSE v - 1
        BY <1>12
    <2>3. PICK w \in 1 .. Len(q[g]) : /\ r[g][j] = q[g][w]
                                      /\ g # h => j = w
                                      /\ g = h => w # k /\ j = IF w < k THEN w ELSE w - 1
        BY <1>12
    <2>4. q[f][v] = q[g][w]
        BY <2>1, <2>2, <2>3
    <2>5. f = g /\ v = w
        BY <1>4, <2>4
    <2> QED BY <2>2, <2>3, <2>5
<1>14. HOn(r) \subseteq HOn(q)
    <2>1. SUFFICES ASSUME NEW y \in HOn(r)
                   PROVE  y \in HOn(q)
        OBVIOUS
    <2>2. PICK g \in HHeads : \E i \in 1 .. Len(r[g]) : y = r[g][i]
        BY DEF HOn
    <2>3. PICK i \in 1 .. Len(r[g]) : y = r[g][i]
        BY <2>2
    <2>4. \E j \in 1 .. Len(q[g]) : y = q[g][j]
        BY <1>12, <2>3
    <2> QED BY <2>4 DEF HOn
<1>15. HOn(q) \subseteq HOn(r) \cup {x}
    <2>1. SUFFICES ASSUME NEW y \in HOn(q), y # x
                   PROVE  y \in HOn(r)
        OBVIOUS
    <2>2. PICK g \in HHeads : \E j \in 1 .. Len(q[g]) : y = q[g][j]
        BY DEF HOn
    <2>3. PICK j \in 1 .. Len(q[g]) : y = q[g][j]
        BY <2>2
    <2>4. \E i \in 1 .. Len(r[g]) : y = r[g][i]
        <3>1. CASE g # h
            BY <1>6, <2>3, <3>1
        <3>2. CASE g = h /\ j < k
            <4>1. j \in 1 .. Len(r[g]) /\ r[g][j] = q[g][j]
                BY <1>3, <1>5, <1>6, <3>2
            <4> QED BY <2>3, <4>1
        <3>3. CASE g = h /\ j > k
            <4>1. j - 1 \in 1 .. Len(r[g]) /\ r[g][j - 1] = q[g][j]
                BY <1>3, <1>5, <1>6, <3>3
            <4> QED BY <2>3, <4>1
        <3>4. g = h => j # k
            BY <2>1, <2>3
        <3> QED BY <1>3, <3>1, <3>2, <3>3, <3>4
    <2> QED BY <2>4 DEF HOn
<1>16. HLists(r, some)
    BY <1>3, <1>6, <1>13, <1>14 DEF HLists
<1>17. b \in HOn(q) \cup {NULL}
    BY <1>2, <1>3, HListsTypes DEF ElemAt
<1>18. a \in {First(g) : g \in HHeads} \cup {NextOf(n) : n \in HOn(q)}
    BY <1>1, <1>3, HListsTypes DEF CellAt
<1>19. ASSUME NEW n \in some
       PROVE  m2.cell[NextOf(n)] = NULL /\ m2.pprev[n] = NextOf(n)
    <2>1. n \in Elems /\ n \notin HOn(q)
        BY <1>3 DEF HLists
    <2>2. NextOf(n) \in Cells \ {a, NextOf(x)}
        BY <1>3, <1>18, <2>1, CellsApart
    <2>3. n \in Elems \ {x, b}
        BY <1>3, <1>17, <2>1, CellsApart
    <2> QED BY <1>9, <2>2, <2>3 DEF HHolds
<1>20. ASSUME NEW n \in Elems \ (HOn(r) \cup some)
       PROVE  m2.pprev[n] \in {NULL, LIST_POISON2}
    <2>1. CASE n = x
        BY <2>1
    <2>2. CASE n # x /\ n = b
        <3>1. n \in HOn(q) /\ n \in HOn(r)
            BY <1>15, <1>17, <2>2, CellsApart
        <3> QED BY <3>1
    <2>3. CASE n # x /\ n # b
        <3>1. n \in Elems \ {x, b} /\ n \in Elems \ (HOn(q) \cup some)
            BY <1>15, <2>3
        <3> QED BY <1>9, <3>1 DEF HHolds
    <2> QED BY <2>1, <2>2, <2>3
<1>21. \A g \in HHeads : Chain(m2, g, r[g])
    BY <1>6, <1>10, <1>11
<1>22. HHolds(m2, r, some)
    BY <1>9, <1>16, <1>19, <1>20, <1>21 DEF HHolds
<1> QED BY <1>22 DEF r, s

\* An element that is on no list is touched: it becomes a fake or no fake.
LEMMA OnlyTouched ==
    ASSUME NEW m, NEW q, NEW some, HHolds(m, q, some),
           NEW x \in Elems, x \notin HOn(q), NEW m2, Only(m, m2, x)
    PROVE  /\ m2.pprev[x] \in {NULL, LIST_POISON2} => HHolds(m2, q, some \ {x})
           /\ m2.pprev[x] = NextOf(x) /\ m2.cell[NextOf(x)] = NULL
                 => HHolds(m2, q, some \cup {x})
<1>1. HLists(q, some)
    BY DEF HHolds
<1>2. /\ m2 \in HMemory
      /\ \A c \in Cells \ {NextOf(x)} : m2.cell[c] = m.cell[c]
      /\ \A n \in Elems \ {x} : m2.pprev[n] = m.pprev[n]
    BY DEF Only
<1>3. ASSUME NEW h \in HHeads
      PROVE  Chain(m2, h, q[h])
    <2>1. \A i \in 1 .. Len(q[h]) : q[h][i] \in Elems \ {x}
        BY <1>1, HListsTypes
    <2>2. \A i \in 0 .. Len(q[h]) : CellAt(h, q[h], i) \in Cells \ {NextOf(x)}
        <3>1. \A i \in 0 .. Len(q[h]) : CellAt(h, q[h], i) # NextOf(x)
            BY <2>1, CellsApart DEF CellAt
        <3> QED BY <1>1, <3>1, HListsTypes
    <2> QED BY <1>2, <2>1, <2>2, ChainKept
<1>4. \A n \in some \ {x} : m2.cell[NextOf(n)] = NULL /\ m2.pprev[n] = NextOf(n)
    <2>1. SUFFICES ASSUME NEW n \in some \ {x}
                   PROVE  m2.cell[NextOf(n)] = NULL /\ m2.pprev[n] = NextOf(n)
        OBVIOUS
    <2>2. n \in Elems \ {x} /\ NextOf(n) \in Cells \ {NextOf(x)}
        BY <1>1, CellsApart DEF HLists
    <2> QED BY <1>2, <2>2 DEF HHolds
<1>5. \A n \in Elems \ (HOn(q) \cup some \cup {x}) : m2.pprev[n] \in {NULL, LIST_POISON2}
    BY <1>2 DEF HHolds
<1>6. HLists(q, some \ {x}) /\ HLists(q, some \cup {x})
    BY <1>1 DEF HLists
<1> QED BY <1>2, <1>3, <1>4, <1>5, <1>6 DEF HHolds
-----------------------------------------------------------------------------
(***************************************************************************)
(* The functions of list.h.                                                *)
(***************************************************************************)
\* The assignments of hlist_add_head.
LEMMA AddHeadSets ==
    ASSUME NEW m \in HMemory, NEW x \in Elems, NEW h \in HHeads,
           NEW b \in (Elems \ {x}) \cup {NULL}, m.cell[First(h)] = b
    PROVE  Enters(m, hlist_add_head(m, x, h), x, First(h), b)
<1> DEFINE m1 == SetCell(m, NextOf(x), b)
           m2 == Back(m1, b, NextOf(x))
           m3 == SetCell(m2, First(h), x)
           m4 == SetBack(m3, x, First(h))
<1>1. /\ First(h) \in Cells /\ NextOf(x) \in Cells /\ First(h) # NextOf(x)
      /\ NULL \notin Elems
      /\ b \in Elems \cup {NULL} /\ NextOf(x) \in Cells \cup {NULL, LIST_POISON2}
    BY CellsApart
<1>2. m1 \in HMemory /\ m1.cell = [m.cell EXCEPT ![NextOf(x)] = b] /\ m1.pprev = m.pprev
    BY <1>1, CellSet
<1> HIDE DEF m1
<1>3. /\ m2 \in HMemory /\ m2.cell = m1.cell
      /\ b # NULL => m2.pprev[b] = NextOf(x)
      /\ \A e \in Elems \ {b} : m2.pprev[e] = m1.pprev[e]
    <2>1. m1 \in HMemory /\ b \in Elems \cup {NULL} /\ NextOf(x) \in Cells
        BY <1>1, <1>2
    <2>2. Backed(m1, Back(m1, b, NextOf(x)), b, NextOf(x))
        BY <2>1, BackIs
    <2> QED BY <2>2 DEF Backed
<1> HIDE DEF m2
<1>4. m3 \in HMemory /\ m3.cell = [m2.cell EXCEPT ![First(h)] = x] /\ m3.pprev = m2.pprev
    BY <1>1, <1>3, CellSet
<1> HIDE DEF m3
<1>5. m4 \in HMemory /\ m4.pprev = [m3.pprev EXCEPT ![x] = First(h)] /\ m4.cell = m3.cell
    BY <1>1, <1>4, BackSet
<1>6. hlist_add_head(m, x, h) = m4
    BY DEF hlist_add_head, m1, m2, m3
<1> HIDE DEF m4
<1>7. Enters(m, m4, x, First(h), b)
    BY <1>1, <1>2, <1>3, <1>4, <1>5, HMemoryTypes DEF Enters
<1> QED BY <1>6, <1>7

\* The assignments of hlist_add_before.
LEMMA AddBeforeSets ==
    ASSUME NEW m \in HMemory, NEW x \in Elems, NEW b \in Elems \ {x},
           NEW a \in Cells \ {NextOf(x)}, m.pprev[b] = a
    PROVE  Enters(m, hlist_add_before(m, x, b), x, a, b)
<1> DEFINE m1 == SetBack(m, x, a)
           m2 == SetCell(m1, NextOf(x), b)
           m3 == SetBack(m2, b, NextOf(x))
           m4 == SetCell(m3, a, x)
<1>1. NextOf(x) \in Cells
    BY CellsApart
<1>2. m1 \in HMemory /\ m1.pprev = [m.pprev EXCEPT ![x] = a] /\ m1.cell = m.cell
    BY BackSet
<1> HIDE DEF m1
<1>3. m2 \in HMemory /\ m2.cell = [m1.cell EXCEPT ![NextOf(x)] = b] /\ m2.pprev = m1.pprev
    BY <1>1, <1>2, CellSet
<1> HIDE DEF m2
<1>4. m3 \in HMemory /\ m3.pprev = [m2.pprev EXCEPT ![b] = NextOf(x)] /\ m3.cell = m2.cell
    BY <1>1, <1>3, BackSet
<1> HIDE DEF m3
<1>5. m4 \in HMemory /\ m4.cell = [m3.cell EXCEPT ![a] = x] /\ m4.pprev = m3.pprev
    BY <1>4, CellSet
<1>6. m3.pprev[x] = a
    BY <1>2, <1>3, <1>4, HMemoryTypes
<1>7. hlist_add_before(m, x, b) = m4
    BY <1>6 DEF hlist_add_before, m1, m2, m3
<1> HIDE DEF m4
<1>8. Enters(m, m4, x, a, b)
    BY <1>1, <1>2, <1>3, <1>4, <1>5, HMemoryTypes DEF Enters
<1> QED BY <1>7, <1>8

\* The assignments of hlist_add_behind.
LEMMA AddBehindSets ==
    ASSUME NEW m \in HMemory, NEW x \in Elems, NEW p \in Elems \ {x},
           NEW b \in (Elems \ {x}) \cup {NULL}, m.cell[NextOf(p)] = b
    PROVE  Enters(m, hlist_add_behind(m, x, p), x, NextOf(p), b)
<1> DEFINE m1 == SetCell(m, NextOf(x), b)
           m2 == SetCell(m1, NextOf(p), x)
           m3 == SetBack(m2, x, NextOf(p))
           m4 == Back(m3, b, NextOf(x))
<1>1. /\ NextOf(p) \in Cells /\ NextOf(x) \in Cells /\ NextOf(p) # NextOf(x)
      /\ NULL \notin Elems
      /\ b \in Elems \cup {NULL} /\ NextOf(x) \in Cells \cup {NULL, LIST_POISON2}
    BY CellsApart
<1>2. m1 \in HMemory /\ m1.cell = [m.cell EXCEPT ![NextOf(x)] = b] /\ m1.pprev = m.pprev
    BY <1>1, CellSet
<1> HIDE DEF m1
<1>3. m2 \in HMemory /\ m2.cell = [m1.cell EXCEPT ![NextOf(p)] = x] /\ m2.pprev = m1.pprev
    BY <1>1, <1>2, CellSet
<1> HIDE DEF m2
<1>4. m3 \in HMemory /\ m3.pprev = [m2.pprev EXCEPT ![x] = NextOf(p)] /\ m3.cell = m2.cell
    BY <1>1, <1>3, BackSet
<1> HIDE DEF m3
<1>5. /\ m4 \in HMemory /\ m4.cell = m3.cell
      /\ b # NULL => m4.pprev[b] = NextOf(x)
      /\ \A e \in Elems \ {b} : m4.pprev[e] = m3.pprev[e]
    <2>1. m3 \in HMemory /\ b \in Elems \cup {NULL} /\ NextOf(x) \in Cells
        BY <1>1, <1>4
    <2>2. Backed(m3, Back(m3, b, NextOf(x)), b, NextOf(x))
        BY <2>1, BackIs
    <2> QED BY <2>2 DEF Backed
<1>6. m3.cell[NextOf(x)] = b
    BY <1>1, <1>2, <1>3, <1>4, HMemoryTypes
<1>7. hlist_add_behind(m, x, p) = m4
    BY <1>6 DEF hlist_add_behind, m1, m2, m3
<1> HIDE DEF m4
<1>8. Enters(m, m4, x, NextOf(p), b)
    BY <1>1, <1>2, <1>3, <1>4, <1>5, HMemoryTypes DEF Enters
<1> QED BY <1>7, <1>8

\* The assignments of __hlist_del.
LEMMA UnhashSets ==
    ASSUME NEW m \in HMemory, NEW x \in Elems, NEW a \in Cells,
           NEW b \in (Elems \ {x}) \cup {NULL},
           m.pprev[x] = a, m.cell[NextOf(x)] = b
    PROVE  Leaves(m, Unhash(m, x), x, a, b)
<1> DEFINE m1 == SetCell(m, a, b)
           m2 == Back(m1, b, a)
<1>1. m1 \in HMemory /\ m1.cell = [m.cell EXCEPT ![a] = b] /\ m1.pprev = m.pprev
    BY CellSet
<1> HIDE DEF m1
<1>a. b \in Elems \cup {NULL} /\ a \in Cells \cup {NULL, LIST_POISON2}
    OBVIOUS
<1>2. /\ m2 \in HMemory /\ m2.cell = m1.cell
      /\ b # NULL => m2.pprev[b] = a
      /\ \A e \in Elems \ {b} : m2.pprev[e] = m1.pprev[e]
    <2>1. m1 \in HMemory /\ b \in Elems \cup {NULL} /\ a \in Cells
        BY <1>1, <1>a
    <2>2. Backed(m1, Back(m1, b, a), b, a)
        BY <2>1, BackIs
    <2> QED BY <2>2 DEF Backed
<1>3. Unhash(m, x) = m2
    BY DEF Unhash, m1
<1> HIDE DEF m2
<1>4. Leaves(m, m2, x, a, b)
    BY <1>1, <1>2, HMemoryTypes, CellsApart DEF Leaves
<1> QED BY <1>3, <1>4

\* The two assignments that follow it.
LEMMA EndSets ==
    ASSUME NEW m \in HMemory, NEW x \in Elems,
           NEW y \in Elems \cup {NULL, LIST_POISON1},
           NEW c \in Cells \cup {NULL, LIST_POISON2}
    PROVE  LET m2 == SetBack(SetCell(m, NextOf(x), y), x, c)
           IN  Only(m, m2, x) /\ m2.pprev[x] = c /\ m2.cell[NextOf(x)] = y
<1> DEFINE m1 == SetCell(m, NextOf(x), y)
           m2 == SetBack(m1, x, c)
<1>1. NextOf(x) \in Cells
    BY CellsApart
<1>2. m1 \in HMemory /\ m1.cell = [m.cell EXCEPT ![NextOf(x)] = y] /\ m1.pprev = m.pprev
    BY <1>1, CellSet
<1> HIDE DEF m1
<1>3. m2 \in HMemory /\ m2.pprev = [m1.pprev EXCEPT ![x] = c] /\ m2.cell = m1.cell
    BY <1>2, BackSet
<1> HIDE DEF m2
<1>4. Only(m, m2, x) /\ m2.pprev[x] = c /\ m2.cell[NextOf(x)] = y
    BY <1>1, <1>2, <1>3, HMemoryTypes DEF Only
<1> QED BY <1>4 DEF m1, m2

\* They leave what __hlist_del has done to the others.
LEMMA LeavesOnly ==
    ASSUME NEW m, NEW m1, NEW m2, NEW x \in Elems, NEW a \in Cells,
           NEW b \in (Elems \ {x}) \cup {NULL},
           Leaves(m, m1, x, a, b), Only(m1, m2, x)
    PROVE  Leaves(m, m2, x, a, b)
BY CellsApart DEF Leaves, Only

-----------------------------------------------------------------------------
(***************************************************************************)
(* The caller's sequences.                                                 *)
(***************************************************************************)
\* What the invariant says, one by one.
LEMMA HInvTypes ==
    ASSUME HInv
    PROVE  /\ HLists(hseq, fakes) /\ hmem \in HMemory
           /\ hseq \in [HHeads -> Seq(Elems)]
           /\ fakes \subseteq Elems \ HOn(hseq)
           /\ HOn(hseq) \subseteq Elems
           /\ Hashed = HOn(hseq)
           /\ Unhashed = Elems \ (HOn(hseq) \cup fakes)
<1>1. /\ HLists(hseq, fakes) /\ hmem \in HMemory
      /\ hseq \in [HHeads -> Seq(Elems)] /\ fakes \subseteq Elems \ HOn(hseq)
    BY DEF HInv, HHolds, HLists
<1>2. \A h \in HHeads : Range(hseq[h]) = {hseq[h][i] : i \in 1 .. Len(hseq[h])}
    BY <1>1 DEF Range
<1>3. Hashed = HOn(hseq)
    <2>1. ASSUME NEW x \in Hashed
          PROVE  x \in HOn(hseq)
        <3>1. PICK h \in HHeads : x \in Range(hseq[h])
            BY DEF Hashed
        <3> QED BY <1>2, <3>1 DEF HOn
    <2>2. ASSUME NEW x \in HOn(hseq)
          PROVE  x \in Hashed
        <3>1. PICK h \in HHeads : x \in {hseq[h][i] : i \in 1 .. Len(hseq[h])}
            BY DEF HOn
        <3> QED BY <1>2, <3>1 DEF Hashed
    <2> QED BY <2>1, <2>2
<1>4. HOn(hseq) \subseteq Elems
    BY <1>1, HListsTypes DEF HOn
<1> QED BY <1>1, <1>3, <1>4 DEF Unhashed

\* The caller's picture without an element that is on a list.
LEMMA HWithoutIs ==
    ASSUME HLists(hseq, fakes), NEW h \in HHeads, NEW k \in 1 .. Len(hseq[h])
    PROVE  HWithout(hseq[h][k]) = [hseq EXCEPT ![h] = RemoveAt(hseq[h], k)]
<1> DEFINE e == hseq[h][k]
<1>1. \A f, g \in HHeads : \A i \in 1 .. Len(hseq[f]), j \in 1 .. Len(hseq[g]) :
          hseq[f][i] = hseq[g][j] => f = g /\ i = j
    BY DEF HLists, HOnceEach
<1>2. RemoveFirst(hseq[h], e) = RemoveAt(hseq[h], k)
    <2>1. {j \in 1 .. Len(hseq[h]) : hseq[h][j] = e} = {k}
        BY <1>1
    <2>2. Min({k}) = k
        BY DEF Min
    <2>3. \E i \in 1 .. Len(hseq[h]) : hseq[h][i] = e
        OBVIOUS
    <2> HIDE DEF e
    <2> QED BY <2>1, <2>2, <2>3 DEF RemoveFirst, SelectInSeq
<1>3. \A g \in HHeads \ {h} : RemoveFirst(hseq[g], e) = hseq[g]
    <2>1. \A g \in HHeads \ {h} : ~ \E i \in 1 .. Len(hseq[g]) : hseq[g][i] = e
        BY <1>1
    <2> HIDE DEF e
    <2> QED BY <2>1 DEF RemoveFirst
<1>4. hseq \in [HHeads -> Seq(Elems)]
    BY DEF HLists
<1> HIDE DEF e
<1>5. HWithout(e) = [hseq EXCEPT ![h] = RemoveAt(hseq[h], k)]
    BY <1>2, <1>3, <1>4 DEF HWithout
<1> QED BY <1>5 DEF e

\* The caller's picture without an element that is on none.
LEMMA HWithoutNone ==
    ASSUME HLists(hseq, fakes), NEW e \in Elems \ HOn(hseq)
    PROVE  HWithout(e) = hseq
<1>1. \A g \in HHeads : ~ \E i \in 1 .. Len(hseq[g]) : hseq[g][i] = e
    BY DEF HOn
<1>2. \A g \in HHeads : RemoveFirst(hseq[g], e) = hseq[g]
    BY <1>1 DEF RemoveFirst
<1> QED BY <1>2 DEF HWithout, HLists

\* InsertAt, element by element.
LEMMA InsertedAt ==
    ASSUME NEW S, NEW s \in Seq(S), NEW x \in S, NEW k \in 0 .. Len(s)
    PROVE  InsertAt(s, k + 1, x) \in Seq(S) /\ Grown(s, InsertAt(s, k + 1, x), k, x)
<1> DEFINE u == SubSeq(s, 1, k)
           v == SubSeq(s, k + 1, Len(s))
           w == u \o <<x>>
<1>1. Len(s) \in Nat
    OBVIOUS
<1>2. u \in Seq(S) /\ Len(u) = k /\ \A i \in 1 .. k : u[i] = s[i]
    BY <1>1
<1>3. v \in Seq(S) /\ Len(v) = Len(s) - k /\ \A i \in 1 .. Len(s) - k : v[i] = s[k + i]
    BY <1>1
<1>4. InsertAt(s, k + 1, x) = w \o v
    <2>1. (k + 1) - 1 = k
        BY <1>1
    <2> QED BY <2>1 DEF InsertAt
<1> HIDE DEF u, v
<1>5. /\ w \in Seq(S) /\ Len(w) = k + 1
      /\ \A i \in 1 .. k : w[i] = s[i]
      /\ w[k + 1] = x
    BY <1>1, <1>2
<1> HIDE DEF w
<1>6. ASSUME NEW i \in 1 .. Len(s) + 1
      PROVE  (w \o v)[i] = IF i <= k THEN s[i] ELSE IF i = k + 1 THEN x ELSE s[i - 1]
    <2>1. CASE i <= k
        BY <1>1, <1>3, <1>5, <2>1
    <2>2. CASE i = k + 1
        BY <1>1, <1>3, <1>5, <2>2
    <2>3. CASE i > k + 1
        <3>1. (w \o v)[i] = v[i - (k + 1)]
            BY <1>1, <1>3, <1>5, <2>3
        <3>2. i - (k + 1) \in 1 .. Len(s) - k /\ k + (i - (k + 1)) = i - 1
            BY <1>1, <2>3
        <3>3. v[i - (k + 1)] = s[k + (i - (k + 1))]
            BY <1>3, <3>2
        <3>4. (w \o v)[i] = s[i - 1] /\ ~ (i <= k) /\ i # k + 1
            BY <1>1, <2>3, <3>1, <3>2, <3>3
        <3> QED BY <3>4
    <2>4. i <= k \/ i = k + 1 \/ i > k + 1
        BY <1>1
    <2> QED BY <2>1, <2>2, <2>3, <2>4
<1>7. w \o v \in Seq(S) /\ Len(w \o v) = Len(s) + 1
    <2>1. w \o v \in Seq(S) /\ Len(w \o v) = Len(w) + Len(v)
        <3>1. w \in Seq(S) /\ v \in Seq(S)
            BY <1>3, <1>5
        <3> QED BY <3>1
    <2>2. Len(w) + Len(v) = Len(s) + 1
        BY <1>1, <1>3, <1>5
    <2> QED BY <2>1, <2>2
<1>8. Grown(s, w \o v, k, x)
    BY <1>6, <1>7 DEF Grown
<1> QED BY <1>4, <1>7, <1>8
-----------------------------------------------------------------------------
(***************************************************************************)
(* The callers' operations.                                                *)
(***************************************************************************)
\* hlist_del and hlist_del_init of a node that is on a list or a fake.
LEMMA HDeleted ==
    ASSUME HInv, NEW x \in HOn(hseq) \cup fakes, NEW y, NEW c, NEW m2,
           m2 = SetBack(SetCell(Unhash(hmem, x), NextOf(x), y), x, c),
           y \in {NULL, LIST_POISON1}, c \in {NULL, LIST_POISON2}
    PROVE  HHolds(m2, HWithout(x), fakes \ {x})
<1>1. /\ HLists(hseq, fakes) /\ hmem \in HMemory /\ x \in Elems
      /\ fakes \subseteq Elems \ HOn(hseq) /\ HHolds(hmem, hseq, fakes)
      /\ NextOf(x) \in Cells
    BY HInvTypes, CellsApart DEF HInv
<1>2. ASSUME NEW m1 \in HMemory, m1 = Unhash(hmem, x)
      PROVE  Only(m1, m2, x) /\ m2.pprev[x] \in {NULL, LIST_POISON2}
    <2>1. y \in Elems \cup {NULL, LIST_POISON1} /\ c \in Cells \cup {NULL, LIST_POISON2}
        OBVIOUS
    <2>2. /\ Only(m1, SetBack(SetCell(m1, NextOf(x), y), x, c), x)
          /\ SetBack(SetCell(m1, NextOf(x), y), x, c).pprev[x] = c
        BY <1>1, <2>1, EndSets
    <2> QED BY <1>2, <2>2
<1>3. CASE x \in fakes
    <2>1. hmem.pprev[x] = NextOf(x) /\ hmem.cell[NextOf(x)] = NULL
        BY <1>3 DEF HInv, HHolds
    <2>2. Leaves(hmem, Unhash(hmem, x), x, NextOf(x), NULL)
        BY <1>1, <2>1, UnhashSets
    <2>3. Unhash(hmem, x) \in HMemory
        BY <2>2 DEF Leaves
    <2>4. Only(hmem, m2, x) /\ m2.pprev[x] \in {NULL, LIST_POISON2}
        <3>1. Only(Unhash(hmem, x), m2, x) /\ m2.pprev[x] \in {NULL, LIST_POISON2}
            BY <1>2, <2>3
        <3>2. \A n \in Elems \ {x} : n \in Elems \ {x, NULL}
            BY CellsApart
        <3> QED BY <2>2, <3>1, <3>2 DEF Leaves, Only
    <2>5. HHolds(m2, hseq, fakes \ {x})
        BY <1>1, <1>3, <2>4, OnlyTouched
    <2>6. HWithout(x) = hseq
        BY <1>1, <1>3, HWithoutNone
    <2> QED BY <2>5, <2>6
<1>4. CASE x \in HOn(hseq)
    <2>1. PICK h \in HHeads : \E k \in 1 .. Len(hseq[h]) : x = hseq[h][k]
        BY <1>4 DEF HOn
    <2>2. PICK k \in 1 .. Len(hseq[h]) : x = hseq[h][k]
        BY <2>1
    <2>3. PICK a : a = CellAt(h, hseq[h], k - 1)
        OBVIOUS
    <2>4. PICK b : b = ElemAt(hseq[h], k + 1)
        OBVIOUS
    <2>5. hmem.pprev[x] = a /\ hmem.cell[NextOf(x)] = b
        BY <1>1, <2>2, <2>3, <2>4, ChainIs
    <2>6. a \in Cells /\ b \in (Elems \ {x}) \cup {NULL}
        <3>1. a \in Cells /\ b \in Elems \cup {NULL}
            BY <1>1, <2>3, <2>4, HListsTypes
        <3>2. ASSUME k + 1 \in 1 .. Len(hseq[h])
              PROVE  hseq[h][k + 1] # hseq[h][k]
            BY <1>1, <3>2 DEF HLists, HOnceEach
        <3>3. x \in Elems /\ x # NULL
            BY <1>1, CellsApart
        <3>4. b # x
            BY <2>2, <2>4, <3>2, <3>3 DEF ElemAt
        <3> QED BY <3>1, <3>4
    <2>7. Leaves(hmem, Unhash(hmem, x), x, a, b)
        BY <1>1, <2>5, <2>6, UnhashSets
    <2>8. Unhash(hmem, x) \in HMemory
        BY <2>7 DEF Leaves
    <2>9. Only(Unhash(hmem, x), m2, x) /\ m2.pprev[x] \in {NULL, LIST_POISON2}
        BY <1>2, <2>8
    <2>10. Leaves(hmem, m2, x, a, b)
        BY <1>1, <2>6, <2>7, <2>9, LeavesOnly
    <2>11. Leaves(hmem, m2, x, CellAt(h, hseq[h], k - 1), ElemAt(hseq[h], k + 1))
        BY <2>3, <2>4, <2>10
    <2>12. HHolds(m2, [hseq EXCEPT ![h] = RemoveAt(hseq[h], k)], fakes)
        BY <1>1, <2>2, <2>9, <2>11, HRemoved
    <2>13. fakes \ {x} = fakes
        BY <1>1, <1>4
    <2>14. HWithout(x) = [hseq EXCEPT ![h] = RemoveAt(hseq[h], k)]
        BY <1>1, <2>2, HWithoutIs
    <2> QED BY <2>12, <2>13, <2>14
<1> QED BY <1>3, <1>4

\* hlist_del.
LEMMA HDeleteKeeps ==
    ASSUME HInv, NEW x \in Elems, HDelete(x)
    PROVE  HInv'
<1>1. x \in HOn(hseq) \cup fakes
    BY HInvTypes DEF HDelete
<1>2. hmem' = SetBack(SetCell(Unhash(hmem, x), NextOf(x), LIST_POISON1), x, LIST_POISON2)
    BY DEF HDelete, hlist_del
<1>3. HHolds(hmem', HWithout(x), fakes \ {x})
    BY <1>1, <1>2, HDeleted
<1> QED BY <1>3 DEF HDelete, HInv

\* hlist_del_init.
LEMMA DeleteInitKeeps ==
    ASSUME HInv, NEW x \in Elems, DeleteInit(x)
    PROVE  HInv'
<1>1. hmem' = hlist_del_init(hmem, x) /\ hseq' = HWithout(x) /\ fakes' = fakes \ {x}
    BY DEF DeleteInit
<1>2. \A n \in HOn(hseq) \cup fakes : hmem.pprev[n] \in Cells
    <2>1. \A n \in fakes : hmem.pprev[n] \in Cells
        BY HInvTypes, CellsApart DEF HInv, HHolds
    <2>2. ASSUME NEW n \in HOn(hseq)
          PROVE  hmem.pprev[n] \in Cells
        <3>1. PICK h \in HHeads : \E k \in 1 .. Len(hseq[h]) : n = hseq[h][k]
            BY DEF HOn
        <3>2. PICK k \in 1 .. Len(hseq[h]) : n = hseq[h][k]
            BY <3>1
        <3>3. hmem.pprev[n] = CellAt(h, hseq[h], k - 1)
            BY <3>2, ChainIs DEF HInv
        <3>4. k - 1 \in Int /\ HLists(hseq, fakes)
            BY HInvTypes
        <3> QED BY <3>3, <3>4, HListsTypes
    <2> QED BY <2>1, <2>2
<1>3. CASE x \in HOn(hseq) \cup fakes
    <2>1. hmem.pprev[x] # NULL
        BY <1>2, <1>3, CellsApart
    <2>2. hmem' = SetBack(SetCell(Unhash(hmem, x), NextOf(x), NULL), x, NULL)
        BY <1>1, <2>1 DEF hlist_del_init, hlist_unhashed, INIT_HLIST_NODE
    <2>3. HHolds(hmem', HWithout(x), fakes \ {x})
        BY <1>3, <2>2, HDeleted
    <2> QED BY <1>1, <2>3 DEF HInv
<1>4. CASE x \notin HOn(hseq) \cup fakes
    <2>1. hlist_unhashed(hmem, x)
        BY <1>4, HInvTypes DEF DeleteInit
    <2>2. hmem' = hmem
        BY <1>1, <2>1 DEF hlist_del_init
    <2>3. hseq' = hseq /\ fakes' = fakes
        BY <1>1, <1>4, HInvTypes, HWithoutNone
    <2> QED BY <2>2, <2>3 DEF HInv
<1> QED BY <1>3, <1>4

\* INIT_HLIST_NODE.
LEMMA InitNodeKeeps ==
    ASSUME HInv, NEW x \in Elems, InitNode(x)
    PROVE  HInv'
<1>1. x \notin HOn(hseq) /\ x \notin fakes /\ hmem \in HMemory
    BY HInvTypes DEF InitNode
<1>2. hmem' = SetBack(SetCell(hmem, NextOf(x), NULL), x, NULL)
    BY DEF InitNode, INIT_HLIST_NODE
<1>3. NULL \in Elems \cup {NULL, LIST_POISON1} /\ NULL \in Cells \cup {NULL, LIST_POISON2}
    OBVIOUS
<1>4. Only(hmem, hmem', x) /\ hmem'.pprev[x] = NULL
    BY <1>1, <1>2, <1>3, EndSets
<1>5. HHolds(hmem', hseq, fakes \ {x})
    BY <1>1, <1>4, OnlyTouched DEF HInv
<1>6. fakes \ {x} = fakes /\ hseq' = hseq /\ fakes' = fakes
    BY <1>1 DEF InitNode
<1> QED BY <1>5, <1>6 DEF HInv

\* hlist_add_fake.
LEMMA AddFakeKeeps ==
    ASSUME HInv, NEW x \in Elems, AddFake(x)
    PROVE  HInv'
<1>1. /\ x \notin HOn(hseq) /\ hmem \in HMemory
      /\ hmem.cell[NextOf(x)] = NULL
    BY HInvTypes DEF AddFake, Clean
<1>2. hmem' = SetBack(hmem, x, NextOf(x))
    BY DEF AddFake, hlist_add_fake
<1>3. NextOf(x) \in Cells \cup {NULL, LIST_POISON2}
    BY CellsApart
<1>4. /\ hmem' \in HMemory /\ hmem'.cell = hmem.cell
      /\ hmem'.pprev = [hmem.pprev EXCEPT ![x] = NextOf(x)]
    BY <1>1, <1>2, <1>3, BackSet
<1>5. Only(hmem, hmem', x) /\ hmem'.pprev[x] = NextOf(x) /\ hmem'.cell[NextOf(x)] = NULL
    BY <1>1, <1>4, HMemoryTypes DEF Only
<1>6. HHolds(hmem', hseq, fakes \cup {x})
    BY <1>1, <1>5, OnlyTouched DEF HInv
<1> QED BY <1>6 DEF AddFake, HInv

\* An addition behind the k-th element of h.
LEMMA EnteredAt ==
    ASSUME HInv, NEW x \in Unhashed, NEW h \in HHeads, NEW k \in 0 .. Len(hseq[h]),
           NEW m2, Enters(hmem, m2, x, CellAt(h, hseq[h], k), ElemAt(hseq[h], k + 1))
    PROVE  HHolds(m2, [hseq EXCEPT ![h] = InsertAt(hseq[h], k + 1, x)], fakes)
<1>1. /\ x \in Elems /\ x \notin HOn(hseq) /\ x \notin fakes
      /\ hseq[h] \in Seq(Elems) /\ HHolds(hmem, hseq, fakes)
    BY HInvTypes DEF HInv
<1>2. PICK s : s = InsertAt(hseq[h], k + 1, x)
    OBVIOUS
<1>3. s \in Seq(Elems) /\ Grown(hseq[h], s, k, x)
    BY <1>1, <1>2, InsertedAt
<1>4. HHolds(m2, [hseq EXCEPT ![h] = s], fakes)
    BY <1>1, <1>3, HInserted
<1> QED BY <1>2, <1>4

\* An element that may be added is none of the lists'.
LEMMA Fresh ==
    ASSUME HInv, NEW x \in Unhashed, NEW h \in HHeads
    PROVE  /\ \A i \in Int : CellAt(h, hseq[h], i) \in Cells \ {NextOf(x)}
           /\ \A i \in Int : ElemAt(hseq[h], i) \in (Elems \ {x}) \cup {NULL}
<1>1. HLists(hseq, fakes) /\ x \notin HOn(hseq)
    BY HInvTypes
<1>2. \A i \in 1 .. Len(hseq[h]) : hseq[h][i] \in Elems \ {x}
    BY <1>1, HListsTypes
<1> QED BY <1>2, CellsApart DEF CellAt, ElemAt

\* hlist_add_head.
LEMMA AddHeadKeeps ==
    ASSUME HInv, NEW x \in Elems, NEW h \in HHeads, AddHead(x, h)
    PROVE  HInv'
<1>1. x \in Unhashed /\ hseq[h] \in Seq(Elems) /\ hmem \in HMemory /\ 0 \in 0 .. Len(hseq[h])
    BY HInvTypes DEF AddHead
<1>2. PICK b : b = ElemAt(hseq[h], 0 + 1)
    OBVIOUS
<1>3. hmem.cell[First(h)] = b /\ CellAt(h, hseq[h], 0) = First(h)
    BY <1>2, ChainIs DEF HInv
<1>4. b \in (Elems \ {x}) \cup {NULL}
    BY <1>1, <1>2, Fresh
<1>5. Enters(hmem, hlist_add_head(hmem, x, h), x, First(h), b)
    BY <1>1, <1>3, <1>4, AddHeadSets
<1>6. HHolds(hlist_add_head(hmem, x, h), [hseq EXCEPT ![h] = InsertAt(hseq[h], 0 + 1, x)], fakes)
    BY <1>1, <1>2, <1>3, <1>5, EnteredAt
<1>7. InsertAt(hseq[h], 0 + 1, x) = <<x>> \o hseq[h]
    <2>1. PICK t : t = InsertAt(hseq[h], 0 + 1, x)
        OBVIOUS
    <2>2. t \in Seq(Elems) /\ Grown(hseq[h], t, 0, x)
        BY <1>1, <2>1, InsertedAt
    <2>3. /\ Len(t) = Len(hseq[h]) + 1
          /\ \A i \in 1 .. Len(hseq[h]) + 1 : t[i] = IF i = 1 THEN x ELSE hseq[h][i - 1]
        BY <1>1, <2>2 DEF Grown
    <2>4. t = <<x>> \o hseq[h]
        BY <1>1, <2>2, <2>3
    <2> QED BY <2>1, <2>4
<1> QED BY <1>6, <1>7, HInvTypes DEF AddHead, HInv

\* hlist_add_before.
LEMMA AddBeforeKeeps ==
    ASSUME HInv, NEW x \in Elems, NEW h \in HHeads, NEW k \in DOMAIN hseq[h],
           AddBefore(x, h, k)
    PROVE  HInv'
<1>1. /\ x \in Unhashed /\ hseq[h] \in Seq(Elems) /\ hmem \in HMemory
      /\ k \in 1 .. Len(hseq[h]) /\ k - 1 \in 0 .. Len(hseq[h]) /\ (k - 1) + 1 = k
    BY HInvTypes DEF AddBefore
<1>2. PICK a : a = CellAt(h, hseq[h], k - 1)
    OBVIOUS
<1>3. PICK b : b = hseq[h][k]
    OBVIOUS
<1>4. hmem.pprev[b] = a
    BY <1>1, <1>2, <1>3, ChainIs DEF HInv
<1>5. b = ElemAt(hseq[h], (k - 1) + 1)
    BY <1>1, <1>3 DEF ElemAt
<1>6. a \in Cells \ {NextOf(x)} /\ b \in Elems \ {x}
    <2>1. a \in Cells \ {NextOf(x)} /\ b \in (Elems \ {x}) \cup {NULL}
        BY <1>1, <1>2, <1>5, Fresh
    <2>2. b \in Elems
        BY <1>1, <1>3
    <2> QED BY <2>1, <2>2, CellsApart
<1>7. Enters(hmem, hlist_add_before(hmem, x, b), x, a, b)
    BY <1>1, <1>4, <1>6, AddBeforeSets
<1>8. HHolds(hlist_add_before(hmem, x, b), [hseq EXCEPT ![h] = InsertAt(hseq[h], (k - 1) + 1, x)], fakes)
    BY <1>1, <1>2, <1>5, <1>7, EnteredAt
<1> QED BY <1>1, <1>3, <1>8 DEF AddBefore, HInv

\* hlist_add_behind.
LEMMA AddBehindKeeps ==
    ASSUME HInv, NEW x \in Elems, NEW h \in HHeads, NEW k \in DOMAIN hseq[h],
           AddBehind(x, h, k)
    PROVE  HInv'
<1>1. /\ x \in Unhashed /\ hseq[h] \in Seq(Elems) /\ hmem \in HMemory
      /\ k \in 1 .. Len(hseq[h]) /\ k \in 0 .. Len(hseq[h])
    BY HInvTypes DEF AddBehind
<1>2. PICK p : p = hseq[h][k]
    OBVIOUS
<1>3. PICK b : b = ElemAt(hseq[h], k + 1)
    OBVIOUS
<1>4. hmem.cell[NextOf(p)] = b /\ CellAt(h, hseq[h], k) = NextOf(p)
    BY <1>1, <1>2, <1>3, ChainIs DEF HInv
<1>5. b \in (Elems \ {x}) \cup {NULL} /\ p \in Elems \ {x}
    <2>1. NextOf(p) # NextOf(x) /\ b \in (Elems \ {x}) \cup {NULL}
        BY <1>1, <1>3, <1>4, Fresh
    <2>2. p \in Elems
        BY <1>1, <1>2
    <2> QED BY <2>1, <2>2
<1>6. Enters(hmem, hlist_add_behind(hmem, x, p), x, NextOf(p), b)
    BY <1>1, <1>4, <1>5, AddBehindSets
<1>7. HHolds(hlist_add_behind(hmem, x, p), [hseq EXCEPT ![h] = InsertAt(hseq[h], k + 1, x)], fakes)
    BY <1>1, <1>3, <1>4, <1>6, EnteredAt
<1> QED BY <1>2, <1>7 DEF AddBehind, HInv

\* The assignments of hlist_move_list.
LEMMA MoveSets ==
    ASSUME NEW m \in HMemory, NEW old \in HHeads, NEW new \in HHeads, old # new,
           NEW b \in Elems \cup {NULL}, m.cell[First(old)] = b
    PROVE  LET m3 == hlist_move_list(m, old, new)
           IN  /\ m3 \in HMemory
               /\ m3.cell[First(new)] = b /\ m3.cell[First(old)] = NULL
               /\ \A c \in Cells \ {First(new), First(old)} : m3.cell[c] = m.cell[c]
               /\ b # NULL => m3.pprev[b] = First(new)
               /\ \A e \in Elems \ {b} : m3.pprev[e] = m.pprev[e]
<1> DEFINE m1 == SetCell(m, First(new), b)
           m2 == Back(m1, b, First(new))
           m3 == SetCell(m2, First(old), NULL)
<1>1. /\ First(old) \in Cells /\ First(new) \in Cells /\ First(old) # First(new)
      /\ First(new) \in Cells \cup {NULL, LIST_POISON2}
      /\ b \in Elems \cup {NULL, LIST_POISON1} /\ NULL \in Elems \cup {NULL, LIST_POISON1}
    BY CellsApart
<1>2. m1 \in HMemory /\ m1.cell = [m.cell EXCEPT ![First(new)] = b] /\ m1.pprev = m.pprev
    BY <1>1, CellSet
<1>3. m1.cell[First(new)] = b
    BY <1>1, <1>2, HMemoryTypes
<1> HIDE DEF m1
<1>4. /\ m2 \in HMemory /\ m2.cell = m1.cell
      /\ b # NULL => m2.pprev[b] = First(new)
      /\ \A e \in Elems \ {b} : m2.pprev[e] = m1.pprev[e]
    <2>1. m1 \in HMemory /\ b \in Elems \cup {NULL} /\ First(new) \in Cells
        BY <1>1, <1>2
    <2>2. Backed(m1, Back(m1, b, First(new)), b, First(new))
        BY <2>1, BackIs
    <2> QED BY <2>2 DEF Backed
<1> HIDE DEF m2
<1>5. m3 \in HMemory /\ m3.cell = [m2.cell EXCEPT ![First(old)] = NULL] /\ m3.pprev = m2.pprev
    BY <1>1, <1>4, CellSet
<1>6. hlist_move_list(m, old, new) = m3
    BY <1>3 DEF hlist_move_list, m1, m2
<1> HIDE DEF m3
<1>7. /\ m3 \in HMemory
      /\ m3.cell[First(new)] = b /\ m3.cell[First(old)] = NULL
      /\ \A c \in Cells \ {First(new), First(old)} : m3.cell[c] = m.cell[c]
      /\ b # NULL => m3.pprev[b] = First(new)
      /\ \A e \in Elems \ {b} : m3.pprev[e] = m.pprev[e]
    BY <1>1, <1>2, <1>4, <1>5, HMemoryTypes
<1> QED BY <1>6, <1>7

\* hlist_move_list.
LEMMA MoveListKeeps ==
    ASSUME HInv, NEW old \in HHeads, NEW new \in HHeads, MoveList(old, new)
    PROVE  HInv'
<1> DEFINE r == [hseq EXCEPT ![new] = hseq[old], ![old] = <<>>]
           s == hseq[old]
<1>1. /\ old # new /\ hseq[new] = <<>> /\ fakes' = fakes
      /\ hmem' = hlist_move_list(hmem, old, new) /\ hseq' = r
    BY DEF MoveList
<1>2. /\ HLists(hseq, fakes) /\ hmem \in HMemory /\ hseq \in [HHeads -> Seq(Elems)]
      /\ s \in Seq(Elems) /\ Len(s) \in Nat
      /\ fakes \subseteq Elems \ HOn(hseq)
    BY HInvTypes
<1>3. PICK b : b = ElemAt(s, 1)
    OBVIOUS
<1>4. b \in Elems \cup {NULL} /\ hmem.cell[First(old)] = b
    BY <1>2, <1>3, HListsTypes, ChainIs DEF HInv
<1>5. /\ hmem' \in HMemory
      /\ hmem'.cell[First(new)] = b /\ hmem'.cell[First(old)] = NULL
      /\ \A c \in Cells \ {First(new), First(old)} : hmem'.cell[c] = hmem.cell[c]
      /\ b # NULL => hmem'.pprev[b] = First(new)
      /\ \A e \in Elems \ {b} : hmem'.pprev[e] = hmem.pprev[e]
    BY <1>1, <1>2, <1>4, MoveSets
<1>6. /\ \A g \in HHeads \ {old, new} : r[g] = hseq[g]
      /\ r[new] = s /\ r[old] = <<>> /\ r \in [HHeads -> Seq(Elems)]
    BY <1>1, <1>2
<1> HIDE DEF r, s
<1>7. \A g \in HHeads : \A i \in 1 .. Len(hseq[g]) :
         /\ hseq[g][i] \in Elems /\ NextOf(hseq[g][i]) \in Cells \ {First(new), First(old)}
         /\ hseq[g][i] = b => g = old /\ i = 1
    <2>1. SUFFICES ASSUME NEW g \in HHeads, NEW i \in 1 .. Len(hseq[g])
                   PROVE  /\ hseq[g][i] \in Elems
                          /\ NextOf(hseq[g][i]) \in Cells \ {First(new), First(old)}
                          /\ hseq[g][i] = b => g = old /\ i = 1
        OBVIOUS
    <2>2. hseq[g][i] \in Elems /\ hseq[g][i] # NULL
        BY <1>2, HListsTypes, CellsApart
    <2>3. NextOf(hseq[g][i]) \in Cells \ {First(new), First(old)}
        BY <2>2, CellsApart
    <2>4. CASE 1 \in 1 .. Len(s)
        <3>1. b = hseq[old][1]
            BY <1>3, <2>4 DEF ElemAt, s
        <3> QED BY <1>2, <2>2, <2>3, <2>4, <3>1 DEF HLists, HOnceEach, s
    <2>5. CASE 1 \notin 1 .. Len(s)
        BY <1>3, <2>2, <2>3, <2>5 DEF ElemAt
    <2> QED BY <2>4, <2>5
<1>8. ASSUME NEW g \in HHeads \ {old, new}
      PROVE  Chain(hmem', g, r[g])
    <2>1. \A i \in 0 .. Len(hseq[g]) : CellAt(g, hseq[g], i) \in Cells \ {First(new), First(old)}
        BY <1>7, CellsApart DEF CellAt
    <2>2. \A i \in 0 .. Len(hseq[g]) :
              hmem'.cell[CellAt(g, hseq[g], i)] = hmem.cell[CellAt(g, hseq[g], i)]
        BY <1>5, <2>1
    <2>3. \A i \in 1 .. Len(hseq[g]) : hmem'.pprev[hseq[g][i]] = hmem.pprev[hseq[g][i]]
        BY <1>5, <1>7
    <2>4. Chain(hmem', g, hseq[g])
        BY <2>2, <2>3, ChainKept DEF HInv
    <2> QED BY <1>6, <2>4
<1>9. Chain(hmem', old, r[old])
    BY <1>5, <1>6 DEF Chain, CellAt, ElemAt
<1>10. Chain(hmem', new, r[new])
    <2>1. /\ \A i \in 1 .. Len(s) : /\ CellAt(old, s, i) = NextOf(s[i])
                                    /\ hmem.cell[NextOf(s[i])] = ElemAt(s, i + 1)
                                    /\ hmem.pprev[s[i]] = CellAt(old, s, i - 1)
        BY ChainIs DEF HInv, s
    <2>2. \A i \in 1 .. Len(s) : CellAt(new, s, i) = NextOf(s[i])
        BY DEF CellAt
    <2>3. CellAt(new, s, 0) = First(new)
        BY <1>2 DEF CellAt
    <2>4. ASSUME NEW i \in 0 .. Len(s)
          PROVE  hmem'.cell[CellAt(new, s, i)] = ElemAt(s, i + 1)
        <3>1. CASE i = 0
            BY <1>3, <1>5, <2>3, <3>1
        <3>2. CASE i # 0
            <4>1. i \in 1 .. Len(s)
                BY <1>2, <3>2
            <4>2. NextOf(s[i]) \in Cells \ {First(new), First(old)}
                BY <1>7, <4>1 DEF s
            <4> QED BY <1>5, <2>1, <2>2, <4>1, <4>2
        <3> QED BY <3>1, <3>2
    <2>5. ASSUME NEW i \in 1 .. Len(s)
          PROVE  hmem'.pprev[s[i]] = CellAt(new, s, i - 1)
        <3>1. s[i] \in Elems /\ (s[i] = b => i = 1)
            BY <1>7 DEF s
        <3>2. CASE i = 1
            <4>1. s[i] = b /\ CellAt(new, s, i - 1) = First(new)
                BY <1>2, <1>3, <2>3, <3>2 DEF ElemAt
            <4>2. b # NULL
                BY <3>1, <4>1, CellsApart
            <4> QED BY <1>5, <4>1, <4>2
        <3>3. CASE i # 1
            <4>1. i - 1 \in 1 .. Len(s)
                BY <1>2, <3>3
            <4>2. CellAt(new, s, i - 1) = CellAt(old, s, i - 1)
                BY <2>1, <2>2, <4>1
            <4>3. hmem'.pprev[s[i]] = hmem.pprev[s[i]]
                BY <1>5, <3>1, <3>3
            <4> QED BY <2>1, <4>2, <4>3
        <3> QED BY <3>2, <3>3
    <2> QED BY <1>6, <2>4, <2>5 DEF Chain
<1>11. ASSUME NEW g \in HHeads, NEW i \in 1 .. Len(r[g])
       PROVE  /\ g # old
              /\ g = new => i \in 1 .. Len(hseq[old]) /\ r[g][i] = hseq[old][i]
              /\ g # new => i \in 1 .. Len(hseq[g]) /\ r[g][i] = hseq[g][i]
    <2>1. g # old
        BY <1>6
    <2> QED BY <1>6, <2>1 DEF s
<1>12. HOnceEach(r)
    <2>1. SUFFICES ASSUME NEW f \in HHeads, NEW g \in HHeads,
                          NEW i \in 1 .. Len(r[f]), NEW j \in 1 .. Len(r[g]),
                          r[f][i] = r[g][j]
                   PROVE  f = g /\ i = j
        BY DEF HOnceEach
    <2>2. \A e, g2 \in HHeads : \A k \in 1 .. Len(hseq[e]), l \in 1 .. Len(hseq[g2]) :
              hseq[e][k] = hseq[g2][l] => e = g2 /\ k = l
        BY <1>2 DEF HLists, HOnceEach
    <2>3. /\ f # old /\ g # old
          /\ f = new => i \in 1 .. Len(hseq[old]) /\ r[f][i] = hseq[old][i]
          /\ f # new => i \in 1 .. Len(hseq[f]) /\ r[f][i] = hseq[f][i]
          /\ g = new => j \in 1 .. Len(hseq[old]) /\ r[g][j] = hseq[old][j]
          /\ g # new => j \in 1 .. Len(hseq[g]) /\ r[g][j] = hseq[g][j]
        BY <1>11
    <2> QED BY <2>1, <2>2, <2>3
<1>13. HOn(r) \subseteq HOn(hseq)
    <2>1. SUFFICES ASSUME NEW y \in HOn(r)
                   PROVE  y \in HOn(hseq)
        OBVIOUS
    <2>2. PICK g \in HHeads : \E i \in 1 .. Len(r[g]) : y = r[g][i]
        BY DEF HOn
    <2>3. PICK i \in 1 .. Len(r[g]) : y = r[g][i]
        BY <2>2
    <2>4. \E f \in HHeads : \E j \in 1 .. Len(hseq[f]) : y = hseq[f][j]
        BY <1>11, <2>3
    <2> QED BY <2>4 DEF HOn
<1>14. HOn(hseq) \subseteq HOn(r)
    <2>1. SUFFICES ASSUME NEW y \in HOn(hseq)
                   PROVE  y \in HOn(r)
        OBVIOUS
    <2>2. PICK g \in HHeads : \E i \in 1 .. Len(hseq[g]) : y = hseq[g][i]
        BY DEF HOn
    <2>3. PICK i \in 1 .. Len(hseq[g]) : y = hseq[g][i]
        BY <2>2
    <2>4. PICK f \in HHeads : \E j \in 1 .. Len(r[f]) : y = r[f][j]
        <3>1. g # new
            BY <1>1
        <3>2. CASE g = old
            BY <1>6, <2>3, <3>2 DEF s
        <3>3. CASE g # old
            BY <1>6, <2>3, <3>1, <3>3
        <3> QED BY <3>2, <3>3
    <2> QED BY <2>4 DEF HOn
<1>15. HLists(r, fakes)
    BY <1>2, <1>6, <1>12, <1>13 DEF HLists
<1>16. ASSUME NEW n \in fakes
       PROVE  hmem'.cell[NextOf(n)] = NULL /\ hmem'.pprev[n] = NextOf(n)
    <2>1. n \in Elems /\ n \notin HOn(hseq) /\ NextOf(n) \in Cells \ {First(new), First(old)}
        BY <1>2, CellsApart
    <2>2. n # b
        BY <1>2, <1>3, <2>1, HListsTypes, CellsApart DEF ElemAt, s
    <2> QED BY <1>5, <2>1, <2>2 DEF HInv, HHolds
<1>17. ASSUME NEW n \in Elems \ (HOn(r) \cup fakes)
       PROVE  hmem'.pprev[n] \in {NULL, LIST_POISON2}
    <2>1. n \in Elems \ (HOn(hseq) \cup fakes)
        BY <1>14
    <2>2. n # b
        BY <1>2, <1>3, <2>1, HListsTypes, CellsApart DEF ElemAt, s
    <2> QED BY <1>5, <2>1, <2>2 DEF HInv, HHolds
<1>18. \A g \in HHeads : Chain(hmem', g, r[g])
    BY <1>8, <1>9, <1>10
<1> QED BY <1>1, <1>5, <1>15, <1>16, <1>17, <1>18 DEF HInv, HHolds
-----------------------------------------------------------------------------
(***************************************************************************)
(* The theorems.                                                           *)
(***************************************************************************)
\* The heads are empty at the start and no node is initialised.
LEMMA InitHInv == HInit => HInv
<1> SUFFICES ASSUME HInit PROVE HInv
    OBVIOUS
<1>1. /\ hmem = [cell |-> [c \in Cells |-> IF c[1] = "first" THEN NULL ELSE LIST_POISON1],
                 pprev |-> [n \in Elems |-> LIST_POISON2]]
      /\ hseq = [h \in HHeads |-> <<>>] /\ fakes = {}
    BY DEF HInit
<1>2. hmem \in HMemory
    BY <1>1 DEF HMemory
<1>3. hseq \in [HHeads -> Seq(Elems)] /\ \A h \in HHeads : Len(hseq[h]) = 0
    BY <1>1
<1>4. HOnceEach(hseq)
    BY <1>3 DEF HOnceEach
<1>5. ASSUME NEW h \in HHeads
      PROVE  Chain(hmem, h, hseq[h])
    <2>1. First(h) \in Cells /\ First(h)[1] = "first"
        BY CellsApart DEF First
    <2>2. hmem.cell[First(h)] = NULL
        BY <1>1, <2>1
    <2> QED BY <1>3, <2>2 DEF Chain, CellAt, ElemAt
<1>6. \A n \in Elems : hmem.pprev[n] = LIST_POISON2
    BY <1>1
<1> QED BY <1>1, <1>2, <1>3, <1>4, <1>5, <1>6 DEF HInv, HHolds, HLists

\* Every operation keeps the lists.
LEMMA NextHInv == HInv /\ [HNext]_hvars => HInv'
<1> SUFFICES ASSUME HInv, [HNext]_hvars PROVE HInv'
    OBVIOUS
<1>1. ASSUME NEW n \in Elems, InitNode(n) \/ AddFake(n) \/ HDelete(n) \/ DeleteInit(n)
      PROVE  HInv'
    BY <1>1, InitNodeKeeps, AddFakeKeeps, HDeleteKeeps, DeleteInitKeeps
<1>2. ASSUME NEW n \in Elems, NEW h \in HHeads, AddHead(n, h)
      PROVE  HInv'
    BY <1>2, AddHeadKeeps
<1>3. ASSUME NEW n \in Elems, NEW h \in HHeads, NEW i \in DOMAIN hseq[h],
             AddBefore(n, h, i) \/ AddBehind(n, h, i)
      PROVE  HInv'
    BY <1>3, AddBeforeKeeps, AddBehindKeeps
<1>4. ASSUME NEW old \in HHeads, NEW new \in HHeads, MoveList(old, new)
      PROVE  HInv'
    BY <1>4, MoveListKeeps
<1>5. CASE UNCHANGED hvars
    BY <1>5 DEF HInv, hvars
<1> QED BY <1>1, <1>2, <1>3, <1>4, <1>5 DEF HNext

\* The invariant says what the run checks of the pointers.
LEMMA HInvImplies == HInv => HListInv
<1> SUFFICES ASSUME HInv PROVE HListInv
    OBVIOUS
<1>1. HTypeOK
    BY HInvTypes DEF HTypeOK, HMemory
<1>2. ASSUME NEW h \in HHeads
      PROVE  LET s == hseq[h]
                 Cell(i) == IF i = 0 THEN First(h) ELSE NextOf(s[i])
             IN  /\ \A i \in DOMAIN s : /\ hmem.cell[Cell(i - 1)] = s[i]
                                        /\ hmem.pprev[s[i]] = Cell(i - 1)
                 /\ hmem.cell[Cell(Len(s))] = NULL
    <2> DEFINE s == hseq[h]
               Cell(i) == IF i = 0 THEN First(h) ELSE NextOf(s[i])
    <2>1. s \in Seq(Elems) /\ Len(s) \in Nat /\ DOMAIN s = 1 .. Len(s)
        BY HInvTypes
    <2>2. /\ \A i \in 0 .. Len(s) : hmem.cell[CellAt(h, s, i)] = ElemAt(s, i + 1)
          /\ \A i \in 1 .. Len(s) : hmem.pprev[s[i]] = CellAt(h, s, i - 1)
        BY DEF HInv, HHolds, Chain
    <2>3. \A i \in 0 .. Len(s) : Cell(i) = CellAt(h, s, i)
        BY <2>1 DEF CellAt
    <2> HIDE DEF Cell, s
    <2>4. \A i \in 1 .. Len(s) : /\ i - 1 \in 0 .. Len(s) /\ (i - 1) + 1 = i
                                 /\ ElemAt(s, i) = s[i]
        BY <2>1 DEF ElemAt
    <2>5. \A i \in 1 .. Len(s) : hmem.cell[Cell(i - 1)] = s[i] /\ hmem.pprev[s[i]] = Cell(i - 1)
        BY <2>2, <2>3, <2>4
    <2>6. Len(s) \in 0 .. Len(s) /\ ElemAt(s, Len(s) + 1) = NULL
        BY <2>1 DEF ElemAt
    <2>7. hmem.cell[Cell(Len(s))] = NULL
        BY <2>2, <2>3, <2>6
    <2> QED BY <2>1, <2>5, <2>7 DEF Cell, s
<1> QED BY <1>1, <1>2 DEF HListInv, Chains

\* What the predicates of the doubly linked lists tell follows from the rings.
LEMMA InvPredicates == Inv => Predicates
<1> SUFFICES ASSUME Inv, NEW h \in live
             PROVE  /\ list_empty(mem, h) <=> seq[h] = <<>>
                    /\ list_empty_careful(mem, h) <=> seq[h] = <<>>
                    /\ list_is_singular(mem, h) <=> Len(seq[h]) = 1
                    /\ \A e \in Linked : list_is_last(mem, e, h)
                                           <=> seq[h] # <<>> /\ e = Last(seq[h])
    BY DEF Predicates
<1> DEFINE s == seq[h]
<1>1. /\ h \in Heads /\ s \in Seq(Entries) /\ Len(s) \in Nat /\ mem \in Memory
      /\ Ring(mem, h, s) /\ Lists(seq, live)
    BY InvTypes
<1>2. list_empty(mem, h) <=> s = <<>>
    BY Emptiness
<1>3. mem.next[h] = NodeAt(h, s, 1) /\ mem.prev[h] = NodeAt(h, s, Len(s))
    BY <1>1, Neighbours
<1>4. s = <<>> <=> Len(s) = 0
    BY <1>1
<1> HIDE DEF s
<1>5. list_empty_careful(mem, h) <=> s = <<>>
    <2>1. ASSUME s = <<>>
          PROVE  mem.prev[h] = h
        BY <1>3, <1>4, <2>1 DEF NodeAt
    <2> QED BY <1>2, <2>1 DEF list_empty, list_empty_careful
<1>6. list_is_singular(mem, h) <=> Len(s) = 1
    <2>1. ASSUME Len(s) = 1
          PROVE  mem.next[h] = mem.prev[h]
        BY <1>3, <2>1
    <2>2. ASSUME mem.next[h] = mem.prev[h], Len(s) # 0
          PROVE  Len(s) = 1
        <3>1. 1 \in 0 .. Len(s) /\ Len(s) \in 0 .. Len(s)
            BY <1>1, <2>2
        <3>2. /\ 1 \in 1 .. Len(s) + 1 /\ Len(s) \in 1 .. Len(s) + 1
              /\ NodeAt(h, s, 1) = NodeAt(h, s, Len(s))
            BY <1>1, <1>3, <2>2
        <3>3. \A i \in 1 .. Len(s) + 1, j \in 1 .. Len(s) + 1 :
                  NodeAt(h, s, i) = NodeAt(h, s, j) => i = j
            BY <1>1, Distinct DEF s
        <3> QED BY <3>2, <3>3
    <2> QED BY <1>2, <1>4, <2>1, <2>2 DEF list_is_singular
<1>7. ASSUME NEW e \in Linked
      PROVE  list_is_last(mem, e, h) <=> s # <<>> /\ e = Last(s)
    <2>1. PICK g \in Heads : \E k \in 1 .. Len(seq[g]) : e = seq[g][k]
        BY LinkedIs DEF On
    <2>2. PICK k \in 1 .. Len(seq[g]) : e = seq[g][k]
        BY <2>1
    <2>3. g \in live /\ seq[g] \in Seq(Entries) /\ Len(seq[g]) \in Nat
        <3>1. g \notin live => Len(seq[g]) = 0
            BY InvTypes DEF Lists
        <3> QED BY <2>2, <3>1, InvTypes
    <2>4. mem.next[e] = NodeAt(g, seq[g], k + 1)
        BY <1>1, <2>2, <2>3, InvTypes, Neighbours
    <2>5. NodeAt(g, seq[g], k + 1) = h <=> g = h /\ k = Len(seq[g])
        <3>1. CASE k + 1 \in 1 .. Len(seq[g])
            BY <1>1, <2>3, <3>1, NodesAssumption DEF NodeAt
        <3>2. CASE k + 1 \notin 1 .. Len(seq[g])
            <4>1. k = Len(seq[g])
                BY <2>3, <3>2
            <4> QED BY <3>2, <4>1 DEF NodeAt
        <3> QED BY <3>1, <3>2
    <2>6. g = h /\ k = Len(seq[g]) => s # <<>> /\ e = Last(s)
        <3>1. ASSUME g = h, k = Len(seq[g])
              PROVE  s # <<>> /\ e = Last(s)
            BY <1>1, <2>2, <3>1 DEF Last, s
        <3> QED BY <3>1
    <2>7. s # <<>> /\ e = Last(s) => g = h /\ k = Len(seq[g])
        <3>1. ASSUME s # <<>>, e = Last(s)
              PROVE  g = h /\ k = Len(seq[g])
            <4>1. Len(s) \in 1 .. Len(s) /\ e = s[Len(s)]
                BY <1>1, <1>4, <3>1 DEF Last
            <4>2. \A i \in 1 .. Len(seq[g]), j \in 1 .. Len(s) :
                      seq[g][i] = s[j] => g = h /\ i = j
                BY <1>1 DEF Lists, OnceEach, s
            <4>3. g = h /\ k = Len(s)
                BY <2>2, <4>1, <4>2
            <4> QED BY <4>3 DEF s
        <3> QED BY <3>1
    <2> QED BY <2>4, <2>5, <2>6, <2>7 DEF list_is_last
<1> QED BY <1>2, <1>5, <1>6, <1>7 DEF s

\* What the predicates of the hash lists tell follows from the chains.
LEMMA HInvPredicates == HInv => HPredicates
<1> SUFFICES ASSUME HInv PROVE HPredicates
    OBVIOUS
<1>1. /\ HLists(hseq, fakes) /\ Hashed = HOn(hseq) /\ HOn(hseq) \subseteq Elems
      /\ \A h \in HHeads : hseq[h] \in Seq(Elems) /\ Len(hseq[h]) \in Nat
    BY HInvTypes, HListsTypes
<1>2. ASSUME NEW n \in HOn(hseq)
      PROVE  \E h \in HHeads : \E k \in 1 .. Len(hseq[h]) :
                 /\ n = hseq[h][k]
                 /\ hmem.pprev[n] = CellAt(h, hseq[h], k - 1)
                 /\ hmem.cell[NextOf(n)] = ElemAt(hseq[h], k + 1)
    <2>1. PICK h \in HHeads : \E k \in 1 .. Len(hseq[h]) : n = hseq[h][k]
        BY DEF HOn
    <2>2. PICK k \in 1 .. Len(hseq[h]) : n = hseq[h][k]
        BY <2>1
    <2>3. /\ hmem.pprev[n] = CellAt(h, hseq[h], k - 1)
          /\ hmem.cell[NextOf(n)] = ElemAt(hseq[h], k + 1)
        BY <2>2, ChainIs DEF HInv
    <2> QED BY <2>2, <2>3
<1>3. \A n \in fakes : hmem.pprev[n] = NextOf(n) /\ NextOf(n) \in Cells
    BY <1>1, CellsApart DEF HInv, HHolds, HLists
<1>4. \A n \in Elems \ (HOn(hseq) \cup fakes) : hmem.pprev[n] \notin Cells
    BY CellsApart DEF HInv, HHolds
<1>5. \A n \in HOn(hseq) : hmem.pprev[n] \in Cells /\ hmem.pprev[n] # NextOf(n)
    <2>1. SUFFICES ASSUME NEW n \in HOn(hseq)
                   PROVE  hmem.pprev[n] \in Cells /\ hmem.pprev[n] # NextOf(n)
        OBVIOUS
    <2>2. PICK h \in HHeads : \E k \in 1 .. Len(hseq[h]) :
                 n = hseq[h][k] /\ hmem.pprev[n] = CellAt(h, hseq[h], k - 1)
        BY <1>2
    <2>3. PICK k \in 1 .. Len(hseq[h]) :
                 n = hseq[h][k] /\ hmem.pprev[n] = CellAt(h, hseq[h], k - 1)
        BY <2>2
    <2>4. k - 1 \in 0 .. Len(hseq[h]) /\ k \in 0 .. Len(hseq[h]) /\ k - 1 # k /\ k - 1 \in Int
        BY <1>1
    <2>5. CellAt(h, hseq[h], k) = NextOf(n)
        BY <2>3 DEF CellAt
    <2>6. CellAt(h, hseq[h], k - 1) # CellAt(h, hseq[h], k)
        BY <1>1, <2>4, CellsOnce
    <2> QED BY <1>1, <2>3, <2>4, <2>5, <2>6, HListsTypes
<1>6. ASSUME NEW n \in Elems
      PROVE  /\ n \in Hashed \cup fakes => ~ hlist_unhashed(hmem, n)
             /\ hlist_fake(hmem, n) <=> n \in fakes
    <2>1. NextOf(n) \in Cells /\ NULL \notin Cells
        BY CellsApart
    <2>2. fakes \cap HOn(hseq) = {}
        BY <1>1 DEF HLists
    <2> QED BY <1>1, <1>3, <1>4, <1>5, <2>1, <2>2 DEF hlist_unhashed, hlist_fake
<1>7. ASSUME NEW n \in Elems, NEW h \in HHeads
      PROVE  hlist_is_singular_node(hmem, n, h) <=> hseq[h] = <<n>>
    <2>1. ASSUME hseq[h] = <<n>>
          PROVE  hmem.cell[NextOf(n)] = NULL /\ hmem.pprev[n] = First(h)
        <3>1. Len(hseq[h]) = 1 /\ hseq[h][1] = n
            BY <2>1
        <3>2. /\ 1 \in 1 .. Len(hseq[h])
              /\ hmem.cell[NextOf(n)] = ElemAt(hseq[h], 1 + 1)
              /\ hmem.pprev[n] = CellAt(h, hseq[h], 1 - 1)
            BY <3>1, ChainIs DEF HInv
        <3> QED BY <3>1, <3>2 DEF ElemAt, CellAt
    <2>2. ASSUME hmem.cell[NextOf(n)] = NULL, hmem.pprev[n] = First(h)
          PROVE  hseq[h] = <<n>>
        <3>1. n \in HOn(hseq)
            <4>1. First(h) \in Cells /\ First(h) # NextOf(n)
                BY CellsApart
            <4> QED BY <1>3, <1>4, <2>2, <4>1
        <3>2. PICK g \in HHeads : \E k \in 1 .. Len(hseq[g]) :
                     /\ n = hseq[g][k]
                     /\ hmem.pprev[n] = CellAt(g, hseq[g], k - 1)
                     /\ hmem.cell[NextOf(n)] = ElemAt(hseq[g], k + 1)
            BY <1>2, <3>1
        <3>3. PICK k \in 1 .. Len(hseq[g]) :
                     /\ n = hseq[g][k]
                     /\ hmem.pprev[n] = CellAt(g, hseq[g], k - 1)
                     /\ hmem.cell[NextOf(n)] = ElemAt(hseq[g], k + 1)
            BY <3>2
        <3>4. g = h /\ k - 1 = 0
            <4>1. k - 1 \in 0 .. Len(hseq[g]) /\ 0 \in 0 .. Len(hseq[h])
                BY <1>1
            <4>2. CellAt(h, hseq[h], 0) = First(h)
                BY <1>1 DEF CellAt
            <4>3. CellAt(g, hseq[g], k - 1) = CellAt(h, hseq[h], 0)
                BY <2>2, <3>3, <4>2
            <4> QED BY <1>1, <4>1, <4>3, CellsOnce
        <3>5. k + 1 \notin 1 .. Len(hseq[g])
            <4>1. ASSUME k + 1 \in 1 .. Len(hseq[g])
                  PROVE  FALSE
                <5>1. hseq[g][k + 1] \in Elems
                    BY <1>1, <4>1
                <5> QED BY <2>2, <3>3, <4>1, <5>1, CellsApart DEF ElemAt
            <4> QED BY <4>1
        <3>6. k = 1 /\ Len(hseq[h]) = 1
            <4>1. k \in 1 .. Len(hseq[h]) /\ k + 1 \notin 1 .. Len(hseq[h])
                BY <3>4, <3>5
            <4>2. PICK N : N = Len(hseq[h])
                OBVIOUS
            <4>3. N \in Nat /\ k \in 1 .. N /\ k + 1 \notin 1 .. N
                BY <1>1, <4>1, <4>2
            <4>4. k = N
                BY <4>3
            <4>5. k = 1
                BY <3>4
            <4> QED BY <4>2, <4>4, <4>5
        <3>7. hseq[h][1] = n
            BY <3>3, <3>4, <3>6
        <3> QED BY <1>1, <3>6, <3>7
    <2> QED BY <2>1, <2>2 DEF hlist_is_singular_node
<1>8. ASSUME NEW h \in HHeads
      PROVE  hlist_empty(hmem, h) <=> hseq[h] = <<>>
    <2>1. hmem.cell[First(h)] = ElemAt(hseq[h], 1)
        BY ChainIs DEF HInv
    <2>2. CASE hseq[h] = <<>>
        BY <2>1, <2>2 DEF hlist_empty, ElemAt
    <2>3. CASE hseq[h] # <<>>
        <3>1. 1 \in 1 .. Len(hseq[h])
            BY <1>1, <2>3
        <3>2. ElemAt(hseq[h], 1) \in Elems
            BY <1>1, <3>1 DEF ElemAt
        <3> QED BY <2>1, <2>3, <3>2, CellsApart DEF hlist_empty
    <2> QED BY <2>2, <2>3
<1> QED BY <1>6, <1>7, <1>8 DEF HPredicates

\* For any heads and elements and any sequence of calls that list.h allows,
\* every hash list is a chain of the caller's elements in the caller's order,
\* and each pprev is the address of the pointer that leads to its node: the
\* hlist functions of src/uki/list.h.
THEOREM HListInvariance == HSpec => []HListInv
<1>1. HInit => HInv
    BY InitHInv
<1>2. HInv /\ [HNext]_hvars => HInv'
    BY NextHInv
<1>3. HInv => HListInv
    BY HInvImplies
<1> QED BY <1>1, <1>2, <1>3, PTL DEF HSpec

\* The predicates of src/uki/list.h (list_empty, list_empty_careful,
\* list_is_singular, list_is_last, hlist_unhashed, hlist_fake,
\* hlist_is_singular_node, hlist_empty) tell the truth after any sequence of
\* calls that list.h allows.
THEOREM PredicatesTrue == Spec /\ HSpec => []ListPredicates
<1>1. Init => Inv
    BY InitInv
<1>2. Inv /\ [Next]_vars => Inv'
    BY NextInv
<1>3. HInit => HInv
    BY InitHInv
<1>4. HInv /\ [HNext]_hvars => HInv'
    BY NextHInv
<1>5. Inv /\ HInv => ListPredicates
    BY InvPredicates, HInvPredicates DEF ListPredicates
<1> QED BY <1>1, <1>2, <1>3, <1>4, <1>5, PTL DEF Spec, HSpec
=============================================================================
