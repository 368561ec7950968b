-------------------------- MODULE TimerRaceProofs --------------------------
(***************************************************************************)
(* Proofs about the threads of TimerRace, for any number of clients,       *)
(* timers and lists.  Without any assumption, the lock keeps nobody out.   *)
(* Threads that keep apart, on the other hand, always have a memory that   *)
(* their queued assignments lead to in whatever order they arrive, and     *)
(* that memory holds the lists: this is what RaceIInv says, and what the   *)
(* properties of the lists at rest follow from.                            *)
(***************************************************************************)
EXTENDS TimerRace, KernelListProofs

\* What a thread may be about to write.
Assignments ==
    [field : {"next"}, node : Nodes \cup {NULL, LIST_POISON2}, value : Nodes \cup {NULL}]
    \cup [field : {"prev"}, node : Nodes \cup {NULL, LIST_POISON2},
          value : Nodes \cup {NULL, LIST_POISON2}]

\* Where the worker is while its work list is in use, and while it may hold
\* the lock.
Serving == {"next", "release", "fn", "relock", "check", "file", "leave"}
Holding == {"loop", "take", "walk", "cascade", "step", "next", "release"}

\* Where the threads may be, and what they have in their local variables
\* there, whether or not they keep apart.
ControlInv ==
    /\ RaceTypeOK
    /\ stores \in [Threads -> Seq(Assignments)]
    /\ \A c \in Clients : pc[c] \in {"idle", "check", "file", "leave"}
    /\ pc[Worker] # "idle"
    /\ \A th \in Threads :
          pc[th] \in {"check", "file"} => timer[th] \in Timers /\ call[th] \in Calls
    /\ live = Buckets \cup (IF pc[Worker] \in Serving THEN {WorkList} ELSE {})
    /\ pc[Worker] = "take" => taken \in Buckets \X {WorkList, TvList}
    /\ pc[Worker] = "cascade" => stores[Worker] = << >>
    /\ locked => pc[Worker] \in Holding

\* The two fields of the memory, by their names.
LEMMA MemoryFields ==
    ASSUME RaceTypeOK
    PROVE  /\ mem.next \in [Nodes -> Nodes \cup {NULL}]
           /\ mem.prev \in [Nodes -> Nodes \cup {NULL, LIST_POISON2}]
           /\ mem = [next |-> mem.next, prev |-> mem.prev]
           /\ mem["next"] = mem.next /\ mem["prev"] = mem.prev
BY DEF RaceTypeOK

\* The program starts with that.
LEMMA InitControl == RaceInit => ControlInv
<1> SUFFICES ASSUME RaceInit PROVE ControlInv
    OBVIOUS
<1>1. RaceTypeOK
    BY ThreadsAssumption DEF RaceInit, RaceTypeOK, Labels, Threads, Timers, Buckets
<1>2. stores \in [Threads -> Seq(Assignments)]
    BY DEF RaceInit
<1>3. \A c \in Clients : pc[c] \in {"idle", "check", "file", "leave"}
    BY ThreadsAssumption DEF RaceInit, Threads
<1>4. pc[Worker] = "sleep" /\ ~ locked /\ live = Buckets
    BY DEF RaceInit, Threads
<1>5. \A th \in Threads : pc[th] \notin {"check", "file"}
    BY DEF RaceInit
<1> QED BY <1>1, <1>2, <1>3, <1>4, <1>5 DEF ControlInv, Serving

\* An assignment that reaches the memory keeps it, and its types.
LEMMA StoreControl ==
    ASSUME ControlInv, NEW th \in Threads, Store(th)
    PROVE  ControlInv'
<1>1. th \in Threads /\ stores[th] \in Seq(Assignments) /\ stores[th] # << >>
    BY DEF ControlInv, Store
<1> DEFINE a == Head(stores[th])
<1>2. a \in Assignments /\ Tail(stores[th]) \in Seq(Assignments)
    BY <1>1
<1>3. UNCHANGED <<live, pc, call, timer, tmp, taken, locked, gone>>
    BY DEF Store
<1>4. CASE a.node \in Nodes
    <2>1. mem' = [mem EXCEPT ![a.field][a.node] = a.value] /\ stores' = [stores EXCEPT ![th] = Tail(@)]
        BY <1>4 DEF Store
    <2> HIDE DEF a
    <2>2. mem' \in [next : [Nodes -> Nodes \cup {NULL}],
                    prev : [Nodes -> Nodes \cup {NULL, LIST_POISON2}]]
        <3>1. CASE a.field = "next"
            <4>1. a.value \in Nodes \cup {NULL}
                BY <1>2, <3>1 DEF Assignments
            <4> QED BY <1>4, <2>1, <3>1, <4>1 DEF ControlInv, RaceTypeOK
        <3>2. CASE a.field = "prev"
            <4>1. a.value \in Nodes \cup {NULL, LIST_POISON2}
                BY <1>2, <3>2 DEF Assignments
            <4> QED BY <1>4, <2>1, <3>2, <4>1 DEF ControlInv, RaceTypeOK
        <3> QED BY <1>2, <3>1, <3>2 DEF Assignments
    <2>3. RaceTypeOK'
        BY <1>3, <2>2 DEF ControlInv, RaceTypeOK, Timers
    <2>4. stores' \in [Threads -> Seq(Assignments)]
        BY <1>2, <2>1 DEF ControlInv
    <2>5. pc[Worker] = "cascade" => stores'[Worker] = << >>
        BY <1>1, <2>1 DEF ControlInv
    <2> QED BY <1>3, <2>3, <2>4, <2>5 DEF ControlInv
<1>5. CASE a.node \notin Nodes
    <2>1. UNCHANGED <<mem, stores>>
        BY <1>5 DEF Store
    <2> QED BY <1>3, <2>1 DEF ControlInv, RaceTypeOK
<1> QED BY <1>4, <1>5

\* The assignments that the list operations queue.
LEMMA QueuesTyped ==
    ASSUME RaceTypeOK, NEW t \in Nodes, NEW h \in Nodes, NEW clear \in BOOLEAN
    PROVE  /\ AddTail(t, h) \in Seq(Assignments)
           /\ Detach(t, clear) \in Seq(Assignments)
           /\ ReplaceNext(t, h) \in Seq(Assignments)
           /\ ReplacePrev(t, h) \in Seq(Assignments)
<1>1. \A n \in Nodes \cup {NULL, LIST_POISON2} :
          /\ \A x \in Nodes \cup {NULL} : Assign("next", n, x) \in Assignments
          /\ \A x \in Nodes \cup {NULL, LIST_POISON2} : Assign("prev", n, x) \in Assignments
    <2>1. SUFFICES ASSUME NEW n \in Nodes \cup {NULL, LIST_POISON2}
                   PROVE  /\ \A x \in Nodes \cup {NULL} : Assign("next", n, x) \in Assignments
                          /\ \A x \in Nodes \cup {NULL, LIST_POISON2} : Assign("prev", n, x) \in Assignments
        OBVIOUS
    <2>2. ASSUME NEW x \in Nodes \cup {NULL}
          PROVE  Assign("next", n, x) \in Assignments
        BY DEF Assign, Assignments
    <2>3. ASSUME NEW x \in Nodes \cup {NULL, LIST_POISON2}
          PROVE  Assign("prev", n, x) \in Assignments
        BY DEF Assign, Assignments
    <2> QED BY <2>2, <2>3
<1>2. \A n \in Nodes : /\ mem.next[n] \in Nodes \cup {NULL}
                       /\ mem.prev[n] \in Nodes \cup {NULL, LIST_POISON2}
    BY MemoryFields
<1> HIDE DEF Assignments
<1>3. AddTail(t, h) \in Seq(Assignments)
    BY <1>1, <1>2 DEF AddTail
<1>4. Detach(t, clear) \in Seq(Assignments)
    <2>0. /\ Assign("prev", mem.next[t], mem.prev[t]) \in Assignments
          /\ Assign("next", mem.prev[t], mem.next[t]) \in Assignments
        BY <1>1, <1>2
    <2>1. << Assign("prev", mem.next[t], mem.prev[t]),
             Assign("next", mem.prev[t], mem.next[t]) >> \in Seq(Assignments)
        BY <2>0
    <2>2. << Assign("next", t, NULL) >> \in Seq(Assignments) /\ << >> \in Seq(Assignments)
        BY <1>1
    <2>3. << Assign("prev", t, LIST_POISON2) >> \in Seq(Assignments)
        BY <1>1
    <2> QED BY <2>1, <2>2, <2>3 DEF Detach
<1>5. ReplaceNext(t, h) \in Seq(Assignments)
    BY <1>1, <1>2 DEF ReplaceNext
<1>6. ReplacePrev(t, h) \in Seq(Assignments)
    BY <1>1, <1>2 DEF ReplacePrev
<1> QED BY <1>3, <1>4, <1>5, <1>6

\* What the constants are to each other.
LEMMA NodesOfTheRace ==
    /\ Timers \subseteq Nodes /\ Buckets \subseteq Nodes
    /\ WorkList \in Nodes /\ TvList \in Nodes /\ WorkList # TvList
    /\ WorkList \notin Buckets /\ TvList \notin Buckets
    /\ NULL \notin Nodes /\ LIST_POISON2 \notin Nodes
    /\ Heads \cap Timers = {}
    /\ Worker \in Threads /\ Clients \subseteq Threads /\ Worker \notin Clients
BY ThreadsAssumption, NodesAssumption DEF Timers, Buckets, Nodes, Threads

\* The steps of a call.
LEMMA CallControl ==
    ASSUME ControlInv, NEW th \in Threads,
           \/ Check(th) \/ Leave(th)
           \/ \E b \in Buckets : File(th, b)
           \/ \E f \in Calls, t \in Timers : Enter(th, f, t)
    PROVE  ControlInv'
<1>0. /\ RaceTypeOK /\ stores \in [Threads -> Seq(Assignments)]
      /\ stores[th] = << >> /\ pc[th] \in {"check", "file", "leave", Outside(th)}
      /\ pc \in [Threads -> Labels]
    BY DEF ControlInv, RaceTypeOK, Check, Leave, File, Enter, At
<1>1. /\ UNCHANGED <<mem, live, tmp, taken>>
      /\ \/ locked' = locked
         \/ locked' = FALSE
    BY DEF Check, Leave, File, Enter, vars
<1>2. \E l \in {"check", "file", "leave", Outside(th)} : pc' = [pc EXCEPT ![th] = l]
    BY DEF Check, Leave, File, Enter, Goto
<1>3. \E q \in Seq(Assignments) : stores' = [stores EXCEPT ![th] = q]
    <2>1. CASE Check(th)
        <3>1. timer[th] \in Nodes /\ (call[th] = "del") \in BOOLEAN
            BY <2>1, NodesOfTheRace DEF ControlInv, Check, At
        <3>2. Detach(timer[th], call[th] = "del") \in Seq(Assignments)
            BY <1>0, <3>1, QueuesTyped
        <3>3. << >> \in Seq(Assignments) /\ stores = [stores EXCEPT ![th] = << >>]
            BY <1>0
        <3> QED BY <2>1, <3>2, <3>3 DEF Check, Queue
    <2>2. ASSUME NEW b \in Buckets, File(th, b)
          PROVE  \E q \in Seq(Assignments) : stores' = [stores EXCEPT ![th] = q]
        <3>1. timer[th] \in Nodes /\ b \in Nodes
            BY <2>2, NodesOfTheRace DEF ControlInv, File, At
        <3>2. AddTail(timer[th], b) \in Seq(Assignments)
            BY <1>0, <3>1, QueuesTyped
        <3> QED BY <2>2, <3>2 DEF File, Queue
    <2>3. CASE UNCHANGED stores
        BY <1>0, <2>3
    <2> QED BY <2>1, <2>2, <2>3 DEF Leave, Enter
<1>4. /\ call' \in [Threads -> {"none"} \cup Calls]
      /\ timer' \in [Threads -> Nodes \cup {NULL}]
      /\ gone' \subseteq Timers
    <2>1. CASE Check(th)
        <3>1. timer[th] \in Timers
            BY <2>1 DEF ControlInv, Check, At
        <3> QED BY <2>1, <3>1 DEF ControlInv, RaceTypeOK, Check
    <2>2. ASSUME NEW b \in Buckets, File(th, b)
          PROVE  call' = call /\ timer' = timer /\ gone' = gone
        BY <2>2 DEF File
    <2>3. CASE Leave(th)
        BY <2>3 DEF ControlInv, RaceTypeOK, Leave
    <2>4. ASSUME NEW f \in Calls, NEW t \in Timers, Enter(th, f, t)
          PROVE  /\ call' \in [Threads -> {"none"} \cup Calls]
                 /\ timer' \in [Threads -> Nodes \cup {NULL}]
                 /\ gone' \subseteq Timers
        BY <2>4, NodesOfTheRace DEF ControlInv, RaceTypeOK, Enter
    <2> QED BY <1>0, <2>1, <2>2, <2>3, <2>4 DEF RaceTypeOK
<1>5. \A o \in Threads : pc'[o] \in {"check", "file"} => timer'[o] \in Timers /\ call'[o] \in Calls
    <2>1. CASE Check(th)
        BY <2>1 DEF ControlInv, RaceTypeOK, Check, Goto, At
    <2>2. ASSUME NEW b \in Buckets, File(th, b)
          PROVE  \A o \in Threads : pc'[o] \in {"check", "file"} => timer'[o] \in Timers /\ call'[o] \in Calls
        BY <2>2 DEF ControlInv, RaceTypeOK, File, Goto, At
    <2>3. CASE Leave(th)
        BY <2>3 DEF ControlInv, RaceTypeOK, Leave, Goto, Outside
    <2>4. ASSUME NEW f \in Calls, NEW t \in Timers, Enter(th, f, t)
          PROVE  \A o \in Threads : pc'[o] \in {"check", "file"} => timer'[o] \in Timers /\ call'[o] \in Calls
        BY <2>4 DEF ControlInv, RaceTypeOK, Enter, Goto
    <2> QED BY <2>1, <2>2, <2>3, <2>4
<1>6. RaceTypeOK'
    <2>1. pc' \in [Threads -> Labels]
        BY <1>0, <1>2 DEF Labels, Outside
    <2> QED BY <1>0, <1>1, <1>4, <2>1 DEF RaceTypeOK, Timers
<1>7. /\ \A c \in Clients : pc'[c] \in {"idle", "check", "file", "leave"}
      /\ pc'[Worker] # "idle" /\ (pc'[Worker] \in Serving <=> pc[Worker] \in Serving)
      /\ (pc[Worker] \in Holding => pc'[Worker] \in Holding)
      /\ pc'[Worker] = "take" => pc[Worker] = "take"
      /\ pc'[Worker] = "cascade" => pc[Worker] = "cascade" /\ th # Worker
    BY <1>0, <1>2, NodesOfTheRace DEF ControlInv, Outside, Serving, Holding
<1> QED BY <1>0, <1>1, <1>3, <1>5, <1>6, <1>7, NodesOfTheRace DEF ControlInv, Buckets

\* The worker goes on, with what belongs there.
WorkerGoes ==
    /\ UNCHANGED <<mem, call, gone>>
    /\ pc' \in [Threads -> Labels] /\ \A c \in Clients : pc'[c] = pc[c]
    /\ pc'[Worker] \notin {"idle", "check", "file"}
    /\ timer' \in [Threads -> Nodes \cup {NULL}] /\ \A c \in Clients : timer'[c] = timer[c]
    /\ tmp' \in Nodes \cup {NULL}
    /\ stores' \in [Threads -> Seq(Assignments)]
    /\ pc'[Worker] = "cascade" => stores'[Worker] = << >>
    /\ pc'[Worker] = "take" => taken' \in Buckets \X {WorkList, TvList}
    /\ live' = Buckets \cup (IF pc'[Worker] \in Serving THEN {WorkList} ELSE {})
    /\ locked' \in BOOLEAN
    /\ locked' => pc'[Worker] \in Holding

\* A worker that goes so keeps to the control of the threads.
LEMMA WorkerMoves ==
    ASSUME ControlInv, WorkerGoes
    PROVE  ControlInv'
<1>1. RaceTypeOK'
    BY DEF WorkerGoes, ControlInv, RaceTypeOK, Timers
<1>2. \A c \in Clients : pc'[c] \in {"idle", "check", "file", "leave"}
    BY DEF WorkerGoes, ControlInv
<1>3. ASSUME NEW th \in Threads, pc'[th] \in {"check", "file"}
      PROVE  timer'[th] \in Timers /\ call'[th] \in Calls
    <2>1. th \in Clients
        BY <1>3 DEF WorkerGoes, Threads
    <2> QED BY <1>3, <2>1 DEF WorkerGoes, ControlInv
<1> QED BY <1>1, <1>2, <1>3 DEF WorkerGoes, ControlInv, Buckets

\* The worker goes to another label and nothing else that matters changes.
LEMMA WorkerTypes ==
    ASSUME ControlInv
    PROVE  /\ pc \in [Threads -> Labels] /\ stores \in [Threads -> Seq(Assignments)]
           /\ timer \in [Threads -> Nodes \cup {NULL}] /\ tmp \in Nodes \cup {NULL}
           /\ locked \in BOOLEAN /\ Worker \in Threads /\ Worker \notin Clients
           /\ live = Buckets \cup (IF pc[Worker] \in Serving THEN {WorkList} ELSE {})
           /\ locked => pc[Worker] \in Holding
           /\ \A l \in Labels : /\ [pc EXCEPT ![Worker] = l] \in [Threads -> Labels]
                                /\ [pc EXCEPT ![Worker] = l][Worker] = l
                                /\ \A c \in Clients : [pc EXCEPT ![Worker] = l][c] = pc[c]
           /\ \A t \in Nodes \cup {NULL} :
                 /\ [timer EXCEPT ![Worker] = t] \in [Threads -> Nodes \cup {NULL}]
                 /\ \A c \in Clients : [timer EXCEPT ![Worker] = t][c] = timer[c]
           /\ \A q \in Seq(Assignments) :
                 [stores EXCEPT ![Worker] = q] \in [Threads -> Seq(Assignments)]
<1>1. /\ pc \in [Threads -> Labels] /\ stores \in [Threads -> Seq(Assignments)]
      /\ timer \in [Threads -> Nodes \cup {NULL}] /\ tmp \in Nodes \cup {NULL}
      /\ locked \in BOOLEAN
    BY DEF ControlInv, RaceTypeOK
<1>2. Worker \in Threads /\ Worker \notin Clients /\ Clients \subseteq Threads
    BY NodesOfTheRace
<1>3. \A l \in Labels : /\ [pc EXCEPT ![Worker] = l] \in [Threads -> Labels]
                        /\ [pc EXCEPT ![Worker] = l][Worker] = l
                        /\ \A c \in Clients : [pc EXCEPT ![Worker] = l][c] = pc[c]
    BY <1>1, <1>2
<1>4. \A t \in Nodes \cup {NULL} :
          /\ [timer EXCEPT ![Worker] = t] \in [Threads -> Nodes \cup {NULL}]
          /\ \A c \in Clients : [timer EXCEPT ![Worker] = t][c] = timer[c]
    BY <1>1, <1>2
<1>5. \A q \in Seq(Assignments) :
          [stores EXCEPT ![Worker] = q] \in [Threads -> Seq(Assignments)]
    BY <1>1, <1>2
<1> QED BY <1>1, <1>2, <1>3, <1>4, <1>5 DEF ControlInv

\* The worker's steps.
LEMMA WorkControl ==
    ASSUME ControlInv, RunTimers
    PROVE  ControlInv'
<1>0. RaceTypeOK
    BY DEF ControlInv
<1>l. /\ {"lock", "loop", "next", "take", "walk", "cascade", "step", "release", "fn",
          "sleep"} \subseteq Labels
      /\ "relock" \in Labels
    BY DEF Labels
<1>1. CASE Wake
    <2>1. WorkerGoes
        BY <1>1, <1>l, WorkerTypes DEF WorkerGoes, Wake, At, Goto, Serving, Holding, vars
    <2> QED BY <2>1, WorkerMoves
<1>2. CASE Lock
    <2>0. /\ \/ pc[Worker] = "lock" /\ pc' = [pc EXCEPT ![Worker] = "loop"]
             \/ pc[Worker] = "relock" /\ pc' = [pc EXCEPT ![Worker] = "next"]
          /\ locked' = TRUE /\ UNCHANGED <<mem, live, call, timer, tmp, taken, stores, gone>>
        BY <1>2 DEF Lock, At, Goto, vars
    <2>1. ASSUME pc[Worker] = "lock", pc' = [pc EXCEPT ![Worker] = "loop"]
          PROVE  WorkerGoes
        BY <1>l, <2>0, <2>1, WorkerTypes DEF WorkerGoes, Serving, Holding
    <2>2. ASSUME pc[Worker] = "relock", pc' = [pc EXCEPT ![Worker] = "next"]
          PROVE  WorkerGoes
        BY <1>l, <2>0, <2>2, WorkerTypes DEF WorkerGoes, Serving, Holding
    <2> QED BY <2>0, <2>1, <2>2, WorkerMoves
<1>3. ASSUME NEW b \in Buckets, NEW head \in {WorkList, TvList}, Take(b, head)
      PROVE  ControlInv'
    <2>1. ReplaceNext(b, head) \in Seq(Assignments)
        BY <1>0, NodesOfTheRace, QueuesTyped
    <2>2. <<b, head>> \in Buckets \X {WorkList, TvList}
        OBVIOUS
    <2>3. WorkerGoes
        BY <1>3, <1>l, <2>1, <2>2, WorkerTypes
           DEF WorkerGoes, Take, At, Goto, Queue, Serving, Holding, vars
    <2> QED BY <2>3, WorkerMoves
<1>4. CASE TakeRest
    <2>1. /\ taken[1] \in Buckets /\ taken[2] \in {WorkList, TvList} /\ pc[Worker] = "take"
        BY <1>4 DEF ControlInv, TakeRest, At
    <2>2. ReplacePrev(taken[1], taken[2]) \in Seq(Assignments)
        BY <1>0, <2>1, NodesOfTheRace, QueuesTyped
    <2> DEFINE l == IF taken[2] = TvList THEN "walk" ELSE "next"
    <2>3. /\ pc' = [pc EXCEPT ![Worker] = l] /\ l \in Labels
          /\ l \in Holding /\ l \notin {"idle", "check", "file", "cascade", "take"}
        BY <1>4, <1>l DEF TakeRest, Goto, Holding
    <2>4. live' = Buckets \cup (IF l \in Serving THEN {WorkList} ELSE {})
        BY <1>4, <2>1, WorkerTypes, NodesOfTheRace DEF TakeRest, Serving
    <2> HIDE DEF l
    <2>5. WorkerGoes
        BY <1>4, <2>2, <2>3, <2>4, WorkerTypes DEF WorkerGoes, TakeRest, Queue
    <2> QED BY <2>5, WorkerMoves
<1>5. ASSUME NEW at \in Nodes \cup {NULL}, GoOn(at), pc[Worker] \in {"walk", "step"},
             stores[Worker] = << >>, UNCHANGED <<vars, call, taken, stores, locked, gone>>
      PROVE  ControlInv'
    <2>1. CASE at \in Nodes
        <3>1. mem.next[at] \in Nodes \cup {NULL}
            BY <1>0, <2>1, MemoryFields
        <3>2. /\ pc' = [pc EXCEPT ![Worker] = "cascade"]
              /\ timer' = [timer EXCEPT ![Worker] = at] /\ tmp' = mem.next[at]
              /\ UNCHANGED <<mem, live, call, taken, stores, locked, gone>>
            BY <1>5, <2>1 DEF GoOn, Goto, vars
        <3>3. stores'[Worker] = << >> /\ stores' \in [Threads -> Seq(Assignments)]
            BY <1>5, <3>2, WorkerTypes
        <3>4. live' = Buckets
            BY <1>5, <3>2, WorkerTypes DEF Serving
        <3>5. pc'[Worker] = "cascade" /\ (locked' => "cascade" \in Holding)
            BY <1>l, <3>2, WorkerTypes DEF Holding
        <3>6. WorkerGoes
            BY <1>l, <3>1, <3>2, <3>3, <3>4, <3>5, WorkerTypes DEF WorkerGoes, Serving
        <3> QED BY <3>6, WorkerMoves
    <2>2. CASE at \notin Nodes
        BY <1>5, <2>2 DEF GoOn, ControlInv, RaceTypeOK, vars
    <2> QED BY <2>1, <2>2
<1>6. CASE Walk
    <2>1. mem.next[TvList] \in Nodes \cup {NULL}
        BY <1>0, MemoryFields, NodesOfTheRace
    <2> QED BY <1>5, <1>6, <2>1 DEF Walk, At
<1>7. CASE Step
    BY <1>5, <1>7, WorkerTypes DEF Step, At
<1>8. CASE CascadeDone
    <2>1. WorkerGoes
        BY <1>8, <1>l, WorkerTypes DEF WorkerGoes, CascadeDone, At, Goto, Serving, Holding, vars
    <2> QED BY <2>1, WorkerMoves
<1>9. ASSUME NEW b \in Buckets, Cascade(b)
      PROVE  ControlInv'
    <2>1. CASE timer[Worker] \in Timers
        <3>1. AddTail(timer[Worker], b) \in Seq(Assignments)
            BY <1>0, <2>1, NodesOfTheRace, QueuesTyped
        <3>2. /\ pc[Worker] = "cascade" /\ pc' = [pc EXCEPT ![Worker] = "step"]
              /\ stores' = [stores EXCEPT ![Worker] = AddTail(timer[Worker], b)]
              /\ UNCHANGED <<mem, live, call, timer, tmp, taken, locked, gone>>
            BY <1>9, <2>1 DEF Cascade, At, Goto, Queue
        <3>3. WorkerGoes
            BY <1>l, <3>1, <3>2, WorkerTypes DEF WorkerGoes, Serving, Holding
        <3> QED BY <3>3, WorkerMoves
    <2>2. CASE timer[Worker] \notin Timers
        BY <1>9, <2>2 DEF Cascade, ControlInv, RaceTypeOK
    <2> QED BY <2>1, <2>2
<1>10. CASE Expire
    <2> DEFINE t == mem.next[WorkList]
    <2>1. CASE t \in Timers
        <3>1. Detach(t, TRUE) \in Seq(Assignments) /\ t \in Nodes \cup {NULL}
            BY <1>0, <2>1, NodesOfTheRace, QueuesTyped
        <3>2. /\ pc[Worker] = "next" /\ pc' = [pc EXCEPT ![Worker] = "release"]
              /\ stores' = [stores EXCEPT ![Worker] = Detach(t, TRUE)]
              /\ timer' = [timer EXCEPT ![Worker] = t]
              /\ UNCHANGED <<mem, live, call, tmp, taken, locked, gone>>
            BY <1>10, <2>1 DEF Expire, At, Goto, Queue
        <3> HIDE DEF t
        <3>3. WorkerGoes
            BY <1>l, <3>1, <3>2, WorkerTypes DEF WorkerGoes, Serving, Holding
        <3> QED BY <3>3, WorkerMoves
    <2>2. CASE t \notin Timers
        BY <1>10, <2>2 DEF Expire, ControlInv, RaceTypeOK
    <2> QED BY <2>1, <2>2
<1>11. CASE TickDone
    <2>1. live' = Buckets /\ pc[Worker] \in Holding
        BY <1>11, WorkerTypes, NodesOfTheRace DEF TickDone, At, Holding
    <2>2. WorkerGoes
        BY <1>11, <1>l, <2>1, WorkerTypes DEF WorkerGoes, TickDone, Goto, Serving, Holding
    <2> QED BY <2>2, WorkerMoves
<1>12. CASE CallFn
    <2>1. WorkerGoes
        BY <1>12, <1>l, WorkerTypes DEF WorkerGoes, CallFn, At, Goto, Serving, Holding, vars
    <2> QED BY <2>1, WorkerMoves
<1>13. CASE FnReturn
    <2>1. WorkerGoes
        BY <1>13, <1>l, WorkerTypes DEF WorkerGoes, FnReturn, At, Goto, Serving, Holding, vars
    <2> QED BY <2>1, WorkerMoves
<1>14. CASE EndRun
    <2>0. /\ pc[Worker] = "loop" /\ pc' = [pc EXCEPT ![Worker] = "sleep"]
          /\ locked' = FALSE /\ UNCHANGED <<mem, live, call, timer, tmp, taken, stores, gone>>
        BY <1>14 DEF EndRun, At, Goto, vars
    <2>1. WorkerGoes
        BY <1>l, <2>0, WorkerTypes DEF WorkerGoes, Serving
    <2> QED BY <2>1, WorkerMoves
<1> QED BY <1>1, <1>2, <1>3, <1>4, <1>6, <1>7, <1>8, <1>9, <1>10, <1>11, <1>12, <1>13, <1>14
        DEF RunTimers

\* Every step, of threads that keep apart or not.
LEMMA NextControl == ControlInv /\ [RaceNext]_raceVars => ControlInv'
<1> SUFFICES ASSUME ControlInv, [RaceNext]_raceVars PROVE ControlInv'
    OBVIOUS
<1>1. ASSUME NEW th \in Threads, Store(th) PROVE ControlInv'
    BY <1>1, StoreControl
<1>2. ASSUME NEW th \in Threads,
             \/ Check(th) \/ Leave(th)
             \/ \E b \in Buckets : File(th, b)
             \/ \E f \in Calls, t \in Timers : Enter(th, f, t)
      PROVE  ControlInv'
    BY <1>2, CallControl
<1>3. CASE RunTimers
    BY <1>3, WorkControl
<1>4. CASE UNCHANGED raceVars
    BY <1>4 DEF raceVars, vars, ControlInv, RaceTypeOK
<1> QED BY <1>1, <1>2, <1>3, <1>4 DEF RaceNext

\* For any clients, timers and lists, and whether or not the threads keep apart:
\* the memory and the threads keep their types, each thread has in its local
\* variables what its place in the code needs, and only the worker, inside
\* __run_timers, holds base->lock.
THEOREM ControlCorrect == RaceSpec => []ControlInv
BY InitControl, NextControl, PTL DEF RaceSpec

\* base->lock never makes anybody wait, whatever the clients do: the worker
\* finds it free whenever it goes to take it.
THEOREM LockUseless == RaceSpec => []LockExcludesNobody
<1>1. ControlInv => LockExcludesNobody
    BY DEF ControlInv, LockExcludesNobody, Holding
<1> QED BY <1>1, ControlCorrect, PTL
-----------------------------------------------------------------------------
\* The assignments of a queue, and of all queues.
In(q) == {q[i] : i \in 1 .. Len(q)}
Queued(st) == UNION {In(st[th]) : th \in Threads}

\* Pointer f of node n will be x when the queues have reached the memory m,
\* in whatever order.
SettlesTo(m, st, f, n, x) ==
    /\ \A a \in Queued(st) : a.field = f /\ a.node = n => a.value = x
    /\ (\A a \in Queued(st) : ~ (a.field = f /\ a.node = n)) => m[f][n] = x

\* All pointers but those of some nodes will be as in v.
Settles(v, m, st, looseNext, loosePrev) ==
    \A n \in Nodes :
        /\ n \notin looseNext => SettlesTo(m, st, "next", n, v.next[n])
        /\ n \notin loosePrev => SettlesTo(m, st, "prev", n, v.prev[n])

FirstOf(h) == NodeAt(h, seq[h], 1)

\* While the worker walks tv_list, its entries are linked elsewhere without
\* being unlinked: the list's first pointer, and the pointer back to it, are
\* left as they were.  In the middle of list_replace_init the first entry
\* points to the new head already.
Walking == pc[Worker] \in {"cascade", "step"}

LooseNext == IF Walking THEN {TvList} ELSE {}

LoosePrev == IF Walking THEN {FirstOf(TvList)}
             ELSE IF pc[Worker] = "take" THEN {FirstOf(taken[1])} ELSE {}

\* The heads with a list: tv_list has one while it is walked.
Used == live \cup (IF Walking \/ pc[Worker] = "walk" THEN {TvList} ELSE {})

\* The memory v that the queues lead to.
Expects(v) ==
    /\ v \in Memory
    /\ Holds(v, seq, Used)
    /\ Settles(v, mem, stores, LooseNext, LoosePrev)
    /\ pc[Worker] = "take" =>
          /\ v.next[taken[2]] = FirstOf(taken[1])
          /\ SettlesTo(mem, stores, "prev", FirstOf(taken[1]), taken[2])
    /\ \A t \in Timers \ On(seq) :
          v.next[t] = NULL \/ \E th \in Threads : pc[th] = "file" /\ timer[th] = t

\* Where the timers are on which the threads work.
PlaceInv ==
    /\ \A th \in Threads : pc[th] = "file" => timer[th] \notin On(seq)
    /\ \A t \in gone :
          /\ t \notin On(seq)
          /\ \A th \in Threads : timer[th] = t => call[th] # "mod" /\ pc[th] # "file"
    /\ pc[Worker] = "cascade" =>
          /\ timer[Worker] = FirstOf(TvList)
          /\ seq[TvList] # << >> => tmp = NodeAt(TvList, seq[TvList], 2)
    /\ pc[Worker] = "step" => tmp = FirstOf(TvList)

\* What is queued is for nodes; the step of the cascade leaves the next
\* pointers of tv_list alone; and who takes the first timer off the work list
\* has that timer in its queue up to the end.
QueueInv ==
    /\ \A a \in Queued(stores) : a.node \in Nodes
    /\ pc[Worker] = "step" =>
          \A a \in In(stores[Worker]) : a.field = "next" =>
              \A i \in 1 .. Len(seq[TvList]) : a.node # seq[TvList][i]
    /\ \A c \in Clients : \A i \in 1 .. Len(stores[c]) :
          stores[c][i].field = "next" /\ stores[c][i].node = WorkList =>
              /\ mem.next[WorkList] \in Timers
              /\ stores[c][Len(stores[c])].node = mem.next[WorkList]
              /\ \A j \in 1 .. Len(stores[c]) :
                    stores[c][j].field = "next" /\ stores[c][j].node = WorkList => j = i

\* The inductive invariant of threads that keep apart.
RaceIInv ==
    /\ ControlInv
    /\ NoFault
    /\ Apart
    /\ PlaceInv
    /\ QueueInv
    /\ \E v \in Memory : Expects(v)
-----------------------------------------------------------------------------
\* What a thread queues is added to what is queued.
LEMMA QueuedAfter ==
    ASSUME stores \in [Threads -> Seq(Assignments)], NEW th \in Threads,
           stores[th] = << >>, NEW q \in Seq(Assignments),
           stores' = [stores EXCEPT ![th] = q]
    PROVE  /\ Queued(stores') = Queued(stores) \cup In(q)
           /\ stores'[th] = q /\ \A o \in Threads \ {th} : stores'[o] = stores[o]
<1>1. stores'[th] = q /\ \A o \in Threads \ {th} : stores'[o] = stores[o]
    OBVIOUS
<1>2. In(stores[th]) = {}
    BY DEF In
<1>3. ASSUME NEW a \in Queued(stores') PROVE a \in Queued(stores) \cup In(q)
    BY <1>1, <1>3 DEF Queued
<1>4. ASSUME NEW a \in Queued(stores) PROVE a \in Queued(stores')
    <2>1. PICK o \in Threads : a \in In(stores[o])
        BY <1>4 DEF Queued
    <2>2. o # th
        BY <1>2, <2>1
    <2> QED BY <1>1, <2>1, <2>2 DEF Queued
<1>5. In(q) \subseteq Queued(stores')
    BY <1>1 DEF Queued
<1> QED BY <1>1, <1>3, <1>4, <1>5

\* The nodes of an assignment are among the ends of its queue.
LEMMA EndsOf ==
    ASSUME NEW q \in Seq(Assignments), NEW a \in In(q)
    PROVE  {a.node, a.value} \subseteq UNION {{q[i].node, q[i].value} : i \in DOMAIN q}
<1>1. PICK i \in 1 .. Len(q) : a = q[i]
    BY DEF In
<1>2. i \in DOMAIN q
    BY <1>1
<1>3. {a.node, a.value} \in {{q[j].node, q[j].value} : j \in DOMAIN q}
    BY <1>1, <1>2
<1> QED BY <1>3

\* The nodes of a queue are relied on by its thread, as is a timer that is
\* about to be filed.
LEMMA QueueRelied ==
    ASSUME stores \in [Threads -> Seq(Assignments)], NEW th \in Threads
    PROVE  /\ \A a \in In(stores[th]) :
                 /\ a.node \in Nodes => a.node \in Relied(th)
                 /\ a.value \in Nodes => a.value \in Relied(th)
           /\ pc[th] = "file" /\ timer[th] \in Nodes => timer[th] \in Relied(th)
<1>1. ASSUME NEW a \in In(stores[th])
      PROVE  /\ a.node \in Nodes => a.node \in Relied(th)
             /\ a.value \in Nodes => a.value \in Relied(th)
    <2>1. stores[th] \in Seq(Assignments)
        OBVIOUS
    <2>2. {a.node, a.value} \subseteq
              UNION {{stores[th][i].node, stores[th][i].value} : i \in DOMAIN stores[th]}
        BY <2>1, EndsOf
    <2> QED BY <2>2 DEF Relied
<1>2. pc[th] = "file" /\ timer[th] \in Nodes => timer[th] \in Relied(th)
    BY DEF Relied
<1> QED BY <1>1, <1>2

\* The nodes of a queue are relied on as soon as it is there.
LEMMA QueueReliedNext ==
    ASSUME NEW th \in Threads, NEW q \in Seq(Assignments), stores'[th] = q,
           NEW a \in In(q)
    PROVE  /\ a.node \in Nodes => a.node \in Relied(th)'
           /\ a.value \in Nodes => a.value \in Relied(th)'
<1>1. {a.node, a.value} \subseteq UNION {{q[i].node, q[i].value} : i \in DOMAIN q}
    BY EndsOf
<1> QED BY <1>1 DEF Relied

\* No other thread works at node n.
Aside(th, n) == \A o \in Threads \ {th} : n \notin Relied(o)

\* The threads but th stay as they are.
OthersStay(th) ==
    /\ UNCHANGED mem
    /\ \A o \in Threads \ {th} : /\ pc'[o] = pc[o] /\ timer'[o] = timer[o]
                                 /\ stores'[o] = stores[o]
                                 /\ o = Worker => tmp' = tmp /\ taken' = taken

\* Threads that keep apart: where this one goes, no other one is.
LEMMA Alone ==
    ASSUME Apart', NEW th \in Threads, OthersStay(th), NEW n \in Relied(th)'
    PROVE  Aside(th, n)
<1> SUFFICES ASSUME NEW o \in Threads \ {th} PROVE n \notin Relied(o)
    BY DEF Aside
<1>1. Relied(o)' = Relied(o)
    BY DEF OthersStay, Relied
<1> QED BY <1>1 DEF Apart

\* Whoever reads a node that no other thread works at, with an empty queue,
\* reads what the queues lead to.
LEMMA Reading ==
    ASSUME ControlInv, NEW v, Settles(v, mem, stores, LooseNext, LoosePrev),
           NEW th \in Threads, stores[th] = << >>, NEW n \in Nodes, Aside(th, n)
    PROVE  /\ \A a \in Queued(stores) : a.node # n
           /\ n \notin LooseNext => mem.next[n] = v.next[n]
           /\ n \notin LoosePrev => mem.prev[n] = v.prev[n]
           /\ \A o \in Threads \ {th} : pc[o] = "file" => timer[o] # n
<1>1. stores \in [Threads -> Seq(Assignments)]
    BY DEF ControlInv
<1>2. ASSUME NEW a \in Queued(stores) PROVE a.node # n
    <2>1. PICK o \in Threads : a \in In(stores[o])
        BY DEF Queued
    <2>2. o # th
        BY <2>1 DEF In
    <2> QED BY <1>1, <2>1, <2>2, QueueRelied DEF Aside
<1>3. n \notin LooseNext => mem.next[n] = v.next[n]
    BY <1>2, MemoryFields DEF ControlInv, Settles, SettlesTo
<1>4. n \notin LoosePrev => mem.prev[n] = v.prev[n]
    BY <1>2, MemoryFields DEF ControlInv, Settles, SettlesTo
<1>5. \A o \in Threads \ {th} : pc[o] = "file" => timer[o] # n
    BY <1>1, QueueRelied DEF Aside
<1> QED BY <1>2, <1>3, <1>4, <1>5

\* What list_replace_init is about to move is the worker's.
LEMMA TakeRelied ==
    ASSUME ControlInv, QueueInv, Apart, NEW v, Expects(v), pc[Worker] = "take"
    PROVE  /\ taken[1] \in Relied(Worker) /\ taken[2] \in Relied(Worker)
           /\ FirstOf(taken[1]) \in Relied(Worker)
<1>1. /\ Worker \in Threads /\ stores \in [Threads -> Seq(Assignments)]
      /\ taken \in Buckets \X {WorkList, TvList}
    BY NodesOfTheRace DEF ControlInv
<1>2. taken[1] \in Buckets /\ taken[2] \in {WorkList, TvList} /\ taken[1] \in Range(taken)
      /\ taken[2] \in Range(taken)
    BY <1>1 DEF Range
<1>3. taken[1] \in Relied(Worker) /\ taken[2] \in Relied(Worker)
    BY <1>2, NodesOfTheRace DEF Relied
<1>4. Lists(seq, Used) /\ FirstOf(taken[1]) \in Nodes
    <2>1. Lists(seq, Used)
        BY DEF Expects, Holds
    <2>2. taken[1] \in Heads
        BY <1>2 DEF Buckets
    <2> QED BY <2>1, <2>2, ListsTypes DEF FirstOf, NodeAt, Nodes
<1>5. SettlesTo(mem, stores, "next", taken[2], FirstOf(taken[1]))
    <2>1. LooseNext = {} /\ taken[2] \in Nodes
        BY <1>2, NodesOfTheRace DEF LooseNext, Walking
    <2>2. SettlesTo(mem, stores, "next", taken[2], v.next[taken[2]])
        BY <2>1 DEF Expects, Settles
    <2> QED BY <2>2 DEF Expects
<1>6. CASE \E a \in Queued(stores) : a.field = "next" /\ a.node = taken[2]
    <2>1. PICK a \in Queued(stores) : a.field = "next" /\ a.node = taken[2]
        BY <1>6
    <2>2. a.value = FirstOf(taken[1])
        BY <1>5, <2>1 DEF SettlesTo
    <2>3. PICK o \in Threads : a \in In(stores[o])
        BY DEF Queued
    <2>4. a.node \in Relied(o) /\ a.value \in Relied(o)
        BY <1>1, <1>2, <1>4, <2>1, <2>2, <2>3, QueueRelied, NodesOfTheRace
    <2>5. o = Worker
        BY <1>1, <1>3, <2>1, <2>4 DEF Apart
    <2> QED BY <1>3, <2>2, <2>4, <2>5
<1>7. CASE \A a \in Queued(stores) : ~ (a.field = "next" /\ a.node = taken[2])
    <2>1. mem.next[taken[2]] = FirstOf(taken[1])
        BY <1>5, <1>7, MemoryFields DEF SettlesTo, ControlInv
    <2> QED BY <1>1, <1>3, <1>4, <2>1 DEF Relied
<1> QED BY <1>6, <1>7

\* What the worker is about to cascade is its own.
LEMMA WalkRelied ==
    ASSUME PlaceInv, NEW v, Expects(v), Walking
    PROVE  /\ TvList \in Relied(Worker) /\ FirstOf(TvList) \in Relied(Worker)
           /\ FirstOf(TvList) \in Nodes
           /\ pc[Worker] = "cascade" /\ seq[TvList] # << >> =>
                 /\ NodeAt(TvList, seq[TvList], 2) \in Relied(Worker)
                 /\ NodeAt(TvList, seq[TvList], 2) \in Nodes
<1>1. Lists(seq, Used) /\ TvList \in Heads
    BY ThreadsAssumption DEF Expects, Holds
<1>2. \A i \in Int : NodeAt(TvList, seq[TvList], i) \in Nodes
    BY <1>1, ListsTypes DEF NodeAt, Nodes
<1>3. TvList \in Relied(Worker)
    BY NodesOfTheRace DEF Relied, Walking
<1>4. FirstOf(TvList) \in Relied(Worker)
    BY <1>2 DEF Relied, Walking, PlaceInv, FirstOf
<1>5. pc[Worker] = "cascade" /\ seq[TvList] # << >> =>
          NodeAt(TvList, seq[TvList], 2) \in Relied(Worker)
    BY <1>2 DEF Relied, Walking, PlaceInv
<1> QED BY <1>2, <1>3, <1>4, <1>5 DEF FirstOf

\* No other thread works at a loose pointer.
LEMMA Steady ==
    ASSUME ControlInv, QueueInv, PlaceInv, Apart, NEW v, Expects(v),
           NEW th \in Threads, NEW n, Aside(th, n),
           th = Worker => pc[Worker] \notin {"take", "cascade", "step"}
    PROVE  n \notin LooseNext /\ n \notin LoosePrev
<1>1. CASE th = Worker
    BY <1>1 DEF LooseNext, LoosePrev, Walking
<1>2. CASE th # Worker /\ Walking
    BY <1>2, WalkRelied, NodesOfTheRace DEF Aside, LooseNext, LoosePrev
<1>3. CASE th # Worker /\ pc[Worker] = "take"
    BY <1>3, TakeRelied, NodesOfTheRace DEF Aside, LooseNext, LoosePrev, Walking
<1>4. CASE ~ Walking /\ pc[Worker] # "take"
    BY <1>4 DEF LooseNext, LoosePrev
<1> QED BY <1>1, <1>2, <1>3, <1>4

\* Another entry is taken off: the first of a list stays, and so does the
\* second.
LEMMA KeptFront ==
    ASSUME NEW used, Lists(seq, used), NEW t \in On(seq), NEW h \in Heads,
           t # NodeAt(h, seq[h], 1)
    PROVE  /\ NodeAt(h, Without(t)[h], 1) = NodeAt(h, seq[h], 1)
           /\ Without(t)[h] = << >> <=> seq[h] = << >>
           /\ t # NodeAt(h, seq[h], 2) =>
                 NodeAt(h, Without(t)[h], 2) = NodeAt(h, seq[h], 2)
<1>1. PICK g \in Heads : \E k \in 1 .. Len(seq[g]) : t = seq[g][k]
    BY DEF On
<1>1a. PICK k \in 1 .. Len(seq[g]) : t = seq[g][k]
    BY <1>1
<1>2. Without(t) = [seq EXCEPT ![g] = RemoveAt(seq[g], k)] /\ seq \in [Heads -> Seq(Entries)]
    BY <1>1a, WithoutIs DEF Lists
<1>3. CASE g # h
    BY <1>2, <1>3
<1>4. CASE g = h
    <2>1. Without(t)[h] = RemoveAt(seq[h], k) /\ seq[h] \in Seq(Entries) /\ Len(seq[h]) \in Nat
        BY <1>2, <1>4
    <2>2. k # 1
        BY <1>1a, <1>4 DEF NodeAt
    <2>3. /\ k \in 2 .. Len(seq[h]) /\ t = seq[h][k]
          /\ Len(Without(t)[h]) = Len(seq[h]) - 1
          /\ \A i \in 1 .. Len(seq[h]) - 1 :
                Without(t)[h][i] = IF i < k THEN seq[h][i] ELSE seq[h][i + 1]
        BY <1>1a, <1>4, <2>1, <2>2, RemovedAt
    <2>4. NodeAt(h, Without(t)[h], 1) = NodeAt(h, seq[h], 1)
        BY <2>1, <2>3 DEF NodeAt
    <2>5. Without(t)[h] # << >> /\ seq[h] # << >>
        BY <2>1, <2>3
    <2>6. ASSUME t # NodeAt(h, seq[h], 2)
          PROVE  NodeAt(h, Without(t)[h], 2) = NodeAt(h, seq[h], 2)
        <3>1. k > 2
            BY <2>1, <2>3, <2>6 DEF NodeAt
        <3> QED BY <2>1, <2>3, <3>1 DEF NodeAt
    <2> QED BY <2>4, <2>5, <2>6
<1> QED BY <1>3, <1>4
-----------------------------------------------------------------------------
\* What the lists need beside the labels and the distance of the threads.
Planned ==
    /\ NoFault
    /\ PlaceInv
    /\ QueueInv
    /\ \E v \in Memory : Expects(v)

\* One assignment goes from its queue into the memory.
LEMMA OneStored ==
    ASSUME ControlInv, NEW th \in Threads, Store(th), Head(stores[th]).node \in Nodes
    PROVE  LET a == Head(stores[th])
           IN  /\ stores' = [stores EXCEPT ![th] = Tail(stores[th])]
               /\ a \in In(stores[th]) /\ a.field \in {"next", "prev"}
               /\ \A b \in In(stores[th]) : b = a \/ b \in In(stores'[th])
               /\ In(stores'[th]) \subseteq In(stores[th])
               /\ \A n \in Nodes :
                     /\ mem'.next[n] = IF a.field = "next" /\ a.node = n
                                       THEN a.value ELSE mem.next[n]
                     /\ mem'.prev[n] = IF a.field = "prev" /\ a.node = n
                                       THEN a.value ELSE mem.prev[n]
<1> DEFINE q == stores[th]
           a == Head(q)
<1>1. q \in Seq(Assignments) /\ q # << >> /\ stores \in [Threads -> Seq(Assignments)]
    BY DEF ControlInv, Store
<1>2. Len(q) \in Nat /\ Len(q) > 0 /\ a = q[1] /\ Len(Tail(q)) = Len(q) - 1
      /\ \A i \in 1 .. Len(q) - 1 : Tail(q)[i] = q[i + 1]
    BY <1>1
<1>3. stores' = [stores EXCEPT ![th] = Tail(q)]
      /\ mem' = [mem EXCEPT ![a.field][a.node] = a.value]
    BY DEF Store
<1>4. stores'[th] = Tail(q)
    BY <1>1, <1>3
<1>5. a \in In(q) /\ a \in Assignments
    BY <1>1, <1>2 DEF In
<1>6. ASSUME NEW b \in In(q) PROVE b = a \/ b \in In(stores'[th])
    <2>1. PICK i \in 1 .. Len(q) : b = q[i]
        BY DEF In
    <2>2. CASE i = 1
        BY <1>2, <2>1, <2>2
    <2>3. CASE i # 1
        <3>1. i - 1 \in 1 .. Len(q) - 1 /\ b = Tail(q)[i - 1]
            BY <1>2, <2>1, <2>3
        <3> QED BY <1>2, <1>4, <3>1 DEF In
    <2> QED BY <2>2, <2>3
<1>7. ASSUME NEW b \in In(stores'[th]) PROVE b \in In(q)
    <2>1. PICK i \in 1 .. Len(Tail(q)) : b = Tail(q)[i]
        BY <1>4 DEF In
    <2>2. i + 1 \in 1 .. Len(q) /\ b = q[i + 1]
        BY <1>2, <2>1
    <2> QED BY <2>2 DEF In
<1>8. a.node \in Nodes
    OBVIOUS
<1> HIDE DEF a
<1>9. a.field \in {"next", "prev"}
    BY <1>5 DEF Assignments
<1>10. \A n \in Nodes :
           /\ mem'.next[n] = IF a.field = "next" /\ a.node = n THEN a.value ELSE mem.next[n]
           /\ mem'.prev[n] = IF a.field = "prev" /\ a.node = n THEN a.value ELSE mem.prev[n]
    <2>0. mem \in [next : [Nodes -> Nodes \cup {NULL}],
                   prev : [Nodes -> Nodes \cup {NULL, LIST_POISON2}]]
        BY DEF ControlInv, RaceTypeOK
    <2>1. CASE a.field = "next"
        BY <1>3, <1>8, <2>0, <2>1
    <2>2. CASE a.field = "prev"
        BY <1>3, <1>8, <2>0, <2>2
    <2> QED BY <1>9, <2>1, <2>2
<1> QED BY <1>3, <1>5, <1>6, <1>7, <1>9, <1>10 DEF a

\* The plan for a pointer survives the assignments of the plan.
LEMMA SettledStore ==
    ASSUME ControlInv, NEW th \in Threads, Store(th), Head(stores[th]).node \in Nodes,
           NEW n \in Nodes, NEW x
    PROVE  /\ SettlesTo(mem, stores, "next", n, x) => SettlesTo(mem', stores', "next", n, x)
           /\ SettlesTo(mem, stores, "prev", n, x) => SettlesTo(mem', stores', "prev", n, x)
           /\ Queued(stores') \subseteq Queued(stores)
<1> DEFINE a == Head(stores[th])
<1>1. /\ stores' = [stores EXCEPT ![th] = Tail(stores[th])]
      /\ a \in In(stores[th]) /\ a.field \in {"next", "prev"}
      /\ \A b \in In(stores[th]) : b = a \/ b \in In(stores'[th])
      /\ In(stores'[th]) \subseteq In(stores[th])
      /\ mem'.next[n] = IF a.field = "next" /\ a.node = n THEN a.value ELSE mem.next[n]
      /\ mem'.prev[n] = IF a.field = "prev" /\ a.node = n THEN a.value ELSE mem.prev[n]
    BY OneStored
<1> HIDE DEF a
<1>2. stores \in [Threads -> Seq(Assignments)]
    BY DEF ControlInv
<1>3. \A o \in Threads \ {th} : stores'[o] = stores[o]
    BY <1>1, <1>2
<1>4. a \in Queued(stores) /\ Queued(stores') \subseteq Queued(stores)
    BY <1>1, <1>3 DEF Queued
<1>5. \A b \in Queued(stores) : b = a \/ b \in Queued(stores')
    <2>1. SUFFICES ASSUME NEW b \in Queued(stores) PROVE b = a \/ b \in Queued(stores')
        OBVIOUS
    <2>2. PICK o \in Threads : b \in In(stores[o])
        BY DEF Queued
    <2>3. b = a \/ b \in In(stores'[o])
        BY <1>1, <1>3, <2>2
    <2> QED BY <2>3 DEF Queued
<1>6. mem["next"] = mem.next /\ mem["prev"] = mem.prev
      /\ mem'["next"] = mem'.next /\ mem'["prev"] = mem'.prev
    <2>1. ControlInv'
        BY StoreControl
    <2> QED BY <2>1 DEF ControlInv, RaceTypeOK
<1> QED BY <1>1, <1>4, <1>5, <1>6 DEF SettlesTo

\* An assignment that reaches the memory keeps to the plan.
LEMMA StorePlanned ==
    ASSUME ControlInv, Apart, Planned, NEW th \in Threads, Store(th)
    PROVE  Planned'
<1> DEFINE a == Head(stores[th])
<1>1. stores \in [Threads -> Seq(Assignments)] /\ stores[th] # << >>
    BY DEF ControlInv, Store
<1>2. stores[th] \in Seq(Assignments) /\ Len(stores[th]) \in Nat /\ Len(stores[th]) > 0
      /\ a = stores[th][1] /\ Len(Tail(stores[th])) = Len(stores[th]) - 1
      /\ \A i \in 1 .. Len(stores[th]) - 1 : Tail(stores[th])[i] = stores[th][i + 1]
    BY <1>1
<1>3. a \in Queued(stores) /\ a \in In(stores[th])
    BY <1>2 DEF Queued, In
<1>4. a.node \in Nodes
    BY <1>3 DEF Planned, QueueInv
<1>5. /\ stores' = [stores EXCEPT ![th] = Tail(stores[th])]
      /\ In(stores'[th]) \subseteq In(stores[th])
      /\ \A n \in Nodes : mem'.next[n] = IF a.field = "next" /\ a.node = n
                                         THEN a.value ELSE mem.next[n]
    BY <1>4, OneStored
<1>6. stores'[th] = Tail(stores[th]) /\ \A o \in Threads \ {th} : stores'[o] = stores[o]
    BY <1>1, <1>5
<1>7. UNCHANGED <<seq, live, pc, call, timer, tmp, taken, locked, gone, fault>>
    BY <1>4 DEF Store
<1>8. \A n \in Nodes : \A x :
          /\ SettlesTo(mem, stores, "next", n, x) => SettlesTo(mem', stores', "next", n, x)
          /\ SettlesTo(mem, stores, "prev", n, x) => SettlesTo(mem', stores', "prev", n, x)
    BY <1>4, SettledStore
<1>9. Queued(stores') \subseteq Queued(stores)
    BY <1>4, SettledStore
<1> HIDE DEF a
<1>10. \E v \in Memory : Expects(v)'
    <2>1. PICK v \in Memory : Expects(v)
        BY DEF Planned
    <2>2. LooseNext' = LooseNext /\ LoosePrev' = LoosePrev /\ Used' = Used
        BY <1>7 DEF LooseNext, LoosePrev, Used, Walking, FirstOf
    <2>3. Settles(v, mem', stores', LooseNext, LoosePrev)
        BY <1>8, <2>1 DEF Expects, Settles
    <2>4. Holds(v, seq', Used') /\ FirstOf(taken[1])' = FirstOf(taken[1])
        BY <1>7, <2>1, <2>2 DEF Expects, FirstOf
    <2>5. pc[Worker] = "take" => FirstOf(taken[1]) \in Nodes
        <3>1. Lists(seq, Used) /\ (pc[Worker] = "take" => taken[1] \in Heads)
            BY <2>1 DEF Expects, Holds, ControlInv, Buckets
        <3> QED BY <3>1, ListsTypes DEF FirstOf, NodeAt, Nodes
    <2>6. pc'[Worker] = "take" =>
              /\ v.next[taken'[2]] = FirstOf(taken[1])
              /\ SettlesTo(mem', stores', "prev", FirstOf(taken[1]), taken'[2])
        BY <1>7, <1>8, <2>1, <2>5 DEF Expects
    <2>7. \A t \in Timers \ On(seq') :
              v.next[t] = NULL \/ \E o \in Threads : pc'[o] = "file" /\ timer'[o] = t
        BY <1>7, <2>1 DEF Expects
    <2> QED BY <2>1, <2>2, <2>3, <2>4, <2>6, <2>7 DEF Expects
<1>11. QueueInv'
    <2>1. \A b \in Queued(stores') : b.node \in Nodes
        BY <1>9 DEF Planned, QueueInv
    <2>2. In(stores'[Worker]) \subseteq In(stores[Worker])
        BY <1>5, <1>6, NodesOfTheRace
    <2>3. pc'[Worker] = "step" =>
              \A b \in In(stores'[Worker]) : b.field = "next" =>
                  \A i \in 1 .. Len(seq'[TvList]) : b.node # seq'[TvList][i]
        BY <1>7, <2>2 DEF Planned, QueueInv
    <2>4. ASSUME NEW c \in Clients, NEW i \in 1 .. Len(stores'[c]),
                 stores'[c][i].field = "next", stores'[c][i].node = WorkList
          PROVE  /\ mem'.next[WorkList] \in Timers
                 /\ stores'[c][Len(stores'[c])].node = mem'.next[WorkList]
                 /\ \A j \in 1 .. Len(stores'[c]) :
                       stores'[c][j].field = "next" /\ stores'[c][j].node = WorkList => j = i
        <3>1. CASE c = th
            <4>1. /\ i + 1 \in 1 .. Len(stores[c]) /\ stores[c][i + 1] = stores'[c][i]
                  /\ stores'[c][Len(stores'[c])] = stores[c][Len(stores[c])]
                  /\ \A j \in 1 .. Len(stores'[c]) :
                        j + 1 \in 1 .. Len(stores[c]) /\ stores[c][j + 1] = stores'[c][j]
                <5>0. /\ Len(stores[c]) \in Nat /\ Len(stores'[c]) = Len(stores[c]) - 1
                      /\ \A j \in 1 .. Len(stores[c]) - 1 : stores'[c][j] = stores[c][j + 1]
                    BY <1>2, <1>6, <3>1
                <5>1. i \in 1 .. Len(stores[c]) - 1
                    BY <2>4, <5>0
                <5>2. Len(stores'[c]) \in 1 .. Len(stores[c]) - 1
                    BY <5>0, <5>1
                <5>3. stores'[c][Len(stores'[c])] = stores[c][Len(stores[c])]
                    BY <5>0, <5>2
                <5> QED BY <5>0, <5>1, <5>3
            <4>2. /\ mem.next[WorkList] \in Timers
                  /\ stores[c][Len(stores[c])].node = mem.next[WorkList]
                  /\ \A j \in 1 .. Len(stores[c]) :
                        stores[c][j].field = "next" /\ stores[c][j].node = WorkList => j = i + 1
                BY <2>4, <4>1 DEF Planned, QueueInv
            <4>3. ~ (a.field = "next" /\ a.node = WorkList)
                BY <1>2, <2>4, <3>1, <4>2
            <4>4. mem'.next[WorkList] = mem.next[WorkList]
                BY <1>5, <4>3, NodesOfTheRace
            <4>5. ASSUME NEW j \in 1 .. Len(stores'[c]), stores'[c][j].field = "next",
                         stores'[c][j].node = WorkList
                  PROVE  j = i
                <5>1. j + 1 = i + 1
                    BY <4>1, <4>2, <4>5
                <5> QED BY <2>4, <5>1
            <4> QED BY <4>1, <4>2, <4>4, <4>5
        <3>2. CASE c # th
            <4>1. c \in Threads /\ stores'[c] = stores[c]
                BY <1>6, <3>2, NodesOfTheRace
            <4>2. stores[c][i] \in In(stores[c])
                BY <4>1 DEF In
            <4>3. WorkList \in Relied(c)
                BY <1>1, <2>4, <4>1, <4>2, QueueRelied, NodesOfTheRace
            <4>4. a.node \in Relied(th)
                BY <1>1, <1>3, <1>4, QueueRelied
            <4>5. a.node # WorkList
                BY <3>2, <4>1, <4>3, <4>4 DEF Apart
            <4>6. mem'.next[WorkList] = mem.next[WorkList]
                BY <1>5, <4>5, NodesOfTheRace
            <4> QED BY <2>4, <4>1, <4>6 DEF Planned, QueueInv
        <3> QED BY <3>1, <3>2
    <2> QED BY <2>1, <2>3, <2>4 DEF QueueInv
<1>12. PlaceInv' /\ NoFault'
    BY <1>7 DEF Planned, PlaceInv, NoFault, FirstOf
<1> QED BY <1>10, <1>11, <1>12 DEF Planned

\* A step that leaves the lists and the queues as they are.
LEMMA QuietPlanned ==
    ASSUME Planned, UNCHANGED <<mem, seq, live, stores, taken, tmp, fault>>,
           \A l \in {"take", "walk", "cascade", "step"} : pc'[Worker] = l <=> pc[Worker] = l,
           pc[Worker] = "cascade" => timer'[Worker] = timer[Worker],
           \A o \in Threads : pc[o] = "file" => pc'[o] = "file" /\ timer'[o] = timer[o],
           \A o \in Threads : pc'[o] = "file" => timer'[o] \notin On(seq),
           \A t \in gone' :
               /\ t \notin On(seq)
               /\ \A o \in Threads : timer'[o] = t => call'[o] # "mod" /\ pc'[o] # "file"
    PROVE  Planned'
<1>1. PICK v \in Memory : Expects(v)
    BY DEF Planned
<1>2. (Walking' <=> Walking) /\ LooseNext' = LooseNext /\ LoosePrev' = LoosePrev
      /\ Used' = Used
    BY DEF Walking, LooseNext, LoosePrev, Used, FirstOf
<1>3. Expects(v)'
    <2>1. Holds(v, seq', Used') /\ Settles(v, mem', stores', LooseNext', LoosePrev')
        BY <1>1, <1>2 DEF Expects
    <2>2. pc'[Worker] = "take" =>
              /\ v.next[taken'[2]] = FirstOf(taken[1])'
              /\ SettlesTo(mem', stores', "prev", FirstOf(taken[1])', taken'[2])
        BY <1>1 DEF Expects, FirstOf
    <2>3. \A t \in Timers \ On(seq') :
              v.next[t] = NULL \/ \E o \in Threads : pc'[o] = "file" /\ timer'[o] = t
        BY <1>1 DEF Expects
    <2> QED BY <1>1, <2>1, <2>2, <2>3 DEF Expects
<1>4. PlaceInv'
    BY DEF Planned, PlaceInv, FirstOf
<1>5. QueueInv' /\ NoFault'
    BY DEF Planned, QueueInv, NoFault
<1> QED BY <1>1, <1>3, <1>4, <1>5 DEF Planned

\* A call begins.
LEMMA EnterPlanned ==
    ASSUME ControlInv, Planned, NEW th \in Threads, NEW f \in Calls, NEW t \in Timers,
           Enter(th, f, t)
    PROVE  Planned'
<1>1. /\ UNCHANGED <<mem, seq, live, stores, taken, tmp, fault>>
      /\ pc[th] = Outside(th) /\ pc' = [pc EXCEPT ![th] = "check"]
      /\ call' = [call EXCEPT ![th] = f] /\ timer' = [timer EXCEPT ![th] = t]
      /\ gone' = IF f = "mod" THEN gone \ {t} ELSE gone
    BY DEF Enter, At, Goto, vars
<1>2. /\ pc \in [Threads -> Labels] /\ call \in [Threads -> {"none"} \cup Calls]
      /\ timer \in [Threads -> Nodes \cup {NULL}]
    BY DEF ControlInv, RaceTypeOK
<1>3. \A l \in {"take", "walk", "cascade", "step"} : pc'[Worker] = l <=> pc[Worker] = l
    BY <1>1, <1>2, NodesOfTheRace DEF Outside
<1>4. pc[Worker] = "cascade" => timer'[Worker] = timer[Worker]
    BY <1>1, <1>2, NodesOfTheRace DEF Outside
<1>5. \A o \in Threads :
          /\ pc[o] = "file" => pc'[o] = "file" /\ timer'[o] = timer[o]
          /\ pc'[o] = "file" => pc[o] = "file" /\ timer'[o] = timer[o]
    BY <1>1, <1>2 DEF Outside
<1>6. \A o \in Threads : pc'[o] = "file" => timer'[o] \notin On(seq)
    BY <1>5 DEF Planned, PlaceInv
<1>7. ASSUME NEW u \in gone'
      PROVE  /\ u \notin On(seq)
             /\ \A o \in Threads : timer'[o] = u => call'[o] # "mod" /\ pc'[o] # "file"
    <2>1. u \in gone /\ (f = "mod" => u # t)
        BY <1>1
    <2>2. \A o \in Threads \ {th} : timer'[o] = u => call'[o] # "mod" /\ pc'[o] # "file"
        BY <1>1, <1>2, <2>1 DEF Planned, PlaceInv
    <2>3. timer'[th] = u => call'[th] # "mod" /\ pc'[th] # "file"
        BY <1>1, <1>2, <2>1
    <2> QED BY <2>1, <2>2, <2>3 DEF Planned, PlaceInv
<1> QED BY <1>1, <1>3, <1>4, <1>5, <1>6, <1>7, QuietPlanned

\* A call ends.
LEMMA LeavePlanned ==
    ASSUME ControlInv, Planned, NEW th \in Threads, Leave(th)
    PROVE  Planned'
<1>1. /\ UNCHANGED <<mem, seq, live, stores, taken, tmp, fault, gone>>
      /\ pc[th] = "leave" /\ pc' = [pc EXCEPT ![th] = Outside(th)]
      /\ call' = [call EXCEPT ![th] = "none"] /\ timer' = [timer EXCEPT ![th] = NULL]
    BY DEF Leave, At, Goto, vars
<1>2. /\ pc \in [Threads -> Labels] /\ call \in [Threads -> {"none"} \cup Calls]
      /\ timer \in [Threads -> Nodes \cup {NULL}] /\ gone \subseteq Timers
    BY DEF ControlInv, RaceTypeOK
<1>3. \A l \in {"take", "walk", "cascade", "step"} : pc'[Worker] = l <=> pc[Worker] = l
    BY <1>1, <1>2, NodesOfTheRace DEF Outside
<1>4. pc[Worker] = "cascade" => timer'[Worker] = timer[Worker]
    BY <1>1, <1>2, NodesOfTheRace
<1>5. \A o \in Threads :
          /\ pc[o] = "file" => pc'[o] = "file" /\ timer'[o] = timer[o]
          /\ pc'[o] = "file" => pc[o] = "file" /\ timer'[o] = timer[o]
    BY <1>1, <1>2 DEF Outside
<1>6. \A o \in Threads : pc'[o] = "file" => timer'[o] \notin On(seq)
    BY <1>5 DEF Planned, PlaceInv
<1>7. ASSUME NEW u \in gone'
      PROVE  /\ u \notin On(seq)
             /\ \A o \in Threads : timer'[o] = u => call'[o] # "mod" /\ pc'[o] # "file"
    <2>1. u \in gone /\ u # NULL
        BY <1>1, <1>2, NodesOfTheRace
    <2>2. \A o \in Threads \ {th} : timer'[o] = u => call'[o] # "mod" /\ pc'[o] # "file"
        BY <1>1, <1>2, <2>1 DEF Planned, PlaceInv
    <2>3. timer'[th] = NULL
        BY <1>1, <1>2
    <2> QED BY <2>1, <2>2, <2>3 DEF Planned, PlaceInv
<1> QED BY <1>1, <1>3, <1>4, <1>5, <1>6, <1>7, QuietPlanned

\* The steps of the worker that concern no list.
LEMMA WorkerQuiet ==
    ASSUME ControlInv, Planned, Wake \/ Lock \/ CallFn \/ FnReturn \/ EndRun
    PROVE  Planned'
<1>1. /\ UNCHANGED <<mem, seq, live, stores, taken, tmp, fault, gone, call>>
      /\ pc[Worker] \in {"sleep", "lock", "relock", "release", "fn", "loop"}
      /\ \E l \in {"lock", "loop", "next", "fn", "relock", "sleep"} :
            pc' = [pc EXCEPT ![Worker] = l]
      /\ timer' = timer \/ timer' = [timer EXCEPT ![Worker] = NULL]
    BY DEF Wake, Lock, CallFn, FnReturn, EndRun, At, Goto, vars
<1>2. /\ pc \in [Threads -> Labels] /\ timer \in [Threads -> Nodes \cup {NULL}]
      /\ gone \subseteq Timers
    BY DEF ControlInv, RaceTypeOK
<1>3. \A l \in {"take", "walk", "cascade", "step"} : pc'[Worker] = l <=> pc[Worker] = l
    BY <1>1, <1>2, NodesOfTheRace
<1>4. pc[Worker] # "cascade"
    BY <1>1
<1>5. \A o \in Threads :
          /\ pc[o] = "file" => pc'[o] = "file" /\ timer'[o] = timer[o]
          /\ pc'[o] = "file" => pc[o] = "file" /\ timer'[o] = timer[o]
    BY <1>1, <1>2
<1>6. \A o \in Threads : pc'[o] = "file" => timer'[o] \notin On(seq)
    BY <1>5 DEF Planned, PlaceInv
<1>7. ASSUME NEW u \in gone'
      PROVE  /\ u \notin On(seq)
             /\ \A o \in Threads : timer'[o] = u => call'[o] # "mod" /\ pc'[o] # "file"
    <2>1. u \in gone /\ u # NULL
        BY <1>1, <1>2, NodesOfTheRace
    <2>2. \A o \in Threads : timer'[o] = u => timer[o] = u
        BY <1>1, <1>2, <2>1
    <2> QED BY <1>1, <1>5, <2>1, <2>2 DEF Planned, PlaceInv
<1> QED BY <1>1, <1>3, <1>4, <1>5, <1>6, <1>7, QuietPlanned
-----------------------------------------------------------------------------
\* One more assignment.
LEMMA OneMore ==
    ASSUME NEW S, NEW s \in Seq(S), NEW x \in S, NEW n \in Nat, n = Len(s),
           NEW r, r = s \o << x >>
    PROVE  /\ r \in Seq(S) /\ Len(r) = n + 1
           /\ \A i \in 1 .. n : r[i] = s[i]
           /\ r[n + 1] = x
<1>1. s \o << x >> = Append(s, x)
    OBVIOUS
<1> QED BY <1>1

\* A short sequence is the tuple of its elements.
LEMMA Spelled ==
    ASSUME NEW S, NEW s \in Seq(S)
    PROVE  /\ Len(s) = 3 => s = << s[1], s[2], s[3] >>
           /\ Len(s) = 4 => s = << s[1], s[2], s[3], s[4] >>
OBVIOUS

\* detach_timer, written out.
LEMMA DetachIs ==
    ASSUME NEW t
    PROVE  /\ Detach(t, TRUE) = << Assign("prev", mem.next[t], mem.prev[t]),
                                   Assign("next", mem.prev[t], mem.next[t]),
                                   Assign("next", t, NULL),
                                   Assign("prev", t, LIST_POISON2) >>
           /\ Detach(t, FALSE) = << Assign("prev", mem.next[t], mem.prev[t]),
                                    Assign("next", mem.prev[t], mem.next[t]),
                                    Assign("prev", t, LIST_POISON2) >>
<1> DEFINE a1 == Assign("prev", mem.next[t], mem.prev[t])
           a2 == Assign("next", mem.prev[t], mem.next[t])
           a3 == Assign("next", t, NULL)
           a4 == Assign("prev", t, LIST_POISON2)
<1>1. Detach(t, TRUE) = << a1, a2 >> \o << a3 >> \o << a4 >>
    BY DEF Detach
<1>2. Detach(t, FALSE) = << a1, a2 >> \o << >> \o << a4 >>
    BY DEF Detach
<1> HIDE DEF a1, a2, a3, a4
<1>3. PICK S : S = {a1, a2, a3, a4}
    OBVIOUS
<1>4. PICK s : s = << a1, a2 >>
    OBVIOUS
<1>5. s \in Seq(S) /\ 2 = Len(s) /\ s[1] = a1 /\ s[2] = a2 /\ a3 \in S /\ a4 \in S
    BY <1>3, <1>4
<1>6. PICK u : u = s \o << a3 >>
    OBVIOUS
<1>7. u \in Seq(S) /\ Len(u) = 3 /\ u[1] = a1 /\ u[2] = a2 /\ u[3] = a3
    <2>1. u \in Seq(S) /\ Len(u) = 2 + 1 /\ (\A i \in 1 .. 2 : u[i] = s[i]) /\ u[2 + 1] = a3
        BY <1>5, <1>6, OneMore
    <2> QED BY <1>5, <2>1
<1>8. PICK w : w = u \o << a4 >>
    OBVIOUS
<1>9. w \in Seq(S) /\ Len(w) = 4 /\ w[1] = a1 /\ w[2] = a2 /\ w[3] = a3 /\ w[4] = a4
    <2>0. u \in Seq(S) /\ Len(u) \in {3} /\ a4 \in S
        BY <1>5, <1>7
    <2>1. /\ w \in Seq(S) /\ Len(w) = Len(u) + 1
          /\ \A i \in 1 .. Len(u) : w[i] = u[i]
          /\ w[Len(u) + 1] = a4
        BY <2>0, <1>8, OneMore
    <2> QED BY <1>7, <2>1
<1>10. Detach(t, TRUE) = << a1, a2, a3, a4 >>
    BY <1>1, <1>4, <1>6, <1>8, <1>9, Spelled
<1>11. s \o << >> = s
    BY <1>5
<1>12. PICK x : x = s \o << a4 >>
    OBVIOUS
<1>13. x \in Seq(S) /\ Len(x) = 3 /\ x[1] = a1 /\ x[2] = a2 /\ x[3] = a4
    <2>1. x \in Seq(S) /\ Len(x) = 2 + 1 /\ (\A i \in 1 .. 2 : x[i] = s[i]) /\ x[2 + 1] = a4
        BY <1>5, <1>12, OneMore
    <2> QED BY <1>5, <2>1
<1>14. Detach(t, FALSE) = << a1, a2, a4 >>
    BY <1>2, <1>4, <1>11, <1>12, <1>13, Spelled
<1> QED BY <1>10, <1>14 DEF a1, a2, a3, a4

\* The assignments of detach_timer, and the place of each.
LEMMA InDetach ==
    ASSUME NEW t, NEW clear \in BOOLEAN
    PROVE  LET q == Detach(t, clear)
           IN  /\ Assign("prev", mem.next[t], mem.prev[t]) \in In(q)
               /\ Assign("next", mem.prev[t], mem.next[t]) \in In(q)
               /\ Assign("prev", t, LIST_POISON2) \in In(q)
               /\ clear => Assign("next", t, NULL) \in In(q)
               /\ \A x \in In(q) :
                     \/ x = Assign("prev", mem.next[t], mem.prev[t])
                     \/ x = Assign("next", mem.prev[t], mem.next[t])
                     \/ x = Assign("prev", t, LIST_POISON2)
                     \/ clear /\ x = Assign("next", t, NULL)
               /\ q[Len(q)].node = t
               /\ \A i \in 1 .. Len(q) : q[i].field = "next" /\ q[i].node # t =>
                     i = 2 /\ q[i].node = mem.prev[t]
<1> DEFINE a1 == Assign("prev", mem.next[t], mem.prev[t])
           a2 == Assign("next", mem.prev[t], mem.next[t])
           a3 == Assign("next", t, NULL)
           a4 == Assign("prev", t, LIST_POISON2)
<1>0. a1.field = "prev" /\ a2.field = "next" /\ a2.node = mem.prev[t] /\ a3.node = t
      /\ a4.node = t /\ a4.field = "prev"
    BY DEF Assign
<1>1. CASE clear
    <2>1. Detach(t, clear) = << a1, a2, a3, a4 >>
        BY <1>1, DetachIs
    <2> HIDE DEF a1, a2, a3, a4
    <2>2. In(Detach(t, clear)) = {a1, a2, a3, a4}
        BY <2>1 DEF In
    <2>3. Detach(t, clear)[Len(Detach(t, clear))] = a4
        BY <2>1
    <2>4. \A i \in 1 .. Len(Detach(t, clear)) :
              i = 2 \/ Detach(t, clear)[i] \in {a1, a3, a4}
        BY <2>1
    <2>5. Detach(t, clear)[2] = a2
        BY <2>1
    <2> QED BY <1>0, <1>1, <2>2, <2>3, <2>4, <2>5 DEF a1, a2, a3, a4
<1>2. CASE ~ clear
    <2>1. Detach(t, clear) = << a1, a2, a4 >>
        BY <1>2, DetachIs
    <2> HIDE DEF a1, a2, a3, a4
    <2>2. In(Detach(t, clear)) = {a1, a2, a4}
        BY <2>1 DEF In
    <2>3. Detach(t, clear)[Len(Detach(t, clear))] = a4
        BY <2>1
    <2>4. \A i \in 1 .. Len(Detach(t, clear)) :
              i = 2 \/ Detach(t, clear)[i] \in {a1, a4}
        BY <2>1
    <2>5. Detach(t, clear)[2] = a2
        BY <2>1
    <2> QED BY <1>0, <1>2, <2>2, <2>3, <2>4, <2>5 DEF a1, a2, a3, a4
<1> QED BY <1>1, <1>2

\* The assignments of list_add_tail.
LEMMA InAddTail ==
    ASSUME NEW t, NEW h
    PROVE  LET q == AddTail(t, h)
           IN  /\ In(q) = {Assign("prev", h, t), Assign("next", t, h),
                           Assign("prev", t, mem.prev[h]), Assign("next", mem.prev[h], t)}
               /\ \A i \in 1 .. Len(q) : q[i].field = "next" => q[i].node \in {t, mem.prev[h]}
<1>1. AddTail(t, h) = << Assign("prev", h, t), Assign("next", t, h),
                         Assign("prev", t, mem.prev[h]), Assign("next", mem.prev[h], t) >>
    BY DEF AddTail
<1> QED BY <1>1 DEF In, Assign

\* The assignments of list_replace_init.
LEMMA InReplace ==
    ASSUME NEW old, NEW new
    PROVE  /\ In(ReplaceNext(old, new)) = {Assign("next", new, mem.next[old]),
                                           Assign("prev", mem.next[old], new)}
           /\ In(ReplacePrev(old, new)) =
                 {Assign("prev", new, mem.prev[old]), Assign("next", mem.prev[old], new),
                  Assign("next", old, old), Assign("prev", old, old)}
<1>1. ReplaceNext(old, new) = << Assign("next", new, mem.next[old]),
                                 Assign("prev", mem.next[old], new) >>
    BY DEF ReplaceNext
<1>2. ReplacePrev(old, new) =
          << Assign("prev", new, mem.prev[old]), Assign("next", mem.prev[old], new),
             Assign("next", old, old), Assign("prev", old, old) >>
    BY DEF ReplacePrev
<1> QED BY <1>1, <1>2 DEF In

\* The memory that detach_timer leads to.
LEMMA Detached ==
    ASSUME NEW v, NEW used, Holds(v, seq, used), NEW t \in On(seq), NEW clear \in BOOLEAN,
           NEW w,
           w = SetPrev(IF clear THEN SetNext(Unlink(v, t), t, NULL) ELSE Unlink(v, t),
                       t, LIST_POISON2)
    PROVE  \E a, b \in Nodes :
               /\ a # t /\ b # t /\ a \in Heads \cup On(seq)
               /\ v.next[t] = b /\ v.prev[t] = a /\ v.next[a] = t
               /\ w \in Memory /\ Holds(w, Without(t), used)
               /\ w.next[a] = b /\ w.prev[b] = a /\ w.prev[t] = LIST_POISON2
               /\ clear => w.next[t] = NULL
               /\ ~ clear => w.next[t] = b
               /\ \A n \in Nodes \ {a, t} : w.next[n] = v.next[n]
               /\ \A n \in Nodes \ {b, t} : w.prev[n] = v.prev[n]
<1>1. PICK h \in Heads : \E k \in 1 .. Len(seq[h]) : t = seq[h][k]
    BY DEF On
<1>2. PICK k \in 1 .. Len(seq[h]) : t = seq[h][k]
    BY <1>1
<1>3. v \in Memory /\ Lists(seq, used) /\ seq[h] \in Seq(Entries) /\ Len(seq[h]) \in Nat
      /\ t \in Entries /\ t \in Nodes
    BY <1>2, ListsTypes DEF Holds
<1>4. h \in used
    <2>1. seq[h] # << >>
        BY <1>2, <1>3
    <2> QED BY <1>3, <2>1 DEF Lists
<1>5. Ring(v, h, seq[h])
    BY <1>4 DEF Holds
<1> DEFINE a == NodeAt(h, seq[h], k - 1)
           b == NodeAt(h, seq[h], k + 1)
<1>6. a \in Nodes /\ b \in Nodes /\ v.next[t] = b /\ v.prev[t] = a
    BY <1>2, <1>3, <1>5, Neighbours
<1>7. v.next[a] = t
    <2>1. k - 1 \in 0 .. Len(seq[h]) /\ NodeAt(h, seq[h], k) = t
        BY <1>2, <1>3 DEF NodeAt
    <2>2. v.next[NodeAt(h, seq[h], k - 1)] = NodeAt(h, seq[h], (k - 1) + 1)
        BY <1>5, <2>1 DEF Ring
    <2> QED BY <1>2, <1>3, <2>1, <2>2
<1>8. a # t /\ b # t
    <2>1. NodeAt(h, seq[h], k) = t /\ k \in 0 .. Len(seq[h]) /\ k \in 1 .. Len(seq[h]) + 1
          /\ k - 1 \in 0 .. Len(seq[h]) /\ k + 1 \in 1 .. Len(seq[h]) + 1
        BY <1>2, <1>3 DEF NodeAt
    <2>2. a = NodeAt(h, seq[h], k) => k - 1 = k
        BY <1>3, <2>1, Distinct
    <2>3. b = NodeAt(h, seq[h], k) => k + 1 = k
        BY <1>3, <2>1, Distinct
    <2> QED BY <1>2, <1>3, <2>1, <2>2, <2>3
<1>9. a \in Heads \cup On(seq)
    BY <1>3, ListsTypes DEF NodeAt
<1> HIDE DEF a, b
<1>u. PICK u : u = Unlink(v, t)
    OBVIOUS
<1>c. PICK c : c = IF clear THEN SetNext(u, t, NULL) ELSE u
    OBVIOUS
<1>10. /\ u \in Memory /\ u.next[a] = b /\ u.prev[b] = a
       /\ \A n \in Nodes \ {a} : u.next[n] = v.next[n]
       /\ \A n \in Nodes \ {b} : u.prev[n] = v.prev[n]
    <2>1. u = JoinAround(v, a, b)
        BY <1>6, <1>u DEF Unlink
    <2>2. LET j == JoinAround(v, a, b)
          IN  /\ j \in Memory /\ j.next[a] = b /\ j.prev[b] = a
              /\ \A n \in Nodes \ {a} : j.next[n] = v.next[n]
              /\ \A n \in Nodes \ {b} : j.prev[n] = v.prev[n]
        <3>1. v \in Memory /\ a \in Nodes /\ b \in Nodes
            BY <1>3, <1>6
        <3> QED BY <3>1, JoinSets
    <2> QED BY <2>1, <2>2
<1>11. Holds(u, Without(t), used) /\ t \notin On(Without(t))
    BY <1>u, TakenOff
<1>12. /\ c \in Memory /\ c.prev = u.prev
       /\ clear => c.next[t] = NULL
       /\ ~ clear => c.next[t] = u.next[t]
       /\ \A n \in Nodes \ {t} : c.next[n] = u.next[n]
    <2>1. CASE clear
        <3>1. /\ SetNext(u, t, NULL) \in Memory
              /\ SetNext(u, t, NULL).next = [u.next EXCEPT ![t] = NULL]
              /\ SetNext(u, t, NULL).prev = u.prev
            BY <1>3, <1>10, NextSet
        <3>2. u.next \in [Nodes -> Nodes \cup {NULL, LIST_POISON1}]
            BY <1>10, MemoryTypes
        <3> QED BY <1>3, <1>c, <2>1, <3>1, <3>2
    <2>2. CASE ~ clear
        BY <1>10, <1>c, <2>2
    <2> QED BY <2>1, <2>2
<1>13. /\ w \in Memory /\ w.next = c.next /\ w.prev[t] = LIST_POISON2
       /\ \A n \in Nodes \ {t} : w.prev[n] = c.prev[n]
    <2>1. w = SetPrev(c, t, LIST_POISON2)
        BY <1>u, <1>c
    <2>2. /\ SetPrev(c, t, LIST_POISON2) \in Memory
          /\ SetPrev(c, t, LIST_POISON2).prev = [c.prev EXCEPT ![t] = LIST_POISON2]
          /\ SetPrev(c, t, LIST_POISON2).next = c.next
        BY <1>3, <1>12, PrevSet
    <2>3. c.prev \in [Nodes -> Nodes \cup {NULL, LIST_POISON2}]
        BY <1>12, MemoryTypes
    <2> QED BY <1>3, <2>1, <2>2, <2>3
<1>14. Holds(w, Without(t), used)
    BY <1>3, <1>11, <1>12, <1>13, FreeTouched
<1>15. /\ w.next[a] = b /\ (clear => w.next[t] = NULL) /\ (~ clear => w.next[t] = b)
       /\ \A n \in Nodes \ {a, t} : w.next[n] = v.next[n]
    BY <1>3, <1>6, <1>8, <1>10, <1>12, <1>13
<1>16. /\ w.prev[b] = a /\ w.prev[t] = LIST_POISON2
       /\ \A n \in Nodes \ {b, t} : w.prev[n] = v.prev[n]
    BY <1>3, <1>6, <1>8, <1>10, <1>12, <1>13
<1> QED BY <1>6, <1>7, <1>8, <1>9, <1>13, <1>14, <1>15, <1>16

\* A thread takes a timer off its list.
LEMMA DetachPlanned ==
    ASSUME ControlInv, ControlInv', Apart, Apart', Planned, NEW th \in Threads,
           OthersStay(th), stores[th] = << >>, pc[th] # "file",
           th = Worker => pc[Worker] \notin {"take", "cascade", "step"},
           NEW t \in On(seq), NEW clear \in BOOLEAN,
           UNCHANGED <<live, fault, tmp, taken>>,
           stores' = [stores EXCEPT ![th] = Detach(t, clear)], seq' = Without(t),
           \A l \in {"take", "walk", "cascade", "step"} : pc'[Worker] = l <=> pc[Worker] = l,
           timer'[th] = t, clear \/ pc'[th] = "file",
           \A o \in Threads \ {th} : call'[o] = call[o], gone' \subseteq gone \cup {t},
           t \in gone' => /\ pc'[th] # "file"
                          /\ \A o \in Threads : timer'[o] = t => call'[o] # "mod"
    PROVE  Planned'
<1>1. PICK v \in Memory : Expects(v)
    BY DEF Planned
<1>2. /\ RaceTypeOK /\ stores \in [Threads -> Seq(Assignments)] /\ gone \subseteq Timers
      /\ PlaceInv /\ QueueInv /\ NoFault
    BY DEF ControlInv, RaceTypeOK, Planned
<1>3. Holds(v, seq, Used) /\ Lists(seq, Used) /\ Settles(v, mem, stores, LooseNext, LoosePrev)
      /\ \A h \in Used : h \in Heads
    BY <1>1 DEF Expects, Holds, Lists
<1>4. t \in Entries /\ t \in Nodes /\ t \notin Heads
    BY <1>3, TakenOff, NodesAssumption DEF Nodes
<1>5. PICK q \in Seq(Assignments) : q = Detach(t, clear)
    BY <1>2, <1>4, QueuesTyped
<1>6. /\ Queued(stores') = Queued(stores) \cup In(q)
      /\ stores'[th] = q /\ \A o \in Threads \ {th} : stores'[o] = stores[o]
    BY <1>2, <1>5, QueuedAfter
<1>7. \A x \in In(q) : /\ x.node \in Nodes => x.node \in Relied(th)'
                       /\ x.value \in Nodes => x.value \in Relied(th)'
    BY <1>6, QueueReliedNext
<1>8. /\ Assign("prev", mem.next[t], mem.prev[t]) \in In(q)
      /\ Assign("next", mem.prev[t], mem.next[t]) \in In(q)
      /\ Assign("prev", t, LIST_POISON2) \in In(q)
      /\ clear => Assign("next", t, NULL) \in In(q)
      /\ \A x \in In(q) :
            \/ x = Assign("prev", mem.next[t], mem.prev[t])
            \/ x = Assign("next", mem.prev[t], mem.next[t])
            \/ x = Assign("prev", t, LIST_POISON2)
            \/ clear /\ x = Assign("next", t, NULL)
    BY <1>5, InDetach
<1>9. Aside(th, t)
    <2>1. t \in Relied(th)'
        BY <1>4, <1>7, <1>8 DEF Assign
    <2> QED BY <2>1, Alone
<1>10. \A n \in Nodes : Aside(th, n) =>
           /\ n \notin LooseNext /\ n \notin LoosePrev
           /\ mem.next[n] = v.next[n] /\ mem.prev[n] = v.prev[n]
           /\ \A x \in Queued(stores) : x.node # n
           /\ \A o \in Threads \ {th} : pc[o] = "file" => timer[o] # n
    <2> SUFFICES ASSUME NEW n \in Nodes, Aside(th, n)
                 PROVE  /\ n \notin LooseNext /\ n \notin LoosePrev
                        /\ mem.next[n] = v.next[n] /\ mem.prev[n] = v.prev[n]
                        /\ \A x \in Queued(stores) : x.node # n
                        /\ \A o \in Threads \ {th} : pc[o] = "file" => timer[o] # n
        OBVIOUS
    <2>1. n \notin LooseNext /\ n \notin LoosePrev
        BY <1>1, <1>2, Steady
    <2> QED BY <1>3, <2>1, Reading
<1>11. PICK w : w = SetPrev(IF clear THEN SetNext(Unlink(v, t), t, NULL) ELSE Unlink(v, t),
                            t, LIST_POISON2)
    OBVIOUS
<1>12. PICK a \in Nodes, b \in Nodes :
           /\ a # t /\ b # t /\ a \in Heads \cup On(seq)
           /\ v.next[t] = b /\ v.prev[t] = a /\ v.next[a] = t
           /\ w \in Memory /\ Holds(w, Without(t), Used)
           /\ w.next[a] = b /\ w.prev[b] = a /\ w.prev[t] = LIST_POISON2
           /\ clear => w.next[t] = NULL
           /\ ~ clear => w.next[t] = b
           /\ \A n \in Nodes \ {a, t} : w.next[n] = v.next[n]
           /\ \A n \in Nodes \ {b, t} : w.prev[n] = v.prev[n]
    BY <1>3, <1>11, Detached
<1>13. /\ Assign("prev", b, a) \in In(q) /\ Assign("next", a, b) \in In(q)
       /\ \A x \in In(q) :
             \/ x = Assign("prev", b, a)
             \/ x = Assign("next", a, b)
             \/ x = Assign("prev", t, LIST_POISON2)
             \/ clear /\ x = Assign("next", t, NULL)
    BY <1>4, <1>8, <1>9, <1>10, <1>12
<1>14. Aside(th, a) /\ Aside(th, b)
    <2>1. a \in Relied(th)' /\ b \in Relied(th)'
        BY <1>7, <1>13 DEF Assign
    <2> QED BY <2>1, Alone
<1>15. /\ t \notin LooseNext \cup LoosePrev /\ a \notin LooseNext \cup LoosePrev
       /\ b \notin LooseNext \cup LoosePrev
       /\ \A x \in Queued(stores) : x.node # t /\ x.node # a /\ x.node # b
    BY <1>4, <1>9, <1>10, <1>14
<1>16. ASSUME NEW h \in Heads, FirstOf(h) \in LoosePrev
       PROVE  /\ NodeAt(h, seq'[h], 1) = FirstOf(h) /\ (seq'[h] = << >> <=> seq[h] = << >>)
              /\ t # NodeAt(h, seq[h], 2) => NodeAt(h, seq'[h], 2) = NodeAt(h, seq[h], 2)
    <2>1. t # NodeAt(h, seq[h], 1)
        BY <1>15, <1>16 DEF FirstOf
    <2> QED BY <1>3, <2>1, KeptFront DEF FirstOf
<1>17. TvList \in Heads /\ (pc[Worker] = "take" => taken[1] \in Heads /\ taken[2] \in Heads)
    BY ThreadsAssumption DEF ControlInv, Buckets
<1>18. (Walking' <=> Walking) /\ (Walking => FirstOf(TvList)' = FirstOf(TvList))
       /\ (pc[Worker] = "take" => FirstOf(taken[1])' = FirstOf(taken[1]))
    <2>1. Walking => FirstOf(TvList) \in LoosePrev
        BY DEF LoosePrev
    <2>2. pc[Worker] = "take" => FirstOf(taken[1]) \in LoosePrev
        BY DEF LoosePrev, Walking
    <2> QED BY <1>16, <1>17, <2>1, <2>2 DEF Walking, FirstOf
<1>19. LooseNext' = LooseNext /\ LoosePrev' = LoosePrev /\ Used' = Used
    BY <1>18 DEF LooseNext, LoosePrev, Used, Walking
<1>20. On(Without(t)) = On(seq) \ {t}
    <2>1. PICK h \in Heads : \E k \in 1 .. Len(seq[h]) : t = seq[h][k]
        BY DEF On
    <2>2. PICK k \in 1 .. Len(seq[h]) : t = seq[h][k]
        BY <2>1
    <2> QED BY <1>3, <2>2, WithoutIs
<1>21. \A x \in In(q) : /\ x.field = "next" => x.value = w.next[x.node] /\ x.node \in {a, t}
                        /\ x.field = "prev" => x.value = w.prev[x.node] /\ x.node \in {b, t}
    BY <1>12, <1>13 DEF Assign
<1>22. /\ \E x \in In(q) : x.field = "next" /\ x.node = a
       /\ \E x \in In(q) : x.field = "prev" /\ x.node = b
       /\ \E x \in In(q) : x.field = "prev" /\ x.node = t
    BY <1>8, <1>13 DEF Assign
<1>23. ASSUME NEW n \in Nodes
       PROVE  /\ n \notin LooseNext => SettlesTo(mem', stores', "next", n, w.next[n])
              /\ n \notin LoosePrev => SettlesTo(mem', stores', "prev", n, w.prev[n])
    <2>0. mem' = mem
        BY DEF OthersStay
    <2>t. /\ \A x \in Queued(stores) : x.node # t
          /\ \E x \in In(q) : x.field = "prev" /\ x.node = t
        BY <1>15, <1>22
    <2>c. ASSUME clear PROVE \E x \in In(q) : x.field = "next" /\ x.node = t
        BY <1>8, <2>c DEF Assign
    <2>q. Queued(stores') = Queued(stores) \cup In(q)
        BY <1>6
    <2>1. ASSUME n \notin LooseNext
          PROVE  SettlesTo(mem, stores', "next", n, w.next[n])
        <3>1. SettlesTo(mem, stores, "next", n, v.next[n])
            BY <1>3, <2>1 DEF Settles
        <3>2. \A x \in In(q) : x.field = "next" /\ x.node = n => x.value = w.next[n]
            BY <1>21
        <3>3. CASE n = a
            <4>q. /\ \E x \in In(q) : x.field = "next" /\ x.node = n
                  /\ \A x \in Queued(stores) : x.node # n
                BY <1>15, <1>22, <3>3
            <4> QED BY <2>q, <3>2, <4>q DEF SettlesTo
        <3>4. CASE n = t
            <4>1. CASE clear
                <5>q. /\ \E x \in In(q) : x.field = "next" /\ x.node = n
                      /\ \A x \in Queued(stores) : x.node # n
                    BY <2>t, <2>c, <3>4, <4>1
                <5> QED BY <2>q, <3>2, <5>q DEF SettlesTo
            <4>2. CASE ~ clear
                <5>1. w.next[n] = v.next[n]
                    BY <1>12, <3>4, <4>2
                <5> QED BY <3>1, <3>2, <5>1, <2>q DEF SettlesTo
            <4> QED BY <4>1, <4>2
        <3>5. CASE n \notin {a, t}
            <4>1. w.next[n] = v.next[n]
                BY <1>12, <3>5
            <4> QED BY <3>1, <3>2, <4>1, <2>q DEF SettlesTo
        <3> QED BY <3>3, <3>4, <3>5
    <2>2. ASSUME n \notin LoosePrev
          PROVE  SettlesTo(mem, stores', "prev", n, w.prev[n])
        <3>1. SettlesTo(mem, stores, "prev", n, v.prev[n])
            BY <1>3, <2>2 DEF Settles
        <3>2. \A x \in In(q) : x.field = "prev" /\ x.node = n => x.value = w.prev[n]
            BY <1>21
        <3>3. CASE n = b
            <4>q. /\ \E x \in In(q) : x.field = "prev" /\ x.node = n
                  /\ \A x \in Queued(stores) : x.node # n
                BY <1>15, <1>22, <3>3
            <4> QED BY <2>q, <3>2, <4>q DEF SettlesTo
        <3>4. CASE n = t
            <4>q. /\ \E x \in In(q) : x.field = "prev" /\ x.node = n
                  /\ \A x \in Queued(stores) : x.node # n
                BY <2>t, <3>4
            <4> QED BY <2>q, <3>2, <4>q DEF SettlesTo
        <3>5. CASE n \notin {b, t}
            <4>1. w.prev[n] = v.prev[n]
                BY <1>12, <3>5
            <4> QED BY <3>1, <3>2, <4>1, <2>q DEF SettlesTo
        <3> QED BY <3>3, <3>4, <3>5
    <2> QED BY <2>0, <2>1, <2>2
<1>24. Expects(w)'
    <2>1. Holds(w, seq', Used')
        BY <1>12, <1>19
    <2>2. Settles(w, mem', stores', LooseNext', LoosePrev')
        BY <1>19, <1>23 DEF Settles
    <2>3. ASSUME pc'[Worker] = "take"
          PROVE  /\ w.next[taken'[2]] = FirstOf(taken[1])'
                 /\ SettlesTo(mem', stores', "prev", FirstOf(taken[1])', taken'[2])
        <3>1. pc[Worker] = "take" /\ th # Worker /\ Worker \in Threads
            BY <2>3, NodesOfTheRace
        <3>2. taken[2] \in Relied(Worker) /\ FirstOf(taken[1]) \in LoosePrev
            BY <1>1, <1>2, <3>1, TakeRelied DEF LoosePrev, Walking
        <3>3. taken[2] # a /\ taken[2] # t /\ taken[2] \in Nodes
            BY <1>9, <1>14, <1>17, <3>1, <3>2 DEF Aside, Nodes
        <3>4. w.next[taken[2]] = FirstOf(taken[1])
            BY <1>1, <1>12, <3>1, <3>3 DEF Expects
        <3>5. SettlesTo(mem, stores, "prev", FirstOf(taken[1]), taken[2])
            BY <1>1, <3>1 DEF Expects
        <3>6. FirstOf(taken[1]) \notin {b, t}
            BY <1>15, <3>2
        <3>7. \A x \in In(q) : ~ (x.field = "prev" /\ x.node = FirstOf(taken[1]))
            BY <1>21, <3>6
        <3>8. mem' = mem /\ Queued(stores') = Queued(stores) \cup In(q)
            BY <1>6 DEF OthersStay
        <3>9. SettlesTo(mem', stores', "prev", FirstOf(taken[1]), taken[2])
            BY <3>5, <3>7, <3>8 DEF SettlesTo
        <3> QED BY <1>18, <3>1, <3>4, <3>9
    <2>4. ASSUME NEW u \in Timers \ On(seq')
          PROVE  w.next[u] = NULL \/ \E o \in Threads : pc'[o] = "file" /\ timer'[o] = u
        <3>1. CASE u = t
            BY <1>12, <3>1
        <3>2. CASE u # t
            <4>1. u \in Timers \ On(seq) /\ u \in Nodes /\ u # a
                BY <1>12, <1>20, <2>4, <3>2, NodesOfTheRace
            <4>2. v.next[u] = NULL \/ \E o \in Threads : pc[o] = "file" /\ timer[o] = u
                BY <1>1, <4>1 DEF Expects
            <4>3. w.next[u] = v.next[u]
                BY <1>12, <3>2, <4>1
            <4>4. \A o \in Threads : pc[o] = "file" => pc'[o] = "file" /\ timer'[o] = timer[o]
                BY DEF OthersStay
            <4> QED BY <4>2, <4>3, <4>4
        <3> QED BY <3>1, <3>2
    <2> QED BY <1>12, <2>1, <2>2, <2>3, <2>4 DEF Expects
<1>25. PlaceInv'
    <2>1. ASSUME NEW o \in Threads, pc'[o] = "file" PROVE timer'[o] \notin On(seq')
        <3>1. CASE o = th
            BY <1>20, <3>1
        <3>2. CASE o # th
            BY <1>2, <1>20, <2>1, <3>2 DEF PlaceInv, OthersStay
        <3> QED BY <3>1, <3>2
    <2>2. ASSUME NEW u \in gone'
          PROVE  /\ u \notin On(seq')
                 /\ \A o \in Threads : timer'[o] = u => call'[o] # "mod" /\ pc'[o] # "file"
        <3>1. CASE u = t
            <4>1. \A o \in Threads \ {th} : timer'[o] = u => pc'[o] # "file"
                BY <1>4, <1>9, <1>10, <3>1 DEF OthersStay
            <4> QED BY <1>20, <2>2, <3>1, <4>1
        <3>2. CASE u # t
            <4>1. u \in gone
                BY <2>2, <3>2
            <4>2. \A o \in Threads \ {th} : timer'[o] = u => call'[o] # "mod" /\ pc'[o] # "file"
                BY <1>2, <4>1 DEF PlaceInv, OthersStay
            <4>3. timer'[th] # u
                BY <3>2
            <4> QED BY <1>2, <1>20, <4>1, <4>2, <4>3 DEF PlaceInv
        <3> QED BY <3>1, <3>2
    <2>3. ASSUME pc'[Worker] = "cascade"
          PROVE  /\ timer'[Worker] = FirstOf(TvList)'
                 /\ seq'[TvList] # << >> => tmp' = NodeAt(TvList, seq'[TvList], 2)
        <3>1. pc[Worker] = "cascade" /\ th # Worker /\ Worker \in Threads /\ Walking
            BY <2>3, NodesOfTheRace DEF Walking
        <3>2. timer'[Worker] = timer[Worker] /\ tmp' = tmp
            BY <3>1 DEF OthersStay
        <3>3. FirstOf(TvList) \in LoosePrev
            BY <3>1 DEF LoosePrev
        <3>4. seq'[TvList] = << >> <=> seq[TvList] = << >>
            BY <1>16, <1>17, <3>3
        <3>5. ASSUME seq[TvList] # << >>
              PROVE  t # NodeAt(TvList, seq[TvList], 2)
            <4>1. NodeAt(TvList, seq[TvList], 2) \in Relied(Worker)
                BY <1>1, <1>2, <3>1, <3>5, WalkRelied
            <4> QED BY <1>9, <3>1, <4>1 DEF Aside
        <3>6. seq'[TvList] # << >> => tmp' = NodeAt(TvList, seq'[TvList], 2)
            BY <1>2, <1>16, <1>17, <3>1, <3>2, <3>3, <3>4, <3>5 DEF PlaceInv
        <3> QED BY <1>2, <1>18, <3>1, <3>2, <3>6 DEF PlaceInv
    <2>4. pc'[Worker] = "step" => tmp' = FirstOf(TvList)'
        BY <1>2, <1>18 DEF PlaceInv, Walking
    <2> QED BY <2>1, <2>2, <2>3, <2>4 DEF PlaceInv
<1>26. QueueInv'
    <2>1. ASSUME NEW x \in Queued(stores') PROVE x.node \in Nodes
        <3>1. x \in Queued(stores) => x.node \in Nodes
            BY <1>2 DEF QueueInv
        <3>2. x \in In(q) => x.node \in {a, b, t}
            BY <1>13 DEF Assign
        <3> QED BY <1>4, <1>6, <3>1, <3>2
    <2>2. ASSUME pc'[Worker] = "step"
          PROVE  \A x \in In(stores'[Worker]) : x.field = "next" =>
                     \A i \in 1 .. Len(seq'[TvList]) : x.node # seq'[TvList][i]
        <3>1. th # Worker /\ stores'[Worker] = stores[Worker] /\ pc[Worker] = "step"
            BY <1>6, <2>2, NodesOfTheRace
        <3>2. \A i \in 1 .. Len(seq'[TvList]) :
                  \E j \in 1 .. Len(seq[TvList]) : seq'[TvList][i] = seq[TvList][j]
            <4>1. PICK h \in Heads : \E k \in 1 .. Len(seq[h]) : t = seq[h][k]
                BY DEF On
            <4>2. PICK k \in 1 .. Len(seq[h]) : t = seq[h][k]
                BY <4>1
            <4>3. seq' = [seq EXCEPT ![h] = RemoveAt(seq[h], k)] /\ seq \in [Heads -> Seq(Entries)]
                <5>1. Without(seq[h][k]) = [seq EXCEPT ![h] = RemoveAt(seq[h], k)]
                    BY <1>3, WithoutIs
                <5> QED BY <1>3, <4>2, <5>1 DEF Lists
            <4>4. CASE h # TvList
                BY <4>3, <4>4
            <4>5. CASE h = TvList
                <5>1. seq'[TvList] = RemoveAt(seq[h], k) /\ seq[h] \in Seq(Entries)
                      /\ Len(seq[h]) \in Nat
                    BY <1>17, <4>3, <4>5
                <5>2. /\ Len(seq'[TvList]) = Len(seq[h]) - 1
                      /\ \A i \in 1 .. Len(seq[h]) - 1 :
                            seq'[TvList][i] = IF i < k THEN seq[h][i] ELSE seq[h][i + 1]
                    BY <4>2, <5>1, RemovedAt
                <5>3. ASSUME NEW i \in 1 .. Len(seq[h]) - 1
                      PROVE  \E j \in 1 .. Len(seq[h]) : seq'[TvList][i] = seq[h][j]
                    <6>1. i \in 1 .. Len(seq[h]) /\ i + 1 \in 1 .. Len(seq[h])
                        BY <5>1
                    <6> QED BY <5>2, <6>1
                <5>4. 1 .. Len(seq'[TvList]) = 1 .. Len(seq[h]) - 1
                    BY <5>2
                <5> QED BY <4>5, <5>3, <5>4
            <4> QED BY <4>4, <4>5
        <3>3. \A x \in In(stores[Worker]) : x.field = "next" =>
                  \A i \in 1 .. Len(seq[TvList]) : x.node # seq[TvList][i]
            BY <1>2, <3>1 DEF QueueInv
        <3> QED BY <3>1, <3>2, <3>3
    <2>3. ASSUME NEW c \in Clients, NEW i \in 1 .. Len(stores'[c]),
                 stores'[c][i].field = "next", stores'[c][i].node = WorkList
          PROVE  /\ mem'.next[WorkList] \in Timers
                 /\ stores'[c][Len(stores'[c])].node = mem'.next[WorkList]
                 /\ \A j \in 1 .. Len(stores'[c]) :
                       stores'[c][j].field = "next" /\ stores'[c][j].node = WorkList => j = i
        <3>1. mem' = mem /\ c \in Threads
            BY NodesOfTheRace DEF OthersStay
        <3>2. CASE c # th
            <4>1. stores'[c] = stores[c]
                BY <1>6, <3>1, <3>2
            <4>2. /\ i \in 1 .. Len(stores[c]) /\ stores[c][i].field = "next"
                  /\ stores[c][i].node = WorkList
                BY <2>3, <4>1
            <4>3. /\ mem.next[WorkList] \in Timers
                  /\ stores[c][Len(stores[c])].node = mem.next[WorkList]
                  /\ \A j \in 1 .. Len(stores[c]) :
                        stores[c][j].field = "next" /\ stores[c][j].node = WorkList => j = i
                BY <1>2, <4>2 DEF QueueInv
            <4> QED BY <3>1, <4>1, <4>3
        <3>3. CASE c = th
            <4>1. /\ stores'[c] = q /\ q[Len(q)].node = t
                  /\ \A j \in 1 .. Len(q) : q[j].field = "next" /\ q[j].node # t =>
                        j = 2 /\ q[j].node = mem.prev[t]
                BY <1>5, <1>6, <3>3, InDetach
            <4>2. WorkList # t
                BY <1>4, ThreadsAssumption
            <4>3. i = 2 /\ mem.prev[t] = WorkList
                BY <2>3, <4>1, <4>2
            <4>4. mem.next[WorkList] = t
                <5>1. a = WorkList
                    BY <1>4, <1>9, <1>10, <1>12, <4>3
                <5>2. mem.next[a] = v.next[a]
                    BY <1>10, <1>14
                <5> QED BY <1>12, <5>1, <5>2
            <4>5. \A j \in 1 .. Len(q) : q[j].field = "next" /\ q[j].node = WorkList => j = i
                BY <4>1, <4>2, <4>3
            <4> QED BY <1>4, <3>1, <4>1, <4>4, <4>5 DEF Timers
        <3> QED BY <3>2, <3>3
    <2> QED BY <2>1, <2>2, <2>3 DEF QueueInv
<1> QED BY <1>2, <1>12, <1>24, <1>25, <1>26 DEF Planned, NoFault

\* A timer that is on a list has a next one there.
LEMMA NextOnList ==
    ASSUME NEW v, NEW used, Holds(v, seq, used), NEW t \in On(seq)
    PROVE  v.next[t] \in Nodes
<1>1. PICK clear : clear \in BOOLEAN
    OBVIOUS
<1>2. PICK w : w = SetPrev(IF clear THEN SetNext(Unlink(v, t), t, NULL) ELSE Unlink(v, t),
                           t, LIST_POISON2)
    OBVIOUS
<1>3. \E a, b \in Nodes : v.next[t] = b
    BY <1>1, <1>2, Detached
<1> QED BY <1>3

\* __mod_timer or del_timer looks at its timer, and takes it off.
LEMMA CheckPlanned ==
    ASSUME ControlInv, ControlInv', Apart, Apart', Planned, NEW th \in Threads, Check(th)
    PROVE  Planned'
<1> DEFINE t == timer[th]
<1>1. /\ pc[th] = "check" /\ stores[th] = << >> /\ t \in Timers /\ t \in Nodes
      /\ call[th] \in Calls /\ stores \in [Threads -> Seq(Assignments)] /\ RaceTypeOK
      /\ pc \in [Threads -> Labels] /\ timer \in [Threads -> Nodes \cup {NULL}]
    BY NodesOfTheRace DEF Check, At, ControlInv, RaceTypeOK
<1>2. UNCHANGED <<mem, live, call, timer, tmp, taken, locked, fault>>
    BY DEF Check
<1>3. PlaceInv /\ QueueInv /\ gone \subseteq Timers
    BY DEF Planned, ControlInv, RaceTypeOK
<1>4. PICK v \in Memory : Expects(v)
    BY DEF Planned
<1>5. /\ Holds(v, seq, Used) /\ Settles(v, mem, stores, LooseNext, LoosePrev)
      /\ \A u \in Timers \ On(seq) :
            v.next[u] = NULL \/ \E o \in Threads : pc[o] = "file" /\ timer[o] = u
    BY <1>4 DEF Expects
<1>6. ASSUME Aside(th, t)
      PROVE  /\ mem.next[t] = v.next[t]
             /\ \A o \in Threads : pc[o] = "file" => timer[o] # t
    <2>1. th = Worker => pc[Worker] \notin {"take", "cascade", "step"}
        BY <1>1
    <2>2. t \notin LooseNext /\ t \notin LoosePrev
        BY <1>3, <1>4, <1>6, <2>1, Steady
    <2>3. /\ mem.next[t] = v.next[t]
          /\ \A o \in Threads \ {th} : pc[o] = "file" => timer[o] # t
        BY <1>1, <1>5, <1>6, <2>2, Reading
    <2> QED BY <1>1, <2>3
<1>7. \E l \in {"file", "leave"} : pc' = [pc EXCEPT ![th] = l]
    BY DEF Check, Goto
<1>8. /\ \A o \in Threads \ {th} : pc'[o] = pc[o]
      /\ \A l \in {"take", "walk", "cascade", "step"} : pc'[Worker] = l <=> pc[Worker] = l
    BY <1>1, <1>7, NodesOfTheRace
<1>9. CASE timer_pending(t)
    <2>1. /\ stores' = [stores EXCEPT ![th] = Detach(t, call[th] = "del")]
          /\ seq' = Without(t)
          /\ pc' = [pc EXCEPT ![th] = IF call[th] = "del" THEN "leave" ELSE "file"]
          /\ gone' = IF call[th] = "del" /\ ~ BeingArmed(t) THEN gone \cup {t} ELSE gone
        BY <1>9 DEF Check, Queue, Goto
    <2>2. PICK clear \in BOOLEAN : clear = (call[th] = "del")
        OBVIOUS
    <2>3. PICK q \in Seq(Assignments) : q = Detach(t, clear)
        BY <1>1, QueuesTyped
    <2>4. stores'[th] = q /\ \A o \in Threads \ {th} : stores'[o] = stores[o]
        BY <1>1, <2>1, <2>2, <2>3
    <2>5. OthersStay(th)
        BY <1>2, <1>8, <2>4 DEF OthersStay
    <2>6. Aside(th, t)
        <3>1. Assign("prev", t, LIST_POISON2) \in In(q)
            BY <2>3, InDetach
        <3>2. t \in Relied(th)'
            BY <1>1, <2>4, <3>1, QueueReliedNext DEF Assign
        <3> QED BY <2>5, <3>2, Alone
    <2>7. t \in On(seq)
        <3>1. mem.next[t] # NULL
            BY <1>9 DEF timer_pending
        <3> QED BY <1>1, <1>5, <1>6, <2>6, <3>1
    <2>8. timer'[th] = t /\ (clear \/ pc'[th] = "file") /\ gone' \subseteq gone \cup {t}
        BY <1>1, <1>2, <2>1, <2>2
    <2>9. t \in gone' => /\ pc'[th] # "file"
                         /\ \A o \in Threads : timer'[o] = t => call'[o] # "mod"
        <3>1. t \notin gone
            BY <1>3, <2>7 DEF PlaceInv
        <3>2. t \in gone' => call[th] = "del" /\ ~ BeingArmed(t)
            BY <2>1, <3>1
        <3> QED BY <1>1, <1>2, <2>1, <3>2 DEF BeingArmed
    <2>10. /\ pc[th] # "file" /\ \A o \in Threads \ {th} : call'[o] = call[o]
           /\ th = Worker => pc[Worker] \notin {"take", "cascade", "step"}
           /\ stores' = [stores EXCEPT ![th] = Detach(t, clear)]
        BY <1>1, <1>2, <2>1, <2>2
    <2> HIDE DEF t
    <2> QED BY <1>1, <1>2, <1>8, <2>1, <2>5, <2>7, <2>8, <2>9, <2>10, DetachPlanned
<1>10. CASE ~ timer_pending(t)
    <2>1. /\ UNCHANGED <<stores, seq, gone>>
          /\ pc' = [pc EXCEPT ![th] = IF call[th] = "mod" THEN "file" ELSE "leave"]
        BY <1>10 DEF Check, Goto
    <2>2. OthersStay(th)
        BY <1>2, <1>8, <2>1 DEF OthersStay
    <2>3. ASSUME pc'[th] = "file" PROVE t \notin On(seq)
        <3>1. t \in Relied(th)'
            BY <1>1, <1>2, <2>3 DEF Relied
        <3>2. mem.next[t] = v.next[t]
            BY <1>6, <2>2, <3>1, Alone
        <3>3. v.next[t] \notin Nodes
            BY <1>10, <3>2, NodesOfTheRace DEF timer_pending
        <3> QED BY <1>5, <3>3, NextOnList
    <2>4. ASSUME NEW o \in Threads
          PROVE  /\ pc[o] = "file" => pc'[o] = "file" /\ timer'[o] = timer[o]
                 /\ pc'[o] = "file" => timer'[o] \notin On(seq)
        <3>1. CASE o = th
            BY <1>1, <1>2, <2>3, <3>1
        <3>2. CASE o # th
            BY <1>2, <1>3, <1>8, <3>2 DEF PlaceInv
        <3> QED BY <3>1, <3>2
    <2>5. ASSUME NEW u \in gone'
          PROVE  /\ u \notin On(seq)
                 /\ \A o \in Threads : timer'[o] = u => call'[o] # "mod" /\ pc'[o] # "file"
        <3>1. u \in gone /\ u \notin On(seq)
            BY <1>3, <2>1 DEF PlaceInv
        <3>2. \A o \in Threads : timer[o] = u => call[o] # "mod" /\ pc[o] # "file"
            BY <1>3, <3>1 DEF PlaceInv
        <3>3. pc'[th] = "file" => call[th] = "mod"
            BY <1>1, <2>1
        <3> QED BY <1>2, <1>8, <3>1, <3>2, <3>3
    <2> QED BY <1>2, <1>8, <2>1, <2>4, <2>5, QuietPlanned
<1> QED BY <1>9, <1>10

\* The worker reads the first timer of the work list, or one that a client is
\* just taking off.
LEMMA WorkListNext ==
    ASSUME ControlInv, QueueInv, NEW v, Expects(v), pc[Worker] = "next",
           stores[Worker] = << >>
    PROVE  /\ \/ /\ mem.next[WorkList] \in Timers
                 /\ \E c \in Clients : \E a \in In(stores[c]) : a.node = mem.next[WorkList]
              \/ mem.next[WorkList] = FirstOf(WorkList)
           /\ WorkList \in Used /\ seq[WorkList] \in Seq(Entries)
           /\ FirstOf(WorkList) \in Timers => FirstOf(WorkList) \in On(seq)
           /\ FirstOf(WorkList) = WorkList <=> seq[WorkList] = << >>
           /\ FirstOf(WorkList) \in Timers \cup {WorkList}
<1>1. /\ WorkList \in Heads /\ WorkList \in Used /\ stores \in [Threads -> Seq(Assignments)]
      /\ WorkList \in Nodes
    BY ThreadsAssumption, NodesOfTheRace DEF ControlInv, Used, Serving
<1>2. Lists(seq, Used) /\ v \in Memory /\ Ring(v, WorkList, seq[WorkList])
    BY <1>1 DEF Expects, Holds
<1>3. seq[WorkList] \in Seq(Entries) /\ Len(seq[WorkList]) \in Nat
      /\ \A i \in 1 .. Len(seq[WorkList]) :
            seq[WorkList][i] \in Entries /\ seq[WorkList][i] \in On(seq)
    BY <1>1, <1>2, ListsTypes
<1>4. v.next[WorkList] = FirstOf(WorkList)
    BY <1>1, <1>2, <1>3, Neighbours DEF FirstOf
<1>5. /\ FirstOf(WorkList) \in Timers => FirstOf(WorkList) \in On(seq)
      /\ FirstOf(WorkList) = WorkList <=> seq[WorkList] = << >>
      /\ FirstOf(WorkList) \in Timers \cup {WorkList}
    <2>1. CASE seq[WorkList] = << >>
        <3>1. FirstOf(WorkList) = WorkList
            BY <2>1 DEF FirstOf, NodeAt
        <3> QED BY <1>1, <2>1, <3>1, NodesAssumption DEF Timers
    <2>2. CASE seq[WorkList] # << >>
        <3>1. FirstOf(WorkList) = seq[WorkList][1] /\ 1 \in 1 .. Len(seq[WorkList])
            BY <1>3, <2>2 DEF FirstOf, NodeAt
        <3> QED BY <1>1, <1>3, <2>2, <3>1, NodesAssumption DEF Timers
    <2> QED BY <2>1, <2>2
<1>6. SettlesTo(mem, stores, "next", WorkList, FirstOf(WorkList))
    <2>1. WorkList \notin LooseNext
        BY DEF LooseNext, Walking
    <2> QED BY <1>1, <1>4, <2>1 DEF Expects, Settles
<1>7. CASE \A a \in Queued(stores) : ~ (a.field = "next" /\ a.node = WorkList)
    <2>1. mem.next[WorkList] = FirstOf(WorkList)
        BY <1>6, <1>7, MemoryFields DEF SettlesTo, ControlInv
    <2> QED BY <1>1, <1>3, <1>5, <2>1
<1>8. CASE \E a \in Queued(stores) : a.field = "next" /\ a.node = WorkList
    <2>1. PICK o \in Threads : \E a \in In(stores[o]) : a.field = "next" /\ a.node = WorkList
        BY <1>8 DEF Queued
    <2>2. o \in Clients
        BY <2>1 DEF In, Threads
    <2>3. PICK i \in 1 .. Len(stores[o]) :
              stores[o][i].field = "next" /\ stores[o][i].node = WorkList
        BY <2>1 DEF In
    <2>4. mem.next[WorkList] \in Timers /\ stores[o][Len(stores[o])].node = mem.next[WorkList]
        BY <2>2, <2>3 DEF QueueInv
    <2>5. stores[o][Len(stores[o])] \in In(stores[o])
        <3>1. Len(stores[o]) \in Nat
            BY <1>1, <2>1
        <3>2. Len(stores[o]) \in 1 .. Len(stores[o])
            BY <2>3, <3>1
        <3> QED BY <3>2 DEF In
    <2> QED BY <1>1, <1>3, <1>5, <2>2, <2>4, <2>5
<1> QED BY <1>7, <1>8

\* The next timer of the work list is taken off.
LEMMA ExpirePlanned ==
    ASSUME ControlInv, ControlInv', Apart, Apart', Planned, Expire
    PROVE  Planned'
<1>1. /\ pc[Worker] = "next" /\ stores[Worker] = << >> /\ mem.next[WorkList] # WorkList
      /\ stores \in [Threads -> Seq(Assignments)] /\ RaceTypeOK /\ Worker \in Threads
      /\ pc \in [Threads -> Labels] /\ timer \in [Threads -> Nodes \cup {NULL}]
      /\ ~ fault
    BY NodesOfTheRace DEF Expire, At, ControlInv, RaceTypeOK
<1>2. PlaceInv /\ QueueInv
    BY DEF Planned
<1>3. PICK v \in Memory : Expects(v)
    BY DEF Planned
<1>4. PICK t : t = mem.next[WorkList]
    OBVIOUS
<1>5. /\ \/ /\ t \in Timers
            /\ \E c \in Clients : \E a \in In(stores[c]) : a.node = t
         \/ t = FirstOf(WorkList)
      /\ FirstOf(WorkList) \in Timers => FirstOf(WorkList) \in On(seq)
      /\ FirstOf(WorkList) \in Timers \cup {WorkList}
    BY <1>1, <1>2, <1>3, <1>4, WorkListNext
<1>6. t \in Timers /\ t \in Nodes
    BY <1>1, <1>4, <1>5, NodesOfTheRace
<1>7. /\ stores' = [stores EXCEPT ![Worker] = Detach(t, TRUE)]
      /\ timer' = [timer EXCEPT ![Worker] = t]
      /\ seq' = Without(t) /\ pc' = [pc EXCEPT ![Worker] = "release"]
      /\ UNCHANGED <<mem, live, call, tmp, taken, locked, gone, fault>>
    BY <1>4, <1>6 DEF Expire, Queue, Goto
<1>8. PICK clear \in BOOLEAN : clear = TRUE
    OBVIOUS
<1>9. PICK q \in Seq(Assignments) : q = Detach(t, clear)
    BY <1>1, <1>6, QueuesTyped
<1>10. stores'[Worker] = q /\ \A o \in Threads \ {Worker} : stores'[o] = stores[o]
    BY <1>1, <1>7, <1>8, <1>9
<1>11. OthersStay(Worker)
    BY <1>1, <1>7, <1>10 DEF OthersStay
<1>12. t \in On(seq)
    <2>1. Assign("prev", t, LIST_POISON2) \in In(q)
        BY <1>9, InDetach
    <2>2. t \in Relied(Worker)'
        BY <1>1, <1>6, <1>10, <2>1, QueueReliedNext DEF Assign
    <2>3. Aside(Worker, t)
        BY <1>1, <1>11, <2>2, Alone
    <2>4. \A c \in Clients : \A a \in In(stores[c]) : a.node # t
        <3>1. \A c \in Clients : c \in Threads /\ c # Worker
            BY NodesOfTheRace
        <3> QED BY <1>1, <1>6, <2>3, <3>1, QueueRelied DEF Aside
    <2> QED BY <1>5, <1>6, <2>4
<1>13. \A l \in {"take", "walk", "cascade", "step"} : pc'[Worker] = l <=> pc[Worker] = l
    BY <1>1, <1>7
<1>14. /\ timer'[Worker] = t /\ clear /\ pc[Worker] # "file" /\ gone' \subseteq gone \cup {t}
       /\ t \notin gone' /\ \A o \in Threads \ {Worker} : call'[o] = call[o]
       /\ pc[Worker] \notin {"take", "cascade", "step"}
       /\ stores' = [stores EXCEPT ![Worker] = Detach(t, clear)]
    BY <1>1, <1>2, <1>7, <1>8, <1>12 DEF PlaceInv
<1> QED BY <1>1, <1>7, <1>11, <1>12, <1>13, <1>14, DetachPlanned

\* The work list goes out of scope when it is empty.
LEMMA TickDonePlanned ==
    ASSUME ControlInv, Planned, TickDone
    PROVE  Planned'
<1>1. /\ pc[Worker] = "next" /\ stores[Worker] = << >> /\ mem.next[WorkList] = WorkList
      /\ Worker \in Threads /\ pc \in [Threads -> Labels]
      /\ live' = live \ {WorkList} /\ pc' = [pc EXCEPT ![Worker] = "loop"]
      /\ UNCHANGED <<mem, seq, call, timer, tmp, taken, stores, locked, fault, gone>>
    BY NodesOfTheRace DEF TickDone, At, Goto, ControlInv, RaceTypeOK
<1>2. PICK v \in Memory : Expects(v)
    BY DEF Planned
<1>3. seq[WorkList] = << >> /\ WorkList \in Heads /\ WorkList \notin Timers
    <2>1. QueueInv
        BY DEF Planned
    <2>2. WorkList \notin Timers /\ WorkList \in Heads
        BY ThreadsAssumption, NodesAssumption DEF Timers
    <2>3. mem.next[WorkList] = FirstOf(WorkList)
        BY <1>1, <1>2, <2>1, <2>2, WorkListNext
    <2> QED BY <1>1, <1>2, <2>1, <2>2, <2>3, WorkListNext
<1>4. /\ pc'[Worker] = "loop" /\ \A o \in Threads \ {Worker} : pc'[o] = pc[o]
      /\ \A o \in Threads : pc'[o] = "file" <=> pc[o] = "file"
    BY <1>1
<1>5. /\ LooseNext' = LooseNext /\ LoosePrev' = LoosePrev /\ Used = live
      /\ Used' = live'
    BY <1>1, <1>4 DEF LooseNext, LoosePrev, Used, Walking
<1>6. Expects(v)'
    <2>1. Holds(v, seq', Used')
        BY <1>1, <1>2, <1>3, <1>5, Dropped DEF Expects
    <2>2. Settles(v, mem', stores', LooseNext', LoosePrev')
        BY <1>1, <1>2, <1>5 DEF Expects
    <2>3. \A u \in Timers \ On(seq') :
              v.next[u] = NULL \/ \E o \in Threads : pc'[o] = "file" /\ timer'[o] = u
        BY <1>1, <1>2, <1>4 DEF Expects
    <2> QED BY <1>2, <1>4, <2>1, <2>2, <2>3 DEF Expects
<1>7. PlaceInv'
    BY <1>1, <1>4 DEF Planned, PlaceInv
<1>8. QueueInv' /\ NoFault'
    BY <1>1, <1>4 DEF Planned, QueueInv, NoFault
<1> QED BY <1>2, <1>6, <1>7, <1>8 DEF Planned

\* The entries that are on lists when one has been appended.
LEMMA OnAppended ==
    ASSUME NEW s \in [Heads -> Seq(Entries)], NEW b \in Heads, NEW t \in Entries
    PROVE  On([s EXCEPT ![b] = Append(s[b], t)]) = On(s) \cup {t}
<1> DEFINE r == [s EXCEPT ![b] = Append(s[b], t)]
<1>1. /\ Len(s[b]) \in Nat /\ Len(r[b]) = Len(s[b]) + 1 /\ r[b][Len(s[b]) + 1] = t
      /\ \A i \in 1 .. Len(s[b]) : r[b][i] = s[b][i]
      /\ \A h \in Heads \ {b} : r[h] = s[h]
    <2>1. s[b] \in Seq(Entries) /\ r[b] = Append(s[b], t)
        OBVIOUS
    <2> QED BY <2>1
<1> HIDE DEF r
<1>2. ASSUME NEW e \in On(r) PROVE e \in On(s) \cup {t}
    <2>1. PICK h \in Heads : \E i \in 1 .. Len(r[h]) : e = r[h][i]
        BY DEF On
    <2>2. PICK i \in 1 .. Len(r[h]) : e = r[h][i]
        BY <2>1
    <2>3. CASE h = b /\ i = Len(s[b]) + 1
        BY <1>1, <2>2, <2>3
    <2>4. CASE h = b /\ i # Len(s[b]) + 1
        <3>1. i \in 1 .. Len(s[b]) /\ e = s[b][i]
            BY <1>1, <2>2, <2>4
        <3> QED BY <3>1 DEF On
    <2>5. CASE h # b
        BY <1>1, <2>2, <2>5 DEF On
    <2> QED BY <2>3, <2>4, <2>5
<1>3. ASSUME NEW e \in On(s) PROVE e \in On(r)
    <2>1. PICK h \in Heads : \E i \in 1 .. Len(s[h]) : e = s[h][i]
        BY DEF On
    <2>2. PICK i \in 1 .. Len(s[h]) : e = s[h][i]
        BY <2>1
    <2>3. i \in 1 .. Len(r[h]) /\ e = r[h][i]
        BY <1>1, <2>2
    <2> QED BY <2>3 DEF On
<1>4. t \in On(r)
    <2>1. Len(s[b]) + 1 \in 1 .. Len(r[b])
        BY <1>1
    <2> QED BY <1>1, <2>1 DEF On
<1>5. On(r) = On(s) \cup {t}
    BY <1>2, <1>3, <1>4
<1> QED BY <1>5 DEF r

\* w is v with t linked between z and b.
Links(v, w, z, t, b) ==
    /\ w.next[z] = t /\ w.next[t] = b /\ w.prev[b] = t /\ w.prev[t] = z
    /\ \A n \in Nodes \ {z, t} : w.next[n] = v.next[n]
    /\ \A n \in Nodes \ {b, t} : w.prev[n] = v.prev[n]

\* list_add_tail makes of v and the lists s the memory w.
AddedTail(v, w, s, used, z, t, b) ==
    /\ z \in Nodes /\ z = v.prev[b] /\ z # t
    /\ z = b \/ \E i \in 1 .. Len(s[b]) : z = s[b][i]
    /\ w \in Memory /\ Holds(w, [s EXCEPT ![b] = Append(s[b], t)], used)
    /\ Links(v, w, z, t, b)

\* The memory that list_add_tail leads to.
LEMMA Appended ==
    ASSUME NEW v, NEW s, NEW used, Holds(v, s, used), NEW t \in Entries, t \notin On(s),
           NEW b \in used
    PROVE  \E w, z : AddedTail(v, w, s, used, z, t, b)
<1>1. v \in Memory /\ Lists(s, used) /\ Ring(v, b, s[b]) /\ b \in Heads /\ b \in Nodes
      /\ t \in Nodes /\ t # b
    BY ListsTypes, NodesAssumption DEF Holds, Nodes
<1>2. s[b] \in Seq(Entries) /\ Len(s[b]) \in Nat
      /\ \A i \in 1 .. Len(s[b]) : s[b][i] \in Entries /\ s[b][i] \in On(s)
    BY <1>1, ListsTypes
<1>3. PICK z : z = NodeAt(b, s[b], Len(s[b]))
    OBVIOUS
<1>9. PICK w : w = list_add_tail(v, t, b)
    OBVIOUS
<1>4. z \in Nodes /\ z = v.prev[b]
    BY <1>1, <1>2, <1>3, Neighbours
<1>5. (z = b \/ \E i \in 1 .. Len(s[b]) : z = s[b][i]) /\ z # t
    BY <1>1, <1>2, <1>3 DEF NodeAt
<1>6. w = InsertBetween(v, t, z, b)
    BY <1>4, <1>9 DEF list_add_tail
<1>7. LET m2 == InsertBetween(v, t, z, b)
      IN  /\ m2 \in Memory
          /\ m2.next[z] = t /\ m2.next[t] = b
          /\ m2.prev[b] = t /\ m2.prev[t] = z
          /\ \A n \in Nodes \ {z, t} : m2.next[n] = v.next[n]
          /\ \A n \in Nodes \ {b, t} : m2.prev[n] = v.prev[n]
    <2>1. v \in Memory /\ t \in Nodes /\ z \in Nodes /\ b \in Nodes /\ t # z /\ t # b
        BY <1>1, <1>4, <1>5
    <2> QED BY <2>1, InsertSets
<1>8. Holds(w, [s EXCEPT ![b] = Append(s[b], t)], used)
    BY <1>9, Added
<1>10. Links(v, w, z, t, b)
    BY <1>6, <1>7 DEF Links
<1>11. w \in Memory
    BY <1>6, <1>7
<1> QED BY <1>4, <1>5, <1>8, <1>10, <1>11 DEF AddedTail


\* Queue q is what st2 has and st has not.
Gains(st, st2, q) == Queued(st2) = Queued(st) \cup In(q)

\* No assignment is on its way to the nodes.
Spares(st, nodes) == \A x \in Queued(st) : x.node \notin nodes

\* Queue q assigns what is in w.
Makes(q, w) ==
    \A x \in In(q) : /\ x.field = "next" => x.value = w.next[x.node]
                     /\ x.field = "prev" => x.value = w.prev[x.node]

\* A queue leads to w, where what was queued before does not.
LEMMA Planning ==
    ASSUME NEW m, NEW st, NEW st2, NEW q, Gains(st, st2, q),
           NEW w, NEW looseNext, NEW loosePrev, NEW touched,
           Spares(st, touched), Makes(q, w),
           \A n \in Nodes \ looseNext :
               \/ SettlesTo(m, st, "next", n, w.next[n])
               \/ n \in touched /\ \E x \in In(q) : x.field = "next" /\ x.node = n,
           \A n \in Nodes \ loosePrev :
               \/ SettlesTo(m, st, "prev", n, w.prev[n])
               \/ n \in touched /\ \E x \in In(q) : x.field = "prev" /\ x.node = n
    PROVE  Settles(w, m, st2, looseNext, loosePrev)
<1>1. ASSUME NEW n \in Nodes \ looseNext PROVE SettlesTo(m, st2, "next", n, w.next[n])
    <2>1. \A x \in In(q) : x.field = "next" /\ x.node = n => x.value = w.next[n]
        BY DEF Makes
    <2>2. CASE SettlesTo(m, st, "next", n, w.next[n])
        BY <2>1, <2>2 DEF SettlesTo, Gains
    <2>3. CASE n \in touched /\ \E x \in In(q) : x.field = "next" /\ x.node = n
        <3>1. \A x \in Queued(st) : x.node # n
            BY <2>3 DEF Spares
        <3> QED BY <2>1, <2>3, <3>1 DEF SettlesTo, Gains
    <2> QED BY <1>1, <2>2, <2>3
<1>2. ASSUME NEW n \in Nodes \ loosePrev PROVE SettlesTo(m, st2, "prev", n, w.prev[n])
    <2>1. \A x \in In(q) : x.field = "prev" /\ x.node = n => x.value = w.prev[n]
        BY DEF Makes
    <2>2. CASE SettlesTo(m, st, "prev", n, w.prev[n])
        BY <2>1, <2>2 DEF SettlesTo, Gains
    <2>3. CASE n \in touched /\ \E x \in In(q) : x.field = "prev" /\ x.node = n
        <3>1. \A x \in Queued(st) : x.node # n
            BY <2>3 DEF Spares
        <3> QED BY <2>1, <2>3, <3>1 DEF SettlesTo, Gains
    <2> QED BY <1>2, <2>2, <2>3
<1> QED BY <1>1, <1>2 DEF Settles

\* The assignments of list_add_tail.
AppendsTo(q, z, t, b) ==
    In(q) = {Assign("prev", b, t), Assign("next", t, b),
             Assign("prev", t, z), Assign("next", z, t)}

\* The queue of list_add_tail makes its memory.
LEMMA AppendSettles ==
    ASSUME NEW m, NEW st, NEW st2, NEW q, Gains(st, st2, q),
           NEW v, NEW w, NEW ln, NEW lp, NEW t, NEW b, NEW z,
           AppendsTo(q, z, t, b), Spares(st, {t, b, z}), Links(v, w, z, t, b),
           Settles(w, m, st, ln \cup {z, t}, lp \cup {b, t})
    PROVE  Settles(w, m, st2, ln, lp)
<1>1. Makes(q, w)
    BY DEF Assign, AppendsTo, Links, Makes
<1>2. /\ \A n \in {z, t} : \E x \in In(q) : x.field = "next" /\ x.node = n
      /\ \A n \in {b, t} : \E x \in In(q) : x.field = "prev" /\ x.node = n
    BY DEF Assign, AppendsTo
<1>3. \A n \in Nodes \ ln :
          \/ SettlesTo(m, st, "next", n, w.next[n])
          \/ n \in {t, b, z} /\ \E x \in In(q) : x.field = "next" /\ x.node = n
    BY <1>2 DEF Settles
<1>4. \A n \in Nodes \ lp :
          \/ SettlesTo(m, st, "prev", n, w.prev[n])
          \/ n \in {t, b, z} /\ \E x \in In(q) : x.field = "prev" /\ x.node = n
    BY <1>2 DEF Settles
<1> QED BY <1>1, <1>3, <1>4, Planning

\* A timer is filed.
LEMMA FilePlanned ==
    ASSUME ControlInv, ControlInv', Apart, Apart', Planned, NEW th \in Threads,
           NEW b \in Buckets, File(th, b)
    PROVE  Planned'
<1>1. /\ pc[th] = "file" /\ stores[th] = << >> /\ timer[th] \in Timers
      /\ stores \in [Threads -> Seq(Assignments)] /\ RaceTypeOK
      /\ pc \in [Threads -> Labels] /\ timer \in [Threads -> Nodes \cup {NULL}]
      /\ b \in Nodes /\ b \in Heads /\ b \in live
    BY NodesOfTheRace DEF File, At, ControlInv, RaceTypeOK, Buckets
<1>2. PICK t \in Timers : t = timer[th]
    BY <1>1
<1>3. /\ UNCHANGED <<mem, live, call, timer, tmp, taken, locked, fault, gone>>
      /\ stores' = [stores EXCEPT ![th] = AddTail(t, b)]
      /\ pc' = [pc EXCEPT ![th] = "leave"]
      /\ seq' = [seq EXCEPT ![b] = Append(seq[b], t)]
    BY <1>2 DEF File, Queue, Goto
<1>4. PlaceInv /\ QueueInv /\ NoFault
    BY DEF Planned
<1>5. PICK v \in Memory : Expects(v)
    BY DEF Planned
<1>6. /\ Holds(v, seq, Used) /\ Settles(v, mem, stores, LooseNext, LoosePrev)
      /\ Lists(seq, Used) /\ seq \in [Heads -> Seq(Entries)]
    BY <1>5 DEF Expects, Holds, Lists
<1>7. t \in Entries /\ t \in Nodes /\ t \notin On(seq) /\ b \in Used /\ t \notin Heads
    BY <1>1, <1>2, <1>4, NodesOfTheRace DEF PlaceInv, Timers, Used
<1>8. PICK q \in Seq(Assignments) : q = AddTail(t, b)
    BY <1>1, <1>7, QueuesTyped
<1>9. /\ Queued(stores') = Queued(stores) \cup In(q)
      /\ stores'[th] = q /\ \A o \in Threads \ {th} : stores'[o] = stores[o]
    BY <1>1, <1>3, <1>8, QueuedAfter
<1>10. /\ OthersStay(th)
       /\ \A l \in {"take", "walk", "cascade", "step"} : pc'[Worker] = l <=> pc[Worker] = l
       /\ \A o \in Threads \ {th} : pc'[o] = pc[o]
       /\ pc'[th] = "leave"
    BY <1>1, <1>3, <1>9, NodesOfTheRace DEF OthersStay
<1>11. ASSUME NEW n \in Nodes, n \in Relied(th)'
       PROVE  /\ n \notin LooseNext /\ n \notin LoosePrev
              /\ mem.next[n] = v.next[n] /\ mem.prev[n] = v.prev[n]
              /\ \A x \in Queued(stores) : x.node # n
              /\ \A o \in Threads \ {th} : n \notin Relied(o)
              /\ \A o \in Threads \ {th} : pc[o] = "file" => timer[o] # n
    <2>1. Aside(th, n)
        BY <1>10, <1>11, Alone
    <2>2. n \notin LooseNext /\ n \notin LoosePrev
        BY <1>1, <1>4, <1>5, <2>1, Steady
    <2> QED BY <1>1, <1>6, <2>1, <2>2, Reading DEF Aside
<1>12. In(q) = {Assign("prev", b, t), Assign("next", t, b),
                Assign("prev", t, mem.prev[b]), Assign("next", mem.prev[b], t)}
    BY <1>8, InAddTail
<1>13. \A x \in In(q) : /\ x.node \in Nodes => x.node \in Relied(th)'
                        /\ x.value \in Nodes => x.value \in Relied(th)'
    BY <1>9, QueueReliedNext
<1>14. t \in Relied(th)' /\ b \in Relied(th)'
    BY <1>1, <1>7, <1>12, <1>13 DEF Assign
<1>15. PICK w, z : AddedTail(v, w, seq, Used, z, t, b)
    <2>1. Holds(v, seq, Used) /\ t \in Entries /\ t \notin On(seq) /\ b \in Used
        BY <1>6, <1>7
    <2> QED BY <2>1, Appended
<1>16. /\ z \in Nodes /\ z = v.prev[b] /\ z # t
       /\ z = b \/ \E i \in 1 .. Len(seq[b]) : z = seq[b][i]
       /\ w \in Memory /\ Holds(w, [seq EXCEPT ![b] = Append(seq[b], t)], Used)
       /\ w.next[z] = t /\ w.next[t] = b /\ w.prev[b] = t /\ w.prev[t] = z
       /\ \A n \in Nodes \ {z, t} : w.next[n] = v.next[n]
       /\ \A n \in Nodes \ {b, t} : w.prev[n] = v.prev[n]
    BY <1>15 DEF AddedTail, Links
<1>17. mem.prev[b] = z
    BY <1>1, <1>11, <1>14, <1>16
<1>18. z \in Relied(th)' /\ z \in {b} \cup On(seq) /\ z \notin Heads \ {b}
    <2>1. z \in Relied(th)'
        BY <1>12, <1>13, <1>16, <1>17 DEF Assign
    <2>2. z \in {b} \cup Entries /\ z \in {b} \cup On(seq)
        BY <1>1, <1>6, <1>16, ListsTypes
    <2> QED BY <2>1, <2>2, NodesAssumption
<1>19. On(seq') = On(seq) \cup {t}
    BY <1>1, <1>3, <1>6, <1>7, OnAppended
<1>20. \A h \in Heads \ {b} : seq'[h] = seq[h] /\ FirstOf(h)' = FirstOf(h)
    BY <1>3, <1>6 DEF FirstOf
<1>21. TvList \in Heads /\ TvList # b /\ (pc[Worker] = "take" => taken[1] \in Heads \ {b})
    <2>1. ASSUME pc[Worker] = "take" PROVE taken[1] \in Heads /\ taken[1] # b
        <3>1. taken[1] \in Heads /\ th # Worker /\ Worker \in Threads
            BY <1>1, <2>1, NodesOfTheRace DEF ControlInv, Buckets
        <3>2. taken[1] \in Relied(Worker)
            BY <1>4, <1>5, <2>1, TakeRelied
        <3> QED BY <1>1, <1>11, <1>14, <3>1, <3>2
    <2> QED BY <2>1, ThreadsAssumption DEF Buckets
<1>22. /\ LooseNext' = LooseNext /\ LoosePrev' = LoosePrev /\ Used' = Used
       /\ (Walking' <=> Walking)
    BY <1>3, <1>10, <1>20, <1>21 DEF LooseNext, LoosePrev, Used, Walking
<1>23. Expects(w)'
    <2>1. Holds(w, seq', Used')
        BY <1>3, <1>16, <1>22
    <2>2. Settles(w, mem', stores', LooseNext', LoosePrev')
        <3>1. Spares(stores, {t, b, z})
            BY <1>1, <1>7, <1>11, <1>14, <1>16, <1>18 DEF Spares
        <3>2. Settles(w, mem, stores, LooseNext \cup {z, t}, LoosePrev \cup {b, t})
            BY <1>6, <1>16 DEF Settles
        <3>3. AppendsTo(q, z, t, b) /\ Gains(stores, stores', q) /\ Links(v, w, z, t, b)
            BY <1>9, <1>12, <1>15, <1>17 DEF AppendsTo, Gains, AddedTail
        <3>4. Settles(w, mem, stores', LooseNext, LoosePrev)
            BY <3>1, <3>2, <3>3, AppendSettles
        <3> QED BY <1>3, <1>22, <3>4
    <2>3. ASSUME pc'[Worker] = "take"
          PROVE  /\ w.next[taken'[2]] = FirstOf(taken[1])'
                 /\ SettlesTo(mem', stores', "prev", FirstOf(taken[1])', taken'[2])
        <3>1. pc[Worker] = "take" /\ th # Worker /\ Worker \in Threads
            BY <1>10, <2>3, NodesOfTheRace
        <3>2. taken[2] \in {WorkList, TvList} /\ taken[2] \in Nodes /\ taken[2] \notin Buckets
            BY <3>1, NodesOfTheRace DEF ControlInv
        <3>3. taken[2] # z /\ taken[2] # t
            BY <1>7, <1>18, <3>2, NodesOfTheRace, ThreadsAssumption
        <3>4. w.next[taken[2]] = FirstOf(taken[1])
            BY <1>5, <1>16, <3>1, <3>2, <3>3 DEF Expects
        <3>5. FirstOf(taken[1]) \in LoosePrev
            BY <3>1 DEF LoosePrev, Walking
        <3>6. FirstOf(taken[1]) # b /\ FirstOf(taken[1]) # t
            BY <1>1, <1>7, <1>11, <1>14, <3>5
        <3>7. \A x \in In(q) : ~ (x.field = "prev" /\ x.node = FirstOf(taken[1]))
            BY <1>12, <3>6 DEF Assign
        <3>8. SettlesTo(mem, stores, "prev", FirstOf(taken[1]), taken[2])
            BY <1>5, <3>1 DEF Expects
        <3>9. SettlesTo(mem, stores', "prev", FirstOf(taken[1]), taken[2])
            BY <1>9, <3>7, <3>8 DEF SettlesTo
        <3>10. FirstOf(taken[1])' = FirstOf(taken[1])
            BY <1>3, <1>20, <1>21, <3>1 DEF FirstOf
        <3> QED BY <1>3, <3>4, <3>9, <3>10
    <2>4. ASSUME NEW u \in Timers \ On(seq')
          PROVE  w.next[u] = NULL \/ \E o \in Threads : pc'[o] = "file" /\ timer'[o] = u
        <3>1. u \in Timers \ On(seq) /\ u # t /\ u \in Nodes /\ u # z
            BY <1>1, <1>18, <1>19, <2>4, NodesOfTheRace
        <3>2. v.next[u] = NULL \/ \E o \in Threads : pc[o] = "file" /\ timer[o] = u
            BY <1>5, <3>1 DEF Expects
        <3>3. w.next[u] = v.next[u]
            BY <1>16, <3>1
        <3> QED BY <1>2, <1>3, <1>10, <3>1, <3>2, <3>3
    <2> QED BY <1>16, <2>1, <2>2, <2>3, <2>4 DEF Expects
<1>24. PlaceInv'
    <2>1. ASSUME NEW o \in Threads, pc'[o] = "file" PROVE timer'[o] \notin On(seq')
        <3>1. o # th /\ pc[o] = "file" /\ timer'[o] = timer[o]
            BY <1>3, <1>10, <2>1
        <3> QED BY <1>4, <1>7, <1>11, <1>14, <1>19, <3>1 DEF PlaceInv
    <2>2. ASSUME NEW u \in gone'
          PROVE  /\ u \notin On(seq')
                 /\ \A o \in Threads : timer'[o] = u => call'[o] # "mod" /\ pc'[o] # "file"
        <3>1. u \in gone /\ u # t
            BY <1>1, <1>2, <1>3, <1>4, <2>2 DEF PlaceInv
        <3> QED BY <1>3, <1>4, <1>10, <1>19, <3>1 DEF PlaceInv
    <2>3. pc'[Worker] = "cascade" =>
              /\ timer'[Worker] = FirstOf(TvList)'
              /\ seq'[TvList] # << >> => tmp' = NodeAt(TvList, seq'[TvList], 2)
        BY <1>3, <1>4, <1>10, <1>20, <1>21 DEF PlaceInv
    <2>4. pc'[Worker] = "step" => tmp' = FirstOf(TvList)'
        BY <1>3, <1>4, <1>10, <1>20, <1>21 DEF PlaceInv
    <2> QED BY <2>1, <2>2, <2>3, <2>4 DEF PlaceInv
<1>25. QueueInv'
    <2>1. ASSUME NEW x \in Queued(stores') PROVE x.node \in Nodes
        <3>1. x \in Queued(stores) => x.node \in Nodes
            BY <1>4 DEF QueueInv
        <3>2. x \in In(q) => x.node \in {b, t, z}
            BY <1>12, <1>17 DEF Assign
        <3> QED BY <1>1, <1>7, <1>9, <1>16, <3>1, <3>2
    <2>2. ASSUME pc'[Worker] = "step"
          PROVE  \A x \in In(stores'[Worker]) : x.field = "next" =>
                     \A i \in 1 .. Len(seq'[TvList]) : x.node # seq'[TvList][i]
        <3>1. th # Worker /\ stores'[Worker] = stores[Worker] /\ pc[Worker] = "step"
              /\ seq'[TvList] = seq[TvList]
            BY <1>9, <1>10, <1>20, <1>21, <2>2, NodesOfTheRace
        <3> QED BY <1>4, <3>1 DEF QueueInv
    <2>3. ASSUME NEW c \in Clients, NEW i \in 1 .. Len(stores'[c]),
                 stores'[c][i].field = "next", stores'[c][i].node = WorkList
          PROVE  /\ mem'.next[WorkList] \in Timers
                 /\ stores'[c][Len(stores'[c])].node = mem'.next[WorkList]
                 /\ \A j \in 1 .. Len(stores'[c]) :
                       stores'[c][j].field = "next" /\ stores'[c][j].node = WorkList => j = i
        <3>1. c \in Threads
            BY NodesOfTheRace
        <3>2. c # th
            <4>1. \A j \in 1 .. Len(q) : q[j].field = "next" => q[j].node \in {t, mem.prev[b]}
                BY <1>8, InAddTail
            <4>2. WorkList # t /\ WorkList # z
                BY <1>7, <1>18, NodesOfTheRace, ThreadsAssumption
            <4> QED BY <1>9, <1>17, <2>3, <4>1, <4>2
        <3>3. stores'[c] = stores[c]
            BY <1>9, <3>1, <3>2
        <3>4. /\ i \in 1 .. Len(stores[c]) /\ stores[c][i].field = "next"
              /\ stores[c][i].node = WorkList
            BY <2>3, <3>3
        <3>5. /\ mem.next[WorkList] \in Timers
              /\ stores[c][Len(stores[c])].node = mem.next[WorkList]
              /\ \A j \in 1 .. Len(stores[c]) :
                    stores[c][j].field = "next" /\ stores[c][j].node = WorkList => j = i
            BY <1>4, <3>4 DEF QueueInv
        <3> QED BY <1>3, <3>3, <3>5
    <2> QED BY <2>1, <2>2, <2>3 DEF QueueInv
<1> QED BY <1>3, <1>4, <1>16, <1>23, <1>24, <1>25 DEF Planned, NoFault

\* The worker starts to take the list of a bucket.
LEMMA TakePlanned ==
    ASSUME ControlInv, ControlInv', Apart, Apart', Planned, NEW b \in Buckets,
           NEW head \in {WorkList, TvList}, Take(b, head)
    PROVE  Planned'
<1>1. /\ pc[Worker] = "loop" /\ stores[Worker] = << >> /\ Worker \in Threads
      /\ stores \in [Threads -> Seq(Assignments)] /\ RaceTypeOK
      /\ pc \in [Threads -> Labels]
      /\ b \in Nodes /\ b \in Heads /\ head \in Heads /\ head \in Nodes /\ head # b
      /\ live = Buckets /\ head \notin Buckets
    BY NodesOfTheRace, ThreadsAssumption DEF Take, At, ControlInv, RaceTypeOK, Buckets, Serving, Nodes
<1>2. /\ UNCHANGED <<mem, seq, live, call, timer, tmp, locked, fault, gone>>
      /\ stores' = [stores EXCEPT ![Worker] = ReplaceNext(b, head)]
      /\ pc' = [pc EXCEPT ![Worker] = "take"]
      /\ taken' = <<b, head>>
    BY DEF Take, Queue, Goto, vars
<1>3. PlaceInv /\ QueueInv /\ NoFault
    BY DEF Planned
<1>4. PICK v \in Memory : Expects(v)
    BY DEF Planned
<1>5. /\ Holds(v, seq, Used) /\ Settles(v, mem, stores, LooseNext, LoosePrev)
      /\ Lists(seq, Used) /\ Used = Buckets /\ LooseNext = {} /\ LoosePrev = {}
    BY <1>1, <1>4 DEF Expects, Holds, Used, Walking, LooseNext, LoosePrev
<1>6. PICK f : f = FirstOf(b)
    OBVIOUS
<1>7. f \in Nodes /\ v.next[b] = f
    <2>1. Ring(v, b, seq[b]) /\ seq[b] \in Seq(Entries)
        BY <1>1, <1>5, ListsTypes DEF Holds
    <2>2. v.next[b] = NodeAt(b, seq[b], 1)
        BY <1>1, <2>1, Neighbours
    <2>3. NodeAt(b, seq[b], 1) \in Nodes
        BY <1>1, <2>1, Neighbours
    <2> QED BY <1>6, <2>2, <2>3 DEF FirstOf
<1>8. PICK q \in Seq(Assignments) : q = ReplaceNext(b, head)
    BY <1>1, QueuesTyped
<1>9. /\ Queued(stores') = Queued(stores) \cup In(q)
      /\ stores'[Worker] = q /\ \A o \in Threads \ {Worker} : stores'[o] = stores[o]
    BY <1>1, <1>2, <1>8, QueuedAfter
<1>10. /\ OthersStay(Worker) /\ pc'[Worker] = "take"
       /\ \A o \in Threads \ {Worker} : pc'[o] = pc[o]
    BY <1>1, <1>2, <1>9 DEF OthersStay
<1>11. ASSUME NEW n \in Nodes, n \in Relied(Worker)'
       PROVE  /\ mem.next[n] = v.next[n] /\ mem.prev[n] = v.prev[n]
              /\ \A x \in Queued(stores) : x.node # n
    <2>1. Aside(Worker, n)
        BY <1>1, <1>10, <1>11, Alone
    <2> QED BY <1>1, <1>5, <2>1, Reading
<1>12. b \in Relied(Worker)' /\ head \in Relied(Worker)'
    <2>1. Range(taken') = {b, head}
        BY <1>2 DEF Range
    <2> QED BY <1>1, <1>10, <2>1 DEF Relied
<1>13. mem.next[b] = f
    BY <1>1, <1>7, <1>11, <1>12
<1>14. In(q) = {Assign("next", head, f), Assign("prev", f, head)}
    BY <1>8, <1>13, InReplace
<1>15. f \in Relied(Worker)' /\ f # head
    <2>1. f \in Relied(Worker)'
        <3>1. PICK x \in In(q) : x.node = f
            BY <1>14 DEF Assign
        <3> QED BY <1>1, <1>7, <1>9, <3>1, QueueReliedNext
    <2>2. f = b \/ f \in Entries
        <3>1. seq[b] \in Seq(Entries)
            BY <1>1, <1>5, ListsTypes
        <3> QED BY <1>6, <3>1 DEF FirstOf, NodeAt
    <2> QED BY <1>1, <2>1, <2>2, NodesAssumption
<1>16. PICK w : w = SetNext(v, head, f)
    OBVIOUS
<1>17. /\ w \in Memory /\ w.prev = v.prev /\ w.next[head] = f
       /\ \A n \in Nodes \ {head} : w.next[n] = v.next[n]
    <2>1. v.next \in [Nodes -> Nodes \cup {NULL, LIST_POISON1}]
        BY MemoryTypes
    <2>2. w \in Memory /\ w.prev = v.prev /\ w.next = [v.next EXCEPT ![head] = f]
        BY <1>1, <1>7, <1>16, NextSet
    <2> QED BY <1>1, <2>1, <2>2
<1>18. Holds(w, seq, Used)
    <2>1. \A n \in Nodes \ {head} : w.next[n] = v.next[n] /\ w.prev[n] = v.prev[n]
        BY <1>17
    <2>2. head \in Heads /\ head \notin Used /\ w \in Memory
        BY <1>1, <1>5, <1>17
    <2> QED BY <1>5, <2>1, <2>2, FreeHeadTouched
<1>19. /\ FirstOf(b)' = f /\ Used' = Used /\ LooseNext' = {} /\ LoosePrev' = {f}
       /\ taken'[1] = b /\ taken'[2] = head
    BY <1>1, <1>2, <1>6, <1>10 DEF FirstOf, Used, Walking, LooseNext, LoosePrev
<1>20. Expects(w)'
    <2>1. ASSUME NEW n \in Nodes
          PROVE  SettlesTo(mem, stores', "next", n, w.next[n])
        <3>1. CASE n = head
            <4>1. \A x \in Queued(stores) : x.node # n
                BY <1>11, <1>12, <3>1
            <4>2. \A x \in In(q) : x.field = "next" => x.value = f
                BY <1>14 DEF Assign
            <4>3. \E x \in In(q) : x.field = "next" /\ x.node = n
                BY <1>14, <3>1 DEF Assign
            <4>4. w.next[n] = f
                BY <1>17, <3>1
            <4> QED BY <1>9, <4>1, <4>2, <4>3, <4>4 DEF SettlesTo
        <3>2. CASE n # head
            <4>1. SettlesTo(mem, stores, "next", n, w.next[n])
                BY <1>5, <1>17, <3>2 DEF Settles
            <4>2. \A x \in In(q) : ~ (x.field = "next" /\ x.node = n)
                BY <1>14, <3>2 DEF Assign
            <4> QED BY <1>9, <4>1, <4>2 DEF SettlesTo
        <3> QED BY <3>1, <3>2
    <2>2. ASSUME NEW n \in Nodes \ {f}
          PROVE  SettlesTo(mem, stores', "prev", n, w.prev[n])
        <3>1. SettlesTo(mem, stores, "prev", n, w.prev[n])
            BY <1>5, <1>17 DEF Settles
        <3>2. \A x \in In(q) : ~ (x.field = "prev" /\ x.node = n)
            BY <1>14 DEF Assign
        <3> QED BY <1>9, <3>1, <3>2 DEF SettlesTo
    <2>3. Settles(w, mem', stores', LooseNext', LoosePrev')
        BY <1>2, <1>19, <2>1, <2>2 DEF Settles
    <2>4. SettlesTo(mem', stores', "prev", f, head)
        <3>1. \A x \in Queued(stores) : x.node # f
            BY <1>7, <1>11, <1>15
        <3>2. \A x \in In(q) : x.field = "prev" => x.value = head
            BY <1>14 DEF Assign
        <3>3. \E x \in In(q) : x.field = "prev" /\ x.node = f
            BY <1>14 DEF Assign
        <3> QED BY <1>2, <1>9, <3>1, <3>2, <3>3 DEF SettlesTo
    <2>5. ASSUME NEW t \in Timers \ On(seq')
          PROVE  w.next[t] = NULL \/ \E o \in Threads : pc'[o] = "file" /\ timer'[o] = t
        <3>1. t \in Timers \ On(seq) /\ t # head /\ t \in Nodes
            BY <1>1, <1>2, <2>5, NodesOfTheRace
        <3>2. v.next[t] = NULL \/ \E o \in Threads : pc[o] = "file" /\ timer[o] = t
            BY <1>4, <3>1 DEF Expects
        <3> QED BY <1>1, <1>2, <1>10, <1>17, <3>1, <3>2
    <2> QED BY <1>2, <1>17, <1>18, <1>19, <2>3, <2>4, <2>5 DEF Expects
<1>21. PlaceInv'
    <2>1. \A o \in Threads : pc'[o] = "file" => pc[o] = "file"
        BY <1>10
    <2>2. FirstOf(TvList)' = FirstOf(TvList)
        BY <1>2 DEF FirstOf
    <2> QED BY <1>2, <1>3, <1>10, <2>1, <2>2 DEF PlaceInv
<1>22. QueueInv'
    <2>1. ASSUME NEW x \in Queued(stores') PROVE x.node \in Nodes
        BY <1>1, <1>3, <1>7, <1>9, <1>14 DEF QueueInv, Assign
    <2>2. \A c \in Clients : stores'[c] = stores[c]
        BY <1>9, NodesOfTheRace
    <2>3. pc'[Worker] # "step"
        BY <1>10
    <2>4. \A c \in Clients : \A i \in 1 .. Len(stores'[c]) :
              stores'[c][i].field = "next" /\ stores'[c][i].node = WorkList =>
                  /\ mem'.next[WorkList] \in Timers
                  /\ stores'[c][Len(stores'[c])].node = mem'.next[WorkList]
                  /\ \A j \in 1 .. Len(stores'[c]) :
                        stores'[c][j].field = "next" /\ stores'[c][j].node = WorkList => j = i
        BY <1>2, <1>3, <2>2 DEF QueueInv
    <2> QED BY <2>1, <2>3, <2>4 DEF QueueInv
<1> QED BY <1>2, <1>3, <1>17, <1>20, <1>21, <1>22 DEF Planned, NoFault

\* The entries stay on lists when a head hands its own to another.
LEMMA OnMoved ==
    ASSUME NEW s \in [Heads -> Seq(Entries)], NEW b \in Heads, NEW head \in Heads,
           head # b, s[head] = << >>
    PROVE  On([s EXCEPT ![head] = s[b], ![b] = << >>]) = On(s)
<1>1. PICK r : r = [s EXCEPT ![head] = s[b], ![b] = << >>]
    OBVIOUS
<1>2. /\ r[head] = s[b] /\ r[b] = << >> /\ \A g \in Heads \ {b, head} : r[g] = s[g]
    BY <1>1
<1>3. ASSUME NEW h \in Heads, NEW i \in 1 .. Len(s[h]) PROVE s[h][i] \in On(r)
    <2>1. h # head
        BY <1>3
    <2>2. \E g \in Heads : r[g] = s[h]
        BY <1>2, <2>1
    <2> QED BY <1>3, <2>2 DEF On
<1>4. ASSUME NEW h \in Heads, NEW i \in 1 .. Len(r[h]) PROVE r[h][i] \in On(s)
    <2>1. h # b
        BY <1>2, <1>4
    <2>2. \E g \in Heads : s[g] = r[h]
        BY <1>2, <2>1
    <2> QED BY <1>4, <2>2 DEF On
<1>5. On(s) \subseteq On(r)
    BY <1>3, Placed
<1>6. On(r) \subseteq On(s)
    BY <1>4, Placed
<1> QED BY <1>1, <1>5, <1>6

\* list_replace_init makes of v, where b is before f and behind z, the memory w.
HandedTo(v, w, b, head, f, z) ==
    /\ w.next[b] = b /\ w.prev[b] = b /\ w.prev[head] = z /\ w.next[z] = head
    /\ f # b => w.prev[f] = head /\ w.next[head] = f
    /\ \A n \in Nodes \ {b, head, z} : w.next[n] = v.next[n]
    /\ \A n \in Nodes \ {b, head, f} : w.prev[n] = v.prev[n]

\* The memory that list_replace_init leads to; an empty list has its new head
\* behind the old one when it is half replaced.
LEMMA Replaced ==
    ASSUME NEW v, NEW used, Holds(v, seq, used), NEW b \in used, NEW head \in Heads,
           head # b, seq[head] = << >>
    PROVE  \E w, z :
               /\ w \in Memory
               /\ Holds(w, [seq EXCEPT ![head] = seq[b], ![b] = << >>], used \cup {head})
               /\ HandedTo(v, w, b, head, FirstOf(b), z)
               /\ z \in {head} \cup On(seq) /\ z \in Nodes /\ z # b
               /\ FirstOf(b) = b => z = head
               /\ FirstOf(b) # b => z = v.prev[b] /\ z # head
               /\ FirstOf(b) \in {b} \cup On(seq) /\ FirstOf(b) \in Nodes
               /\ FirstOf(b) # head
<1>1. v \in Memory /\ Lists(seq, used) /\ Ring(v, b, seq[b]) /\ b \in Heads /\ b \in Nodes
      /\ head \in Nodes /\ seq \in [Heads -> Seq(Entries)]
    BY ListsTypes DEF Holds, Nodes, Lists
<1>2. /\ seq[b] \in Seq(Entries) /\ Len(seq[b]) \in Nat
      /\ \A i \in 1 .. Len(seq[b]) : seq[b][i] \in Entries /\ seq[b][i] \in On(seq)
    BY <1>1, ListsTypes
<1>3. PICK f : f = FirstOf(b)
    OBVIOUS
<1>4. PICK y : y = NodeAt(b, seq[b], Len(seq[b]))
    OBVIOUS
<1>5. f \in Nodes /\ y \in Nodes /\ v.next[b] = f /\ v.prev[b] = y
    BY <1>1, <1>2, <1>3, <1>4, Neighbours DEF FirstOf
<1>6. /\ f \in {b} \cup On(seq) /\ y \in {b} \cup On(seq) /\ f # head /\ y # head
      /\ (f = b <=> Len(seq[b]) = 0) /\ (y = b <=> Len(seq[b]) = 0)
    BY <1>1, <1>2, <1>3, <1>4, NodesAssumption DEF FirstOf, NodeAt
<1>7. PICK w : w = list_replace_init(v, b, head)
    OBVIOUS
<1>8. Holds(w, [seq EXCEPT ![head] = seq[b], ![b] = << >>], used \cup {head})
    BY <1>7, TakenOver
<1>9. w \in Memory
    BY <1>8 DEF Holds
<1>10. PICK u : u = list_replace(v, b, head)
    OBVIOUS
<1>11. w = INIT_LIST_HEAD(u, b)
    BY <1>7, <1>10 DEF list_replace_init
<1>12. CASE f = b
    <2>1. y = b /\ v.next[b] = b /\ v.prev[b] = b
        BY <1>5, <1>6, <1>12
    <2>2. u = INIT_LIST_HEAD(SetPrev(v, b, head), head)
        BY <1>1, <1>10, <2>1, ReplaceEmptyIs DEF Between
    <2>3. PICK v1 : v1 = SetPrev(v, b, head)
        OBVIOUS
    <2>4. v1 \in Memory /\ v1.prev = [v.prev EXCEPT ![b] = head] /\ v1.next = v.next
        BY <1>1, <2>3, PrevSet
    <2>5. /\ u \in Memory /\ u.next[head] = head /\ u.prev[head] = head
          /\ \A n \in Nodes \ {head} : u.next[n] = v1.next[n] /\ u.prev[n] = v1.prev[n]
        <3>1. u = INIT_LIST_HEAD(v1, head) /\ v1 \in Memory /\ head \in Nodes
            BY <1>1, <2>2, <2>3, <2>4
        <3> QED BY <3>1, InitSets
    <2>6. /\ w.next[b] = b /\ w.prev[b] = b
          /\ \A n \in Nodes \ {b} : w.next[n] = u.next[n] /\ w.prev[n] = u.prev[n]
        BY <1>1, <1>11, <2>5, InitSets
    <2>7. \A n \in Nodes \ {b} : v1.prev[n] = v.prev[n]
        BY <1>1, <2>4, MemoryTypes
    <2>8. HandedTo(v, w, b, head, f, head)
        BY <1>1, <1>12, <2>4, <2>5, <2>6, <2>7 DEF HandedTo
    <2> QED BY <1>1, <1>3, <1>6, <1>8, <1>9, <1>12, <2>8
<1>13. CASE f # b
    <2>1. y # b
        BY <1>6, <1>13
    <2>2. /\ u \in Memory /\ u.next[y] = head /\ u.next[head] = f
          /\ u.prev[f] = head /\ u.prev[head] = y
          /\ \A n \in Nodes \ {y, head} : u.next[n] = v.next[n]
          /\ \A n \in Nodes \ {f, head} : u.prev[n] = v.prev[n]
        BY <1>1, <1>5, <1>6, <1>10, <1>13, ReplaceSets
    <2>3. /\ w.next[b] = b /\ w.prev[b] = b
          /\ \A n \in Nodes \ {b} : w.next[n] = u.next[n] /\ w.prev[n] = u.prev[n]
        BY <1>1, <1>11, <2>2, InitSets
    <2>4. HandedTo(v, w, b, head, f, y)
        BY <1>1, <1>5, <1>13, <2>1, <2>2, <2>3 DEF HandedTo
    <2> QED BY <1>3, <1>5, <1>6, <1>8, <1>9, <1>13, <2>1, <2>4
<1> QED BY <1>12, <1>13

\* The worker has the list of the bucket.
LEMMA TakeRestPlanned ==
    ASSUME ControlInv, ControlInv', Apart, Apart', Planned, TakeRest
    PROVE  Planned'
<1>1. /\ pc[Worker] = "take" /\ stores[Worker] = << >> /\ Worker \in Threads
      /\ stores \in [Threads -> Seq(Assignments)] /\ RaceTypeOK
      /\ pc \in [Threads -> Labels]
      /\ taken[1] \in Buckets /\ taken[2] \in {WorkList, TvList}
      /\ live = Buckets
    BY NodesOfTheRace DEF TakeRest, At, ControlInv, RaceTypeOK, Serving
<1>2. PICK b \in Buckets, head \in {WorkList, TvList} : b = taken[1] /\ head = taken[2]
    BY <1>1
<1>3. /\ UNCHANGED <<mem, call, timer, tmp, locked, fault, gone>>
      /\ stores' = [stores EXCEPT ![Worker] = ReplacePrev(b, head)]
      /\ pc' = [pc EXCEPT ![Worker] = IF head = TvList THEN "walk" ELSE "next"]
      /\ seq' = [seq EXCEPT ![head] = seq[b], ![b] = << >>]
      /\ live' = IF head = WorkList THEN live \cup {head} ELSE live
    BY <1>2 DEF TakeRest, Queue, Goto
<1>4. PlaceInv /\ QueueInv /\ NoFault
    BY DEF Planned
<1>5. PICK v \in Memory : Expects(v)
    BY DEF Planned
<1>6. PICK f : f = FirstOf(b)
    OBVIOUS
<1>7. /\ Holds(v, seq, Used) /\ Settles(v, mem, stores, LooseNext, LoosePrev)
      /\ Lists(seq, Used) /\ seq \in [Heads -> Seq(Entries)]
      /\ Used = Buckets /\ LooseNext = {} /\ LoosePrev = {f}
      /\ v.next[head] = f /\ SettlesTo(mem, stores, "prev", f, head)
    BY <1>1, <1>2, <1>5, <1>6 DEF Expects, Holds, Lists, Used, Walking, LooseNext, LoosePrev
<1>8. /\ b \in Nodes /\ b \in Heads /\ head \in Heads /\ head \in Nodes /\ head # b
      /\ head \notin Used /\ b \in Used /\ seq[head] = << >>
    <2>1. b \in Nodes /\ b \in Heads /\ head \in Heads /\ head \in Nodes /\ head \notin Buckets
        BY NodesOfTheRace, ThreadsAssumption DEF Buckets
    <2> QED BY <1>7, <2>1 DEF Lists
<1>9. PICK w, z :
          /\ w \in Memory
          /\ Holds(w, [seq EXCEPT ![head] = seq[b], ![b] = << >>], Used \cup {head})
          /\ HandedTo(v, w, b, head, f, z)
          /\ z \in {head} \cup On(seq) /\ z \in Nodes /\ z # b
          /\ f = b => z = head
          /\ f # b => z = v.prev[b] /\ z # head
          /\ f \in {b} \cup On(seq) /\ f \in Nodes /\ f # head
    <2>1. Holds(v, seq, Used) /\ b \in Used /\ head \in Heads /\ head # b /\ seq[head] = << >>
        BY <1>7, <1>8
    <2>2. \E w, z :
              /\ w \in Memory
              /\ Holds(w, [seq EXCEPT ![head] = seq[b], ![b] = << >>], Used \cup {head})
              /\ HandedTo(v, w, b, head, FirstOf(b), z)
              /\ z \in {head} \cup On(seq) /\ z \in Nodes /\ z # b
              /\ FirstOf(b) = b => z = head
              /\ FirstOf(b) # b => z = v.prev[b] /\ z # head
              /\ FirstOf(b) \in {b} \cup On(seq) /\ FirstOf(b) \in Nodes
              /\ FirstOf(b) # head
        BY <2>1, Replaced
    <2> QED BY <1>6, <2>2
<1>10. ASSUME NEW n \in Nodes, n \in Relied(Worker)
       PROVE  /\ mem.next[n] = v.next[n] /\ (n # f => mem.prev[n] = v.prev[n])
              /\ \A x \in Queued(stores) : x.node # n
    <2>1. Aside(Worker, n)
        BY <1>1, <1>10 DEF Apart, Aside
    <2> QED BY <1>1, <1>7, <2>1, Reading
<1>11. b \in Relied(Worker) /\ head \in Relied(Worker) /\ f \in Relied(Worker)
    BY <1>1, <1>2, <1>4, <1>5, <1>6, TakeRelied
<1>12. mem.prev[b] = z
    <2>1. CASE f = b
        <3>1. \A x \in Queued(stores) : x.node # f
            BY <1>8, <1>10, <1>11, <2>1
        <3>2. mem["prev"][f] = head
            BY <1>7, <3>1 DEF SettlesTo
        <3> QED BY <1>9, <2>1, <3>2
    <2>2. CASE f # b
        BY <1>8, <1>9, <1>10, <1>11, <2>2
    <2> QED BY <2>1, <2>2
<1>13. z \in Relied(Worker)
    <2>1. z \in {mem.next[taken[2]], mem.prev[taken[1]]}
        BY <1>2, <1>12
    <2> QED BY <1>1, <1>9, <2>1 DEF Relied
<1>14. PICK q \in Seq(Assignments) : q = ReplacePrev(b, head)
    BY <1>1, <1>8, QueuesTyped
<1>15. /\ Queued(stores') = Queued(stores) \cup In(q)
       /\ stores'[Worker] = q /\ \A o \in Threads \ {Worker} : stores'[o] = stores[o]
    BY <1>1, <1>3, <1>14, QueuedAfter
<1>16. In(q) = {Assign("prev", head, z), Assign("next", z, head),
                Assign("next", b, b), Assign("prev", b, b)}
    BY <1>12, <1>14, InReplace
<1>17. On(seq') = On(seq)
    <2>1. On([seq EXCEPT ![head] = seq[b], ![b] = << >>]) = On(seq)
        BY <1>7, <1>8, OnMoved
    <2> QED BY <1>3, <2>1
<1>18. /\ \A o \in Threads \ {Worker} : pc'[o] = pc[o]
       /\ pc'[Worker] = IF head = TvList THEN "walk" ELSE "next"
    BY <1>1, <1>3
<1>19. Used' = Used \cup {head} /\ LooseNext' = {} /\ LoosePrev' = {}
    BY <1>1, <1>2, <1>3, <1>7, <1>18, ThreadsAssumption DEF Used, Walking, LooseNext, LoosePrev
<1>20. Expects(w)'
    <2>1. Spares(stores, {b, head, z})
        BY <1>8, <1>9, <1>10, <1>11, <1>13 DEF Spares
    <2>2. Makes(q, w) /\ Gains(stores, stores', q)
        BY <1>9, <1>15, <1>16 DEF Assign, HandedTo, Makes, Gains
    <2>3. /\ \A n \in {b, z} : \E x \in In(q) : x.field = "next" /\ x.node = n
          /\ \A n \in {b, head} : \E x \in In(q) : x.field = "prev" /\ x.node = n
        BY <1>16 DEF Assign
    <2>4. ASSUME NEW n \in Nodes
          PROVE  \/ SettlesTo(mem, stores, "next", n, w.next[n])
                 \/ n \in {b, head, z} /\ \E x \in In(q) : x.field = "next" /\ x.node = n
        <3>1. CASE n \in {b, z}
            BY <2>3, <3>1
        <3>2. CASE n \notin {b, z}
            <4>1. w.next[n] = v.next[n]
                <5>1. CASE n = head
                    BY <1>7, <1>9, <3>2, <5>1 DEF HandedTo
                <5>2. CASE n # head
                    BY <1>9, <3>2, <5>2 DEF HandedTo
                <5> QED BY <5>1, <5>2
            <4> QED BY <1>7, <4>1 DEF Settles
        <3> QED BY <3>1, <3>2
    <2>5. ASSUME NEW n \in Nodes
          PROVE  \/ SettlesTo(mem, stores, "prev", n, w.prev[n])
                 \/ n \in {b, head, z} /\ \E x \in In(q) : x.field = "prev" /\ x.node = n
        <3>1. CASE n \in {b, head}
            BY <2>3, <3>1
        <3>2. CASE n \notin {b, head} /\ n = f
            BY <1>7, <1>9, <3>2 DEF HandedTo
        <3>3. CASE n \notin {b, head} /\ n # f
            <4>1. w.prev[n] = v.prev[n]
                BY <1>9, <3>3 DEF HandedTo
            <4> QED BY <1>7, <3>3, <4>1 DEF Settles
        <3> QED BY <3>1, <3>2, <3>3
    <2>6. Settles(w, mem, stores', {}, {})
        <3>1. ASSUME NEW n \in Nodes PROVE SettlesTo(mem, stores', "next", n, w.next[n])
            <4>1. CASE SettlesTo(mem, stores, "next", n, w.next[n])
                BY <2>2, <4>1 DEF SettlesTo, Gains, Makes
            <4>2. CASE n \in {b, head, z} /\ \E x \in In(q) : x.field = "next" /\ x.node = n
                BY <2>1, <2>2, <4>2 DEF SettlesTo, Gains, Makes, Spares
            <4> QED BY <2>4, <4>1, <4>2
        <3>2. ASSUME NEW n \in Nodes PROVE SettlesTo(mem, stores', "prev", n, w.prev[n])
            <4>1. CASE SettlesTo(mem, stores, "prev", n, w.prev[n])
                BY <2>2, <4>1 DEF SettlesTo, Gains, Makes
            <4>2. CASE n \in {b, head, z} /\ \E x \in In(q) : x.field = "prev" /\ x.node = n
                BY <2>1, <2>2, <4>2 DEF SettlesTo, Gains, Makes, Spares
            <4> QED BY <2>5, <4>1, <4>2
        <3> QED BY <3>1, <3>2 DEF Settles
    <2>7. ASSUME NEW t \in Timers \ On(seq')
          PROVE  w.next[t] = NULL \/ \E o \in Threads : pc'[o] = "file" /\ timer'[o] = t
        <3>1. t \in Timers \ On(seq) /\ t \in Nodes /\ t \notin Heads
            BY <1>17, <2>7, NodesOfTheRace
        <3>2. t \notin {b, head, z}
            BY <1>8, <1>9, <3>1
        <3>3. v.next[t] = NULL \/ \E o \in Threads : pc[o] = "file" /\ timer[o] = t
            BY <1>5, <3>1 DEF Expects
        <3>4. w.next[t] = v.next[t]
            BY <1>9, <3>1, <3>2 DEF HandedTo
        <3> QED BY <1>1, <1>3, <1>18, <3>3, <3>4
    <2>8. pc'[Worker] # "take"
        BY <1>18
    <2> QED BY <1>3, <1>9, <1>19, <2>6, <2>7, <2>8 DEF Expects
<1>21. PlaceInv'
    <2>1. \A o \in Threads : pc'[o] = "file" => pc[o] = "file"
        BY <1>18
    <2>2. pc'[Worker] \notin {"cascade", "step"}
        BY <1>18
    <2> QED BY <1>3, <1>4, <1>17, <2>1, <2>2 DEF PlaceInv
<1>22. QueueInv'
    <2>1. ASSUME NEW x \in Queued(stores') PROVE x.node \in Nodes
        BY <1>4, <1>8, <1>9, <1>15, <1>16 DEF QueueInv, Assign
    <2>2. \A c \in Clients : stores'[c] = stores[c]
        BY <1>15, NodesOfTheRace
    <2>3. pc'[Worker] # "step"
        BY <1>18
    <2>4. \A c \in Clients : \A i \in 1 .. Len(stores'[c]) :
              stores'[c][i].field = "next" /\ stores'[c][i].node = WorkList =>
                  /\ mem'.next[WorkList] \in Timers
                  /\ stores'[c][Len(stores'[c])].node = mem'.next[WorkList]
                  /\ \A j \in 1 .. Len(stores'[c]) :
                        stores'[c][j].field = "next" /\ stores'[c][j].node = WorkList => j = i
        BY <1>3, <1>4, <2>2 DEF QueueInv
    <2> QED BY <2>1, <2>3, <2>4 DEF QueueInv
<1> QED BY <1>3, <1>4, <1>9, <1>20, <1>21, <1>22 DEF Planned, NoFault

\* The cascade's cursor goes to the first timer left on tv_list, or to its head.
LEMMA GoOnPlanned ==
    ASSUME ControlInv, Apart, Planned, pc[Worker] \in {"walk", "step"},
           stores[Worker] = << >>, FirstOf(TvList) \in Relied(Worker),
           GoOn(FirstOf(TvList)), UNCHANGED <<vars, call, taken, stores, locked, gone>>
    PROVE  Planned'
<1>1. /\ Worker \in Threads /\ stores \in [Threads -> Seq(Assignments)] /\ RaceTypeOK
      /\ pc \in [Threads -> Labels] /\ timer \in [Threads -> Nodes \cup {NULL}]
      /\ gone \subseteq Timers
    BY NodesOfTheRace DEF ControlInv, RaceTypeOK
<1>2. PICK f : f = FirstOf(TvList)
    OBVIOUS
<1>3. f \in Nodes /\ f \in Relied(Worker)
    BY <1>2 DEF Relied
<1>4. /\ timer' = [timer EXCEPT ![Worker] = f] /\ tmp' = mem.next[f]
      /\ pc' = [pc EXCEPT ![Worker] = "cascade"]
      /\ UNCHANGED <<mem, seq, live, call, taken, stores, locked, gone, fault>>
    BY <1>2, <1>3 DEF GoOn, Goto, vars
<1>5. PlaceInv /\ QueueInv /\ NoFault
    BY DEF Planned
<1>6. PICK v \in Memory : Expects(v)
    BY DEF Planned
<1>7. /\ Holds(v, seq, Used) /\ Settles(v, mem, stores, LooseNext, LoosePrev)
      /\ Lists(seq, Used) /\ TvList \in Used /\ TvList \in Heads
      /\ LooseNext \subseteq {TvList} /\ LoosePrev \subseteq {f}
    BY <1>2, <1>6, ThreadsAssumption
       DEF Expects, Holds, Used, Walking, LooseNext, LoosePrev
<1>8. /\ seq[TvList] \in Seq(Entries) /\ Len(seq[TvList]) \in Nat /\ Ring(v, TvList, seq[TvList])
      /\ \A i \in 1 .. Len(seq[TvList]) :
            seq[TvList][i] \in Entries /\ seq[TvList][i] \in On(seq)
    BY <1>7, ListsTypes DEF Holds
<1>9. f = TvList \/ f \in On(seq)
    BY <1>2, <1>8 DEF FirstOf, NodeAt
<1>10. ASSUME seq[TvList] # << >>
       PROVE  mem.next[f] = NodeAt(TvList, seq[TvList], 2)
    <2>1. 1 \in 1 .. Len(seq[TvList])
        BY <1>8, <1>10
    <2>2. f = seq[TvList][1]
        BY <1>2, <2>1 DEF FirstOf, NodeAt
    <2>3. f \notin LooseNext
        BY <1>7, <1>8, <2>1, <2>2, NodesAssumption
    <2>4. Aside(Worker, f)
        BY <1>1, <1>3 DEF Apart, Aside
    <2>5. mem.next[f] = v.next[f]
        BY <1>1, <1>3, <1>7, <2>3, <2>4, Reading
    <2>6. v.next[seq[TvList][1]] = NodeAt(TvList, seq[TvList], 1 + 1)
        BY <1>7, <1>8, <2>1, Neighbours
    <2> QED BY <2>2, <2>5, <2>6
<1>11. /\ \A o \in Threads \ {Worker} : pc'[o] = pc[o] /\ timer'[o] = timer[o]
       /\ pc'[Worker] = "cascade" /\ timer'[Worker] = f
    BY <1>1, <1>4
<1>12. /\ Used' = Used /\ LooseNext' = {TvList} /\ LoosePrev' = {f}
       /\ FirstOf(TvList)' = f
    BY <1>2, <1>4, <1>11 DEF Used, Walking, LooseNext, LoosePrev, FirstOf
<1>13. Expects(v)'
    <2>1. Settles(v, mem', stores', LooseNext', LoosePrev')
        BY <1>4, <1>7, <1>12 DEF Settles
    <2>2. \A t \in Timers \ On(seq) :
              v.next[t] = NULL \/ \E o \in Threads : pc[o] = "file" /\ timer[o] = t
        BY <1>6 DEF Expects
    <2>3. \A o \in Threads : pc[o] = "file" => pc'[o] = "file" /\ timer'[o] = timer[o]
        BY <1>11
    <2>4. \A t \in Timers \ On(seq') :
              v.next[t] = NULL \/ \E o \in Threads : pc'[o] = "file" /\ timer'[o] = t
        BY <1>4, <2>2, <2>3
    <2> QED BY <1>4, <1>7, <1>11, <1>12, <2>1, <2>4 DEF Expects
<1>14. PlaceInv'
    <2>1. \A o \in Threads : pc'[o] = "file" => timer'[o] \notin On(seq')
        BY <1>4, <1>5, <1>11 DEF PlaceInv
    <2>2. ASSUME NEW t \in gone'
          PROVE  /\ t \notin On(seq')
                 /\ \A o \in Threads : timer'[o] = t => call'[o] # "mod" /\ pc'[o] # "file"
        <3>1. t \in gone /\ t \notin On(seq) /\ t # f
            BY <1>1, <1>4, <1>5, <1>7, <1>9, <2>2, NodesOfTheRace DEF PlaceInv
        <3> QED BY <1>4, <1>5, <1>11, <3>1 DEF PlaceInv
    <2>3. timer'[Worker] = FirstOf(TvList)'
        BY <1>11, <1>12
    <2>4. seq'[TvList] # << >> => tmp' = NodeAt(TvList, seq'[TvList], 2)
        BY <1>4, <1>10
    <2>5. pc'[Worker] # "step"
        BY <1>11
    <2> QED BY <2>1, <2>2, <2>3, <2>4, <2>5 DEF PlaceInv
<1>15. QueueInv'
    <2>1. \A x \in Queued(stores') : x.node \in Nodes
        BY <1>4, <1>5 DEF QueueInv
    <2>2. pc'[Worker] # "step"
        BY <1>11
    <2>3. \A c \in Clients : \A i \in 1 .. Len(stores'[c]) :
              stores'[c][i].field = "next" /\ stores'[c][i].node = WorkList =>
                  /\ mem'.next[WorkList] \in Timers
                  /\ stores'[c][Len(stores'[c])].node = mem'.next[WorkList]
                  /\ \A j \in 1 .. Len(stores'[c]) :
                        stores'[c][j].field = "next" /\ stores'[c][j].node = WorkList => j = i
        BY <1>4, <1>5 DEF QueueInv
    <2> QED BY <2>1, <2>2, <2>3 DEF QueueInv
<1> QED BY <1>4, <1>5, <1>13, <1>14, <1>15 DEF Planned, NoFault

\* The walk begins.
LEMMA WalkPlanned ==
    ASSUME ControlInv, Apart, Planned, Walk
    PROVE  Planned'
<1>1. /\ pc[Worker] = "walk" /\ stores[Worker] = << >> /\ Worker \in Threads
      /\ TvList \in Nodes /\ TvList \in Heads
      /\ GoOn(mem.next[TvList]) /\ UNCHANGED <<vars, call, taken, stores, locked, gone>>
    BY NodesOfTheRace, ThreadsAssumption DEF Walk, At
<1>2. PICK v \in Memory : Expects(v)
    BY DEF Planned
<1>3. /\ Holds(v, seq, Used) /\ Settles(v, mem, stores, LooseNext, LoosePrev)
      /\ TvList \in Used /\ LooseNext = {}
    BY <1>1, <1>2 DEF Expects, Used, Walking, LooseNext
<1>4. TvList \in Relied(Worker)
    BY <1>1 DEF Relied
<1>5. Aside(Worker, TvList)
    BY <1>1, <1>4 DEF Apart, Aside
<1>6. mem.next[TvList] = v.next[TvList]
    BY <1>1, <1>3, <1>5, Reading
<1>7. Ring(v, TvList, seq[TvList]) /\ seq[TvList] \in Seq(Entries)
    BY <1>1, <1>3, ListsTypes DEF Holds
<1>8. v.next[TvList] = NodeAt(TvList, seq[TvList], 1) /\ NodeAt(TvList, seq[TvList], 1) \in Nodes
    BY <1>1, <1>7, Neighbours
<1>9. mem.next[TvList] = FirstOf(TvList) /\ FirstOf(TvList) \in Nodes
    BY <1>6, <1>8 DEF FirstOf
<1>10. FirstOf(TvList) \in Relied(Worker)
    BY <1>1, <1>9 DEF Relied
<1> QED BY <1>1, <1>9, <1>10, GoOnPlanned

\* The walk goes on, at the look-ahead.
LEMMA StepPlanned ==
    ASSUME ControlInv, Apart, Planned, Step
    PROVE  Planned'
<1>1. /\ pc[Worker] = "step" /\ stores[Worker] = << >>
      /\ GoOn(tmp) /\ UNCHANGED <<vars, call, taken, stores, locked, gone>>
    BY DEF Step, At
<1>2. PlaceInv /\ tmp = FirstOf(TvList)
    BY <1>1 DEF Planned, PlaceInv
<1>3. PICK v \in Memory : Expects(v)
    BY DEF Planned
<1>4. FirstOf(TvList) \in Relied(Worker)
    BY <1>1, <1>2, <1>3, WalkRelied DEF Walking
<1> QED BY <1>1, <1>2, <1>4, GoOnPlanned

\* The cursor is back at the head, and tv_list goes out of scope.
LEMMA CascadeDonePlanned ==
    ASSUME ControlInv, Apart, Planned, CascadeDone
    PROVE  Planned'
<1>1. /\ pc[Worker] = "cascade" /\ timer[Worker] = TvList /\ Worker \in Threads
      /\ stores[Worker] = << >> /\ stores \in [Threads -> Seq(Assignments)] /\ RaceTypeOK
      /\ pc \in [Threads -> Labels] /\ timer \in [Threads -> Nodes \cup {NULL}]
      /\ gone \subseteq Timers /\ live = Buckets
      /\ TvList \in Nodes /\ TvList \in Heads /\ TvList \notin Buckets
    BY NodesOfTheRace, ThreadsAssumption
       DEF CascadeDone, At, ControlInv, RaceTypeOK, Serving
<1>2. /\ timer' = [timer EXCEPT ![Worker] = NULL]
      /\ pc' = [pc EXCEPT ![Worker] = "loop"]
      /\ UNCHANGED <<mem, seq, live, call, taken, stores, locked, gone, fault>>
    BY DEF CascadeDone, Goto, vars
<1>3. PlaceInv /\ QueueInv /\ NoFault
    BY DEF Planned
<1>4. PICK v \in Memory : Expects(v)
    BY DEF Planned
<1>5. /\ Holds(v, seq, Used) /\ Settles(v, mem, stores, LooseNext, LoosePrev)
      /\ Lists(seq, Used) /\ FirstOf(TvList) = TvList
      /\ LooseNext = {TvList} /\ LoosePrev = {TvList} /\ Used = Buckets \cup {TvList}
    BY <1>1, <1>3, <1>4
       DEF Expects, Holds, Used, Walking, LooseNext, LoosePrev, PlaceInv
<1>6. seq[TvList] = << >>
    <2>1. /\ seq[TvList] \in Seq(Entries) /\ Len(seq[TvList]) \in Nat
          /\ \A i \in 1 .. Len(seq[TvList]) : seq[TvList][i] \in Entries
        BY <1>1, <1>5, ListsTypes
    <2>2. 1 \notin 1 .. Len(seq[TvList])
        BY <1>1, <1>5, <2>1, NodesAssumption DEF FirstOf, NodeAt
    <2> QED BY <2>1, <2>2
<1>7. PICK x \in Nodes \cup {NULL, LIST_POISON1}, y \in Nodes \cup {NULL, LIST_POISON2} :
          x = mem.next[TvList] /\ y = mem.prev[TvList]
    BY <1>1, MemoryFields
<1>8. PICK v1 : v1 = SetNext(v, TvList, x)
    OBVIOUS
<1>9. PICK w : w = SetPrev(v1, TvList, y)
    OBVIOUS
<1>10. v1 \in Memory /\ v1.prev = v.prev /\ v1.next = [v.next EXCEPT ![TvList] = x]
    <2>1. v \in Memory /\ TvList \in Nodes /\ x \in Nodes \cup {NULL, LIST_POISON1}
        BY <1>1
    <2> QED BY <1>8, <2>1, NextSet
<1>11. w \in Memory /\ w.next = v1.next /\ w.prev = [v1.prev EXCEPT ![TvList] = y]
    <2>1. v1 \in Memory /\ TvList \in Nodes /\ y \in Nodes \cup {NULL, LIST_POISON2}
        BY <1>1, <1>10
    <2> QED BY <1>9, <2>1, PrevSet
<1>12. /\ \A n \in Nodes \ {TvList} : w.next[n] = v.next[n] /\ w.prev[n] = v.prev[n]
       /\ w.next[TvList] = mem.next[TvList] /\ w.prev[TvList] = mem.prev[TvList]
    BY <1>1, <1>7, <1>10, <1>11, MemoryTypes
<1>13. Holds(w, seq, Used \ {TvList})
    <2>1. Holds(v, seq, Used \ {TvList})
        BY <1>1, <1>5, <1>6, Dropped
    <2>2. TvList \in Heads /\ TvList \notin Used \ {TvList} /\ w \in Memory
        BY <1>1, <1>11
    <2>3. \A n \in Nodes \ {TvList} : w.next[n] = v.next[n] /\ w.prev[n] = v.prev[n]
        BY <1>12
    <2> QED BY <2>1, <2>2, <2>3, FreeHeadTouched
<1>14. \A a \in Queued(stores) : a.node # TvList
    <2>1. TvList \in Relied(Worker)
        BY <1>1 DEF Relied
    <2>2. Aside(Worker, TvList)
        BY <1>1, <2>1 DEF Apart, Aside
    <2> QED BY <1>1, <1>5, <2>2, Reading
<1>15. /\ \A o \in Threads \ {Worker} : pc'[o] = pc[o] /\ timer'[o] = timer[o]
       /\ pc'[Worker] = "loop" /\ timer'[Worker] = NULL
    BY <1>1, <1>2
<1>16. Used' = Used \ {TvList} /\ LooseNext' = {} /\ LoosePrev' = {}
    BY <1>1, <1>2, <1>5, <1>15 DEF Used, Walking, LooseNext, LoosePrev
<1>17. Expects(w)'
    <2>1. ASSUME NEW n \in Nodes
          PROVE  /\ SettlesTo(mem, stores, "next", n, w.next[n])
                 /\ SettlesTo(mem, stores, "prev", n, w.prev[n])
        <3>1. CASE n = TvList
            BY <1>1, <1>12, <1>14, <3>1, MemoryFields DEF SettlesTo
        <3>2. CASE n # TvList
            BY <1>5, <1>12, <3>2 DEF Settles
        <3> QED BY <3>1, <3>2
    <2>2. Settles(w, mem', stores', LooseNext', LoosePrev')
        BY <1>2, <1>16, <2>1 DEF Settles
    <2>3. \A t \in Timers \ On(seq) :
              v.next[t] = NULL \/ \E o \in Threads : pc[o] = "file" /\ timer[o] = t
        BY <1>4 DEF Expects
    <2>4. \A o \in Threads : pc[o] = "file" => pc'[o] = "file" /\ timer'[o] = timer[o]
        BY <1>1, <1>15
    <2>5. \A t \in Timers : w.next[t] = v.next[t]
        BY <1>1, <1>12, NodesOfTheRace
    <2>6. \A t \in Timers \ On(seq') :
              w.next[t] = NULL \/ \E o \in Threads : pc'[o] = "file" /\ timer'[o] = t
        BY <1>2, <2>3, <2>4, <2>5
    <2> QED BY <1>2, <1>11, <1>13, <1>15, <1>16, <2>2, <2>6 DEF Expects
<1>18. PlaceInv'
    <2>1. \A o \in Threads : pc'[o] = "file" => pc[o] = "file" /\ timer'[o] = timer[o]
        BY <1>15
    <2>2. ASSUME NEW t \in gone'
          PROVE  /\ t \notin On(seq')
                 /\ \A o \in Threads : timer'[o] = t => call'[o] # "mod" /\ pc'[o] # "file"
        <3>1. t \in gone /\ t \notin On(seq) /\ t # NULL
            BY <1>1, <1>2, <1>3, <2>2, NodesOfTheRace DEF PlaceInv
        <3> QED BY <1>2, <1>3, <1>15, <3>1 DEF PlaceInv
    <2> QED BY <1>2, <1>3, <1>15, <2>1, <2>2 DEF PlaceInv
<1>19. QueueInv'
    <2>1. \A a \in Queued(stores') : a.node \in Nodes
        BY <1>2, <1>3 DEF QueueInv
    <2>2. pc'[Worker] # "step"
        BY <1>15
    <2>3. \A c \in Clients : \A i \in 1 .. Len(stores'[c]) :
              stores'[c][i].field = "next" /\ stores'[c][i].node = WorkList =>
                  /\ mem'.next[WorkList] \in Timers
                  /\ stores'[c][Len(stores'[c])].node = mem'.next[WorkList]
                  /\ \A j \in 1 .. Len(stores'[c]) :
                        stores'[c][j].field = "next" /\ stores'[c][j].node = WorkList => j = i
        BY <1>2, <1>3 DEF QueueInv
    <2> QED BY <2>1, <2>2, <2>3 DEF QueueInv
<1> QED BY <1>2, <1>3, <1>11, <1>17, <1>18, <1>19 DEF Planned, NoFault

\* Taking t, the first entry of h, off its list makes of v the memory u, and
\* y the first.
OffFront(v, u, used, h, t, y) ==
    /\ t = FirstOf(h) /\ t \in Entries /\ t \in On(seq)
    /\ y = NodeAt(h, seq[h], 2) /\ y \in Nodes /\ y \in {h} \cup Entries
    /\ Holds(u, Without(t), used) /\ t \notin On(Without(t))
    /\ On(Without(t)) = On(seq) \ {t}
    /\ \A n \in Nodes \ {h} : u.next[n] = v.next[n]
    /\ \A n \in Nodes \ {y} : u.prev[n] = v.prev[n]
    /\ NodeAt(h, Without(t)[h], 1) = y

\* The memory that __list_del_entry makes of the first entry of a list.
LEMMA FirstOff ==
    ASSUME NEW v, NEW used, Holds(v, seq, used), NEW h \in used, seq[h] # << >>
    PROVE  \E u, t, y : OffFront(v, u, used, h, t, y)
<1>1. v \in Memory /\ Lists(seq, used) /\ Ring(v, h, seq[h]) /\ h \in Heads /\ h \in Nodes
      /\ seq \in [Heads -> Seq(Entries)]
    BY ListsTypes DEF Holds, Nodes, Lists
<1>2. /\ seq[h] \in Seq(Entries) /\ Len(seq[h]) \in Nat
      /\ \A i \in 1 .. Len(seq[h]) : seq[h][i] \in Entries /\ seq[h][i] \in On(seq)
    BY <1>1, ListsTypes
<1>3. 1 \in 1 .. Len(seq[h])
    BY <1>2
<1>4. PICK t : t = seq[h][1]
    OBVIOUS
<1>5. FirstOf(h) = t /\ t \in Entries /\ t \in On(seq) /\ t \in Nodes
    BY <1>2, <1>3, <1>4 DEF FirstOf, NodeAt, Nodes
<1>6. PICK y : y = NodeAt(h, seq[h], 2)
    OBVIOUS
<1>7. y \in Nodes /\ v.next[t] = y /\ v.prev[t] = h
    <2>1. v.next[seq[h][1]] = NodeAt(h, seq[h], 1 + 1) /\ v.prev[seq[h][1]] = NodeAt(h, seq[h], 1 - 1)
        BY <1>1, <1>2, <1>3, Neighbours
    <2>2. NodeAt(h, seq[h], 2) \in Nodes
        BY <1>1, <1>2, Neighbours
    <2>3. 1 + 1 = 2 /\ 1 - 1 = 0 /\ NodeAt(h, seq[h], 0) = h
        BY <1>2 DEF NodeAt
    <2> QED BY <1>4, <1>6, <2>1, <2>2, <2>3
<1>8. y \in {h} \cup Entries
    BY <1>2, <1>6 DEF NodeAt
<1>9. PICK u : u = Unlink(v, t)
    OBVIOUS
<1>10. Holds(u, Without(t), used) /\ t \notin On(Without(t))
    BY <1>5, <1>9, TakenOff
<1>11. Without(t) = [seq EXCEPT ![h] = RemoveAt(seq[h], 1)] /\ On(Without(t)) = On(seq) \ {t}
    BY <1>1, <1>3, <1>4, WithoutIs
<1>12. u = JoinAround(v, h, y)
    BY <1>7, <1>9 DEF Unlink
<1>13. /\ \A n \in Nodes \ {h} : u.next[n] = v.next[n]
       /\ \A n \in Nodes \ {y} : u.prev[n] = v.prev[n]
    <2>1. v \in Memory /\ h \in Nodes /\ y \in Nodes
        BY <1>1, <1>7
    <2>2. LET m2 == JoinAround(v, h, y)
          IN  /\ m2 \in Memory
              /\ m2.next[h] = y /\ m2.prev[y] = h
              /\ \A n \in Nodes \ {h} : m2.next[n] = v.next[n]
              /\ \A n \in Nodes \ {y} : m2.prev[n] = v.prev[n]
        BY <2>1, JoinSets
    <2> QED BY <1>12, <2>2
<1>14. NodeAt(h, Without(t)[h], 1) = y
    <2>1. Without(t)[h] = RemoveAt(seq[h], 1)
        BY <1>1, <1>11
    <2>2. /\ RemoveAt(seq[h], 1) \in Seq(Entries)
          /\ Len(RemoveAt(seq[h], 1)) = Len(seq[h]) - 1
          /\ \A i \in 1 .. Len(seq[h]) - 1 :
                RemoveAt(seq[h], 1)[i] = IF i < 1 THEN seq[h][i] ELSE seq[h][i + 1]
        BY <1>2, <1>3, RemovedAt
    <2>3. CASE 1 \in 1 .. Len(seq[h]) - 1
        <3>1. RemoveAt(seq[h], 1)[1] = seq[h][2]
            BY <2>2, <2>3
        <3>2. 2 \in 1 .. Len(seq[h])
            BY <1>2, <2>3
        <3> QED BY <1>6, <2>1, <2>2, <2>3, <3>1, <3>2 DEF NodeAt
    <2>4. CASE 1 \notin 1 .. Len(seq[h]) - 1
        <3>1. 2 \notin 1 .. Len(seq[h])
            BY <1>2, <2>4
        <3> QED BY <1>6, <2>1, <2>2, <2>4, <3>1 DEF NodeAt
    <2> QED BY <2>3, <2>4
<1>15. OffFront(v, u, used, h, t, y)
    BY <1>5, <1>6, <1>7, <1>8, <1>10, <1>11, <1>13, <1>14 DEF OffFront
<1> QED BY <1>15

\* The cascade files its timer again, without taking it off tv_list.
LEMMA CascadePlanned ==
    ASSUME ControlInv, ControlInv', Apart, Apart', Planned, NEW b \in Buckets, Cascade(b)
    PROVE  Planned'
<1>1. /\ pc[Worker] = "cascade" /\ stores[Worker] = << >> /\ Worker \in Threads
      /\ timer[Worker] # TvList
      /\ stores \in [Threads -> Seq(Assignments)] /\ RaceTypeOK
      /\ pc \in [Threads -> Labels] /\ gone \subseteq Timers
      /\ b \in Nodes /\ b \in Heads /\ live = Buckets /\ b # TvList
      /\ TvList \in Heads /\ TvList \in Nodes
    BY NodesOfTheRace, ThreadsAssumption
       DEF Cascade, At, ControlInv, RaceTypeOK, Buckets, Serving
<1>2. PlaceInv /\ QueueInv /\ NoFault
    BY DEF Planned
<1>3. PICK v \in Memory : Expects(v)
    BY DEF Planned
<1>4. /\ Holds(v, seq, Used) /\ Settles(v, mem, stores, LooseNext, LoosePrev)
      /\ Lists(seq, Used) /\ seq \in [Heads -> Seq(Entries)]
      /\ TvList \in Used /\ b \in Used /\ timer[Worker] = FirstOf(TvList)
      /\ LooseNext = {TvList} /\ LoosePrev = {timer[Worker]}
    BY <1>1, <1>2, <1>3
       DEF Expects, Holds, Lists, Used, Walking, LooseNext, LoosePrev, PlaceInv
<1>5. seq[TvList] # << >>
    BY <1>1, <1>4 DEF FirstOf, NodeAt
<1>6. PICK u, t, y : OffFront(v, u, Used, TvList, t, y)
    BY <1>4, <1>5, FirstOff
<1>7. /\ t = timer[Worker] /\ t = FirstOf(TvList) /\ t \in Entries /\ t \in On(seq)
      /\ t \in Timers /\ t \in Nodes /\ t \notin Heads /\ LoosePrev = {t}
      /\ y = NodeAt(TvList, seq[TvList], 2) /\ y \in Nodes /\ y \in {TvList} \cup Entries
      /\ Holds(u, Without(t), Used) /\ t \notin On(Without(t))
      /\ On(Without(t)) = On(seq) \ {t}
      /\ \A n \in Nodes \ {TvList} : u.next[n] = v.next[n]
      /\ \A n \in Nodes \ {y} : u.prev[n] = v.prev[n]
      /\ NodeAt(TvList, Without(t)[TvList], 1) = y
    BY <1>4, <1>6, NodesAssumption, NodesOfTheRace DEF OffFront, Timers
<1>8. /\ UNCHANGED <<mem, live, call, timer, tmp, taken, locked, gone, fault>>
      /\ stores' = [stores EXCEPT ![Worker] = AddTail(t, b)]
      /\ seq' = [Without(t) EXCEPT ![b] = Append(Without(t)[b], t)]
      /\ pc' = [pc EXCEPT ![Worker] = "step"]
    BY <1>7 DEF Cascade, Queue, Goto
<1>9. PICK q \in Seq(Assignments) : q = AddTail(t, b)
    BY <1>1, <1>7, QueuesTyped
<1>10. /\ Queued(stores') = Queued(stores) \cup In(q)
       /\ stores'[Worker] = q /\ \A o \in Threads \ {Worker} : stores'[o] = stores[o]
    BY <1>1, <1>8, <1>9, QueuedAfter
<1>11. /\ OthersStay(Worker) /\ pc'[Worker] = "step"
       /\ \A o \in Threads \ {Worker} : pc'[o] = pc[o]
    BY <1>1, <1>8, <1>10 DEF OthersStay
<1>12. ASSUME NEW n \in Nodes, n \in Relied(Worker)'
       PROVE  /\ n # TvList => mem.next[n] = v.next[n]
              /\ n # t => mem.prev[n] = v.prev[n]
              /\ \A x \in Queued(stores) : x.node # n
    <2>1. Aside(Worker, n)
        BY <1>1, <1>11, <1>12, Alone
    <2>2. Settles(v, mem, stores, LooseNext, LoosePrev) /\ stores[Worker] = << >>
          /\ Worker \in Threads
        BY <1>1, <1>4
    <2>3. /\ \A x \in Queued(stores) : x.node # n
          /\ n \notin LooseNext => mem.next[n] = v.next[n]
          /\ n \notin LoosePrev => mem.prev[n] = v.prev[n]
        BY <2>1, <2>2, Reading
    <2>4. LooseNext = {TvList} /\ LoosePrev = {t}
        BY <1>4, <1>7
    <2> QED BY <2>3, <2>4
<1>13. In(q) = {Assign("prev", b, t), Assign("next", t, b),
                Assign("prev", t, mem.prev[b]), Assign("next", mem.prev[b], t)}
    BY <1>9, InAddTail
<1>14. \A x \in In(q) : /\ x.node \in Nodes => x.node \in Relied(Worker)'
                        /\ x.value \in Nodes => x.value \in Relied(Worker)'
    BY <1>1, <1>10, QueueReliedNext
<1>15. t \in Relied(Worker)' /\ b \in Relied(Worker)'
    BY <1>1, <1>7, <1>13, <1>14 DEF Assign
<1>16. PICK w, z : AddedTail(u, w, Without(t), Used, z, t, b)
    <2>1. Holds(u, Without(t), Used) /\ t \in Entries /\ t \notin On(Without(t)) /\ b \in Used
        BY <1>4, <1>7
    <2> QED BY <2>1, Appended
<1>17. /\ z \in Nodes /\ z = u.prev[b] /\ z # t /\ w \in Memory
       /\ z = b \/ \E i \in 1 .. Len(Without(t)[b]) : z = Without(t)[b][i]
       /\ Holds(w, [Without(t) EXCEPT ![b] = Append(Without(t)[b], t)], Used)
       /\ \A n \in Nodes \ {z, t} : w.next[n] = u.next[n]
       /\ \A n \in Nodes \ {b, t} : w.prev[n] = u.prev[n]
    BY <1>16 DEF AddedTail, Links
<1>18. mem.prev[b] = z /\ z \in Relied(Worker)'
    <2>1. b # y /\ b # t
        BY <1>1, <1>7, NodesAssumption
    <2>2. mem.prev[b] = v.prev[b]
        BY <1>1, <1>12, <1>15, <2>1
    <2>3. mem.prev[b] = z
        BY <1>1, <1>7, <1>17, <2>1, <2>2
    <2> QED BY <1>13, <1>14, <1>17, <2>3 DEF Assign
<1>19. PICK r : r = Without(t)
    OBVIOUS
<1>20. Lists(r, Used) /\ r \in [Heads -> Seq(Entries)] /\ r[TvList] \in Seq(Entries)
       /\ r[b] \in Seq(Entries)
    BY <1>1, <1>7, <1>19 DEF Holds, Lists
<1>21. /\ z \in {b} \cup On(r) /\ z # TvList
       /\ \A i \in 1 .. Len(r[TvList]) : z # r[TvList][i] /\ t # r[TvList][i]
    <2>1. /\ \A i \in 1 .. Len(r[b]) : r[b][i] \in Entries /\ r[b][i] \in On(r)
          /\ \A i \in 1 .. Len(r[TvList]) : r[TvList][i] \in Entries /\ r[TvList][i] \in On(r)
        BY <1>1, <1>20, ListsTypes
    <2>2. \A i \in 1 .. Len(r[b]), j \in 1 .. Len(r[TvList]) : r[b][i] # r[TvList][j]
        BY <1>1, <1>20 DEF Lists, OnceEach
    <2>3. b \notin Entries /\ TvList \notin Entries
        BY <1>1, NodesAssumption
    <2>4. t # TvList /\ t \notin On(r) /\ b # TvList
        BY <1>1, <1>7, <1>19, <2>3
    <2>5. \A i \in 1 .. Len(r[TvList]) : t # r[TvList][i]
        BY <2>1, <2>4
    <2>6. CASE z = b
        <3>1. \A i \in 1 .. Len(r[TvList]) : z # r[TvList][i]
            BY <2>1, <2>3, <2>6
        <3> QED BY <2>4, <2>5, <2>6, <3>1
    <2>7. CASE \E i \in 1 .. Len(r[b]) : z = r[b][i]
        <3>1. PICK k \in 1 .. Len(r[b]) : z = r[b][k]
            BY <2>7
        <3>2. z \in Entries /\ z \in On(r)
            BY <2>1, <3>1
        <3>3. \A i \in 1 .. Len(r[TvList]) : z # r[TvList][i]
            BY <2>2, <3>1
        <3> QED BY <2>3, <2>5, <3>2, <3>3
    <2> QED BY <1>17, <1>19, <2>6, <2>7
<1>22. On(seq') = On(seq)
    <2>1. On([r EXCEPT ![b] = Append(r[b], t)]) = On(r) \cup {t}
        <3>1. r \in [Heads -> Seq(Entries)] /\ b \in Heads /\ t \in Entries
            BY <1>1, <1>7, <1>20
        <3> QED BY <3>1, OnAppended
    <2> QED BY <1>7, <1>8, <1>19, <2>1
<1>23. seq'[TvList] = r[TvList] /\ FirstOf(TvList)' = y
    <2>1. seq'[TvList] = r[TvList]
        BY <1>1, <1>8, <1>19, <1>20
    <2> QED BY <1>7, <1>19, <2>1 DEF FirstOf
<1>24. Used' = Used /\ LooseNext' = {TvList} /\ LoosePrev' = {y}
    BY <1>1, <1>8, <1>11, <1>23 DEF Used, Walking, LooseNext, LoosePrev
<1>25. Expects(w)'
    <2>1. Holds(w, seq', Used')
        BY <1>8, <1>17, <1>24
    <2>2. Spares(stores, {t, b, z})
        BY <1>1, <1>7, <1>12, <1>15, <1>17, <1>18 DEF Spares
    <2>3. AppendsTo(q, z, t, b) /\ Gains(stores, stores', q) /\ Links(u, w, z, t, b)
        BY <1>10, <1>13, <1>16, <1>18 DEF AppendsTo, Gains, AddedTail
    <2>4. Settles(w, mem, stores, {TvList} \cup {z, t}, {y} \cup {b, t})
        <3>1. \A n \in Nodes \ ({TvList} \cup {z, t}) : w.next[n] = v.next[n]
            BY <1>7, <1>17
        <3>2. \A n \in Nodes \ ({y} \cup {b, t}) : w.prev[n] = v.prev[n]
            BY <1>7, <1>17
        <3> QED BY <1>4, <1>7, <3>1, <3>2 DEF Settles
    <2>5. Settles(w, mem, stores', {TvList}, {y})
        BY <2>2, <2>3, <2>4, AppendSettles
    <2>6. Settles(w, mem', stores', LooseNext', LoosePrev')
        BY <1>8, <1>24, <2>5
    <2>7. ASSUME NEW x \in Timers \ On(seq')
          PROVE  w.next[x] = NULL \/ \E o \in Threads : pc'[o] = "file" /\ timer'[o] = x
        <3>1. x \in Timers \ On(seq) /\ x \in Nodes /\ x \notin Heads
            BY <1>22, <2>7, NodesOfTheRace
        <3>2. x # t /\ x # z /\ x # TvList
            BY <1>1, <1>7, <1>19, <1>21, <3>1
        <3>3. v.next[x] = NULL \/ \E o \in Threads : pc[o] = "file" /\ timer[o] = x
            BY <1>3, <3>1 DEF Expects
        <3>4. w.next[x] = v.next[x]
            BY <1>7, <1>17, <3>1, <3>2
        <3> QED BY <1>1, <1>8, <1>11, <3>3, <3>4
    <2>8. pc'[Worker] # "take"
        BY <1>11
    <2> QED BY <1>17, <2>1, <2>6, <2>7, <2>8 DEF Expects
<1>26. PlaceInv'
    <2>1. \A o \in Threads : pc'[o] = "file" => pc[o] = "file"
        BY <1>11
    <2>2. tmp' = FirstOf(TvList)'
        BY <1>1, <1>2, <1>5, <1>7, <1>8, <1>23 DEF PlaceInv
    <2>3. pc'[Worker] # "cascade"
        BY <1>11
    <2> QED BY <1>2, <1>8, <1>22, <2>1, <2>2, <2>3 DEF PlaceInv
<1>27. QueueInv'
    <2>1. ASSUME NEW x \in Queued(stores') PROVE x.node \in Nodes
        <3>1. x \in Queued(stores) => x.node \in Nodes
            BY <1>2 DEF QueueInv
        <3>2. x \in In(q) => x.node \in {b, t, z}
            BY <1>13, <1>18 DEF Assign
        <3> QED BY <1>1, <1>7, <1>10, <1>17, <3>1, <3>2
    <2>2. \A x \in In(stores'[Worker]) : x.field = "next" =>
              \A i \in 1 .. Len(seq'[TvList]) : x.node # seq'[TvList][i]
        <3>1. \A x \in In(q) : x.field = "next" => x.node \in {t, z}
            BY <1>13, <1>18 DEF Assign
        <3> QED BY <1>10, <1>21, <1>23, <3>1
    <2>3. \A c \in Clients : stores'[c] = stores[c]
        BY <1>10, NodesOfTheRace
    <2>4. \A c \in Clients : \A i \in 1 .. Len(stores'[c]) :
              stores'[c][i].field = "next" /\ stores'[c][i].node = WorkList =>
                  /\ mem'.next[WorkList] \in Timers
                  /\ stores'[c][Len(stores'[c])].node = mem'.next[WorkList]
                  /\ \A j \in 1 .. Len(stores'[c]) :
                        stores'[c][j].field = "next" /\ stores'[c][j].node = WorkList => j = i
        BY <1>2, <1>8, <2>3 DEF QueueInv
    <2> QED BY <2>1, <2>2, <2>4 DEF QueueInv
<1> QED BY <1>2, <1>8, <1>17, <1>25, <1>26, <1>27 DEF Planned, NoFault
-----------------------------------------------------------------------------
\* The empty lists are as planned.
LEMMA InitPlanned ==
    ASSUME RaceInit
    PROVE  Apart /\ Planned
<1>1. /\ stores = [th \in Threads |-> << >>] /\ seq = [h \in Heads |-> << >>]
      /\ live = Buckets /\ fault = FALSE /\ gone = {}
      /\ pc = [th \in Threads |-> IF th = Worker THEN "sleep" ELSE "idle"]
      /\ timer = [th \in Threads |-> NULL]
      /\ mem = [next |-> [n \in Nodes |-> IF n \in Buckets THEN n ELSE NULL],
                prev |-> [n \in Nodes |-> IF n \in Buckets THEN n ELSE NULL]]
    BY DEF RaceInit
<1>2. Queued(stores) = {} /\ \A th \in Threads : Relied(th) = {}
    BY <1>1 DEF Queued, In, Relied
<1>3. Apart
    BY <1>2 DEF Apart
<1>4. PICK v : v = mem
    OBVIOUS
<1>5. /\ v \in Memory
      /\ \A n \in Nodes : /\ v.next[n] = IF n \in Buckets THEN n ELSE NULL
                          /\ v.prev[n] = IF n \in Buckets THEN n ELSE NULL
    BY <1>1, <1>4 DEF Memory
<1>6. pc[Worker] = "sleep" /\ Used = Buckets /\ LooseNext = {} /\ LoosePrev = {}
    BY <1>1, NodesOfTheRace DEF Used, Walking, LooseNext, LoosePrev
<1>7. On(seq) = {} /\ \A h \in Heads : seq[h] = << >> /\ Len(seq[h]) = 0
    <2>1. \A h \in Heads : seq[h] = << >>
        BY <1>1
    <2> QED BY <2>1 DEF On
<1>8. Holds(v, seq, Buckets)
    <2>1. seq \in [Heads -> Seq(Entries)]
        BY <1>1
    <2>2. Lists(seq, Buckets)
        BY <1>7, <2>1 DEF Lists, OnceEach, Buckets
    <2>3. ASSUME NEW h \in Buckets PROVE Ring(v, h, seq[h])
        <3>1. h \in Heads /\ h \in Nodes /\ v.next[h] = h /\ v.prev[h] = h
            BY <1>5, NodesOfTheRace DEF Buckets
        <3>2. \A i \in Int : NodeAt(h, seq[h], i) = h
            BY <1>7, <3>1 DEF NodeAt
        <3> QED BY <1>7, <3>1, <3>2 DEF Ring
    <2> QED BY <1>5, <2>2, <2>3 DEF Holds
<1>9. Settles(v, mem, stores, {}, {})
    BY <1>2, <1>4 DEF Settles, SettlesTo
<1>10. Expects(v)
    <2>1. \A t \in Timers : v.next[t] = NULL
        BY <1>5, NodesOfTheRace DEF Buckets
    <2> QED BY <1>5, <1>6, <1>8, <1>9, <2>1 DEF Expects
<1>11. PlaceInv
    <2>1. \A th \in Threads : pc[th] # "file"
        BY <1>1
    <2> QED BY <1>1, <1>6, <2>1 DEF PlaceInv
<1>12. QueueInv
    <2>1. \A c \in Clients : stores[c] = << >>
        BY <1>1, NodesOfTheRace
    <2>2. \A c \in Clients : 1 .. Len(stores[c]) = {}
        BY <2>1
    <2> QED BY <1>2, <1>6, <2>2 DEF QueueInv
<1> QED BY <1>1, <1>3, <1>5, <1>10, <1>11, <1>12 DEF Planned, NoFault

\* The parts of the inductive invariant.
LEMMA Parts == RaceIInv <=> ControlInv /\ Apart /\ Planned
BY DEF RaceIInv, Planned

\* The plan is the same when nothing changes.
LEMMA StillPlanned ==
    ASSUME Planned, UNCHANGED raceVars
    PROVE  Planned'
BY QuietPlanned DEF raceVars, vars, Planned, PlaceInv

\* The steps of the worker keep to the plan.
LEMMA WorkPlanned ==
    ASSUME ControlInv, ControlInv', Apart, Apart', Planned, RunTimers
    PROVE  Planned'
<1>1. CASE Wake \/ Lock \/ CallFn \/ FnReturn \/ EndRun
    BY <1>1, WorkerQuiet
<1>2. CASE \E b \in Buckets, head \in {WorkList, TvList} : Take(b, head)
    BY <1>2, TakePlanned
<1>3. CASE TakeRest
    BY <1>3, TakeRestPlanned
<1>4. CASE Walk
    BY <1>4, WalkPlanned
<1>5. CASE Step
    BY <1>5, StepPlanned
<1>6. CASE CascadeDone
    BY <1>6, CascadeDonePlanned
<1>7. CASE \E b \in Buckets : Cascade(b)
    BY <1>7, CascadePlanned
<1>8. CASE Expire
    BY <1>8, ExpirePlanned
<1>9. CASE TickDone
    BY <1>9, TickDonePlanned
<1> QED BY <1>1, <1>2, <1>3, <1>4, <1>5, <1>6, <1>7, <1>8, <1>9 DEF RunTimers

\* Every step of threads that keep apart keeps to the plan.
LEMMA NextRace == RaceIInv /\ [RaceNext /\ Apart']_raceVars => RaceIInv'
<1> SUFFICES ASSUME RaceIInv, [RaceNext /\ Apart']_raceVars PROVE RaceIInv'
    OBVIOUS
<1>1. ControlInv /\ Apart /\ Planned
    BY Parts
<1>2. ControlInv'
    BY <1>1, NextControl
<1>3. Apart'
    <2>1. CASE UNCHANGED raceVars
        BY <1>1, <2>1 DEF raceVars, vars, Apart, Relied
    <2> QED BY <2>1
<1>4. CASE UNCHANGED raceVars
    BY <1>1, <1>4, StillPlanned, <1>2, <1>3 DEF RaceIInv, Planned
<1>5. CASE RunTimers
    BY <1>1, <1>2, <1>3, <1>5, WorkPlanned DEF RaceIInv, Planned
<1>6. ASSUME NEW th \in Threads,
             \/ Store(th)
             \/ Check(th)
             \/ Leave(th)
             \/ \E b \in Buckets : File(th, b)
             \/ \E f \in Calls, t \in Timers : Enter(th, f, t)
      PROVE  Planned'
    <2>1. CASE Store(th)
        BY <1>1, <2>1, StorePlanned
    <2>2. CASE Check(th)
        BY <1>1, <1>2, <1>3, <2>2, CheckPlanned
    <2>3. CASE Leave(th)
        BY <1>1, <2>3, LeavePlanned
    <2>4. CASE \E b \in Buckets : File(th, b)
        BY <1>1, <1>2, <1>3, <2>4, FilePlanned
    <2>5. CASE \E f \in Calls, t \in Timers : Enter(th, f, t)
        BY <1>1, <2>5, EnterPlanned
    <2> QED BY <1>6, <2>1, <2>2, <2>3, <2>4, <2>5
<1> QED BY <1>2, <1>3, <1>4, <1>5, <1>6 DEF RaceNext, RaceIInv, Planned

\* The threads keep to the plan for as long as they keep apart.
THEOREM RacePlanned == ApartSpec => []RaceIInv
<1>1. RaceInit => RaceIInv
    BY InitControl, InitPlanned, Parts
<1>2. RaceIInv /\ [RaceNext /\ Apart']_raceVars => RaceIInv'
    BY NextRace
<1> QED BY <1>1, <1>2, PTL DEF ApartSpec
-----------------------------------------------------------------------------
(***************************************************************************)
(* What the plan says of nodes that no thread works at.                    *)
(***************************************************************************)
\* A node at rest has the pointers of the plan.
LEMMA Resting ==
    ASSUME ControlInv, PlaceInv, QueueInv, Apart, NEW v, Expects(v), NEW n \in Nodes,
           \A th \in Threads : n \notin Relied(th)
    PROVE  mem.next[n] = v.next[n] /\ mem.prev[n] = v.prev[n]
<1>1. stores \in [Threads -> Seq(Assignments)] /\ Worker \in Threads
    BY NodesOfTheRace DEF ControlInv
<1>2. \A x \in Queued(stores) : x.node # n
    BY <1>1, QueueRelied DEF Queued
<1>3. n \notin LooseNext
    <2>1. Walking => TvList \in Relied(Worker)
        BY WalkRelied
    <2> QED BY <1>1, <2>1 DEF LooseNext
<1>4. n \notin LoosePrev
    <2>1. Walking => FirstOf(TvList) \in Relied(Worker)
        BY WalkRelied
    <2>2. pc[Worker] = "take" => FirstOf(taken[1]) \in Relied(Worker)
        BY TakeRelied
    <2> QED BY <1>1, <2>1, <2>2 DEF LoosePrev
<1>5. SettlesTo(mem, stores, "next", n, v.next[n]) /\ SettlesTo(mem, stores, "prev", n, v.prev[n])
    BY <1>3, <1>4 DEF Expects, Settles
<1>6. mem["next"] = mem.next /\ mem["prev"] = mem.prev
    BY MemoryFields DEF ControlInv
<1> QED BY <1>2, <1>5, <1>6 DEF SettlesTo

\* The lists at rest are rings.
LEMMA RingsFollow == RaceIInv => RaceInv
<1> SUFFICES ASSUME RaceIInv PROVE RingsAtRest
    BY DEF RaceInv, RaceIInv, ControlInv
<1>1. PICK v \in Memory : Expects(v)
    BY DEF RaceIInv
<1>2. ControlInv /\ PlaceInv /\ QueueInv /\ Apart
    BY DEF RaceIInv
<1>3. SUFFICES ASSUME NEW h \in live, AtRest({h} \cup Range(seq[h]))
               PROVE  IsRing(mem, h, seq[h])
    BY DEF RingsAtRest
<1>4. Holds(v, seq, Used) /\ h \in Used
    BY <1>1 DEF Expects, Used
<1>5. /\ Lists(seq, Used) /\ Ring(v, h, seq[h]) /\ h \in Heads /\ h \in Nodes
      /\ seq[h] \in Seq(Entries) /\ Len(seq[h]) \in Nat
    BY <1>4, ListsTypes DEF Holds, Nodes
<1>6. ASSUME NEW i \in Int
      PROVE  /\ mem.next[NodeAt(h, seq[h], i)] = v.next[NodeAt(h, seq[h], i)]
             /\ mem.prev[NodeAt(h, seq[h], i)] = v.prev[NodeAt(h, seq[h], i)]
    <2>1. PICK n : n = NodeAt(h, seq[h], i)
        OBVIOUS
    <2>2. n \in Nodes
        BY <1>5, <2>1, Neighbours
    <2>3. n \in {h} \cup Range(seq[h])
        BY <1>5, <2>1 DEF NodeAt, Range
    <2>4. \A th \in Threads : n \notin Relied(th)
        BY <1>3, <2>3 DEF AtRest
    <2> QED BY <1>1, <1>2, <2>1, <2>2, <2>4, Resting
<1>7. Ring(mem, h, seq[h])
    <2>1. \A i \in 0 .. Len(seq[h]) + 1 :
              /\ mem.next[NodeAt(h, seq[h], i)] = v.next[NodeAt(h, seq[h], i)]
              /\ mem.prev[NodeAt(h, seq[h], i)] = v.prev[NodeAt(h, seq[h], i)]
        BY <1>5, <1>6
    <2> QED BY <1>5, <2>1, Frame
<1> QED BY <1>5, <1>7, RingIs

\* A timer is on a list of the callers' when one of them has it.
LEMMA OnIs ==
    ASSUME NEW q \in [Heads -> Seq(Entries)], NEW t
    PROVE  t \in On(q) <=> \E h \in Heads : t \in Range(q[h])
<1>1. \A h \in Heads : DOMAIN q[h] = 1 .. Len(q[h])
    OBVIOUS
<1>2. ASSUME t \in On(q) PROVE \E h \in Heads : t \in Range(q[h])
    <2>1. PICK h \in Heads : \E k \in 1 .. Len(q[h]) : t = q[h][k]
        BY <1>2, Placed
    <2> QED BY <1>1, <2>1 DEF Range
<1>3. ASSUME NEW h \in Heads, t \in Range(q[h]) PROVE t \in On(q)
    BY <1>1, <1>3 DEF On, Range
<1> QED BY <1>2, <1>3

\* timer_pending tells the truth about timers at rest.
LEMMA PendingFollows == RaceIInv => PendingAtRest /\ GoneIsGone
<1> SUFFICES ASSUME RaceIInv PROVE PendingAtRest /\ GoneIsGone
    OBVIOUS
<1>1. PICK v \in Memory : Expects(v)
    BY DEF RaceIInv
<1>2. ControlInv /\ PlaceInv /\ QueueInv /\ Apart
    BY DEF RaceIInv
<1>3. /\ Holds(v, seq, Used) /\ seq \in [Heads -> Seq(Entries)]
      /\ stores \in [Threads -> Seq(Assignments)]
    BY <1>1, <1>2 DEF Expects, Holds, Lists, ControlInv
<1>4. ASSUME NEW t \in Timers, AtRest({t}) PROVE timer_pending(t) <=> t \in On(seq)
    <2>1. t \in Nodes /\ NULL \notin Nodes /\ \A th \in Threads : t \notin Relied(th)
        BY <1>4, NodesOfTheRace DEF AtRest
    <2>2. mem.next[t] = v.next[t]
        BY <1>1, <1>2, <2>1, Resting
    <2>3. ASSUME t \in On(seq) PROVE v.next[t] \in Nodes
        BY <1>3, <2>3, NextOnList
    <2>4. ASSUME t \notin On(seq) PROVE v.next[t] = NULL
        <3>1. \A th \in Threads : ~ (pc[th] = "file" /\ timer[th] = t)
            BY <1>3, <2>1, QueueRelied
        <3> QED BY <1>1, <2>4, <3>1 DEF Expects
    <2> QED BY <2>1, <2>2, <2>3, <2>4 DEF timer_pending
<1>5. PendingAtRest
    BY <1>3, <1>4, OnIs DEF PendingAtRest
<1>6. GoneIsGone
    <2>1. gone \subseteq Timers
        BY <1>2 DEF ControlInv, RaceTypeOK
    <2> QED BY <1>2, <1>4, <2>1 DEF GoneIsGone, PlaceInv
<1> QED BY <1>5, <1>6

\* The cascade's cursor and look-ahead, and the pointers ahead of them.
LEMMA CascadeFollows == RaceIInv => CascadeReachesAll
<1> DEFINE left == seq[TvList] \o <<TvList>>
           ahead == [cascade |-> <<timer[Worker], tmp>>, step |-> <<tmp>>]
<1> SUFFICES ASSUME RaceIInv, pc[Worker] \in DOMAIN ahead,
                    \A c \in Clients : Relied(c) \cap Range(left) = {}
             PROVE  /\ \A i \in DOMAIN ahead[pc[Worker]] \cap DOMAIN left :
                          ahead[pc[Worker]][i] = left[i]
                    /\ \A i \in 1 .. Len(left) - 1 : mem.next[left[i]] = left[i + 1]
    BY DEF CascadeReachesAll
<1>1. PICK v \in Memory : Expects(v)
    BY DEF RaceIInv
<1>2. ControlInv /\ PlaceInv /\ QueueInv /\ Apart
    BY DEF RaceIInv
<1>3. pc[Worker] = "cascade" \/ pc[Worker] = "step"
    OBVIOUS
<1>4. /\ Holds(v, seq, Used) /\ TvList \in Used /\ TvList \in Heads
      /\ LooseNext = {TvList} /\ Settles(v, mem, stores, LooseNext, LoosePrev)
      /\ stores \in [Threads -> Seq(Assignments)]
    BY <1>1, <1>2, <1>3, ThreadsAssumption
       DEF Expects, Used, Walking, LooseNext, ControlInv
<1>5. PICK s \in Seq(Entries) : s = seq[TvList]
    BY <1>4, ListsTypes DEF Holds
<1>6. /\ Ring(v, TvList, s) /\ Len(s) \in Nat
      /\ \A i \in 1 .. Len(s) : s[i] \in Entries /\ s[i] \in Nodes /\ s[i] # TvList
    BY <1>4, <1>5, ListsTypes, NodesAssumption DEF Holds, Nodes
<1>7. PICK l : l = s \o <<TvList>>
    OBVIOUS
<1>8. /\ Len(l) = Len(s) + 1 /\ DOMAIN l = 1 .. Len(s) + 1
      /\ \A i \in 1 .. Len(s) + 1 : l[i] = NodeAt(TvList, s, i)
    <2>1. s \in Seq(Nodes) /\ TvList \in Nodes
        BY <1>4, <1>5, <1>6 DEF Nodes
    <2>2. /\ l \in Seq(Nodes) /\ Len(l) = Len(s) + 1
          /\ \A i \in 1 .. Len(s) : l[i] = s[i]
          /\ l[Len(s) + 1] = TvList
        BY <1>6, <1>7, <2>1, OneMore
    <2>3. DOMAIN l = 1 .. Len(l)
        BY <2>2
    <2> QED BY <1>6, <2>2, <2>3 DEF NodeAt
<1>9. left = l
    BY <1>5, <1>7
<1>10. \A i \in DOMAIN ahead[pc[Worker]] \cap DOMAIN l : ahead[pc[Worker]][i] = l[i]
    <2>1. CASE pc[Worker] = "cascade"
        <3>1. DOMAIN ahead[pc[Worker]] = {1, 2} /\ ahead[pc[Worker]] = <<timer[Worker], tmp>>
            BY <2>1
        <3>2. timer[Worker] = NodeAt(TvList, s, 1)
            BY <1>2, <1>5, <2>1 DEF PlaceInv, FirstOf
        <3>3. 2 \in DOMAIN l => tmp = NodeAt(TvList, s, 2)
            BY <1>2, <1>5, <1>6, <1>8, <2>1 DEF PlaceInv
        <3> QED BY <1>8, <3>1, <3>2, <3>3
    <2>2. CASE pc[Worker] = "step"
        <3>1. DOMAIN ahead[pc[Worker]] = {1} /\ ahead[pc[Worker]] = <<tmp>>
            BY <2>2
        <3>2. tmp = NodeAt(TvList, s, 1)
            BY <1>2, <1>5, <2>2 DEF PlaceInv, FirstOf
        <3> QED BY <1>8, <3>1, <3>2
    <2> QED BY <1>3, <2>1, <2>2
<1>11. ASSUME NEW i \in 1 .. Len(l) - 1 PROVE mem.next[l[i]] = l[i + 1]
    <2>1. i \in 1 .. Len(s) /\ l[i] = s[i] /\ l[i + 1] = NodeAt(TvList, s, i + 1)
        BY <1>6, <1>8 DEF NodeAt
    <2>2. PICK n \in Nodes : n = s[i]
        BY <1>6, <2>1
    <2>3. v.next[n] = l[i + 1]
        BY <1>4, <1>6, <2>1, <2>2, Neighbours
    <2>4. SettlesTo(mem, stores, "next", n, v.next[n])
        BY <1>4, <1>6, <2>1, <2>2 DEF Settles
    <2>5. ASSUME NEW x \in Queued(stores) PROVE ~ (x.field = "next" /\ x.node = n)
        <3>1. PICK th \in Threads : x \in In(stores[th])
            BY DEF Queued
        <3>2. CASE th \in Clients
            <4>1. n \in Range(left)
                BY <1>8, <1>9, <2>1, <2>2 DEF Range
            <4>2. n \notin Relied(th)
                BY <3>2, <4>1
            <4> QED BY <1>4, <3>1, <4>2, QueueRelied
        <3>3. CASE th = Worker
            <4>1. CASE pc[Worker] = "cascade"
                <5>1. stores[Worker] = << >>
                    BY <1>2, <4>1 DEF ControlInv
                <5> QED BY <3>1, <3>3, <5>1 DEF In
            <4>2. CASE pc[Worker] = "step"
                BY <1>2, <1>5, <2>1, <2>2, <3>1, <3>3, <4>2 DEF QueueInv
            <4> QED BY <1>3, <4>1, <4>2
        <3> QED BY <3>2, <3>3 DEF Threads
    <2>6. mem["next"] = mem.next
        BY <1>2, MemoryFields DEF ControlInv
    <2> QED BY <2>1, <2>2, <2>3, <2>4, <2>5, <2>6 DEF SettlesTo
<1> QED BY <1>9, <1>10, <1>11
-----------------------------------------------------------------------------
\* Threads that keep apart: whatever the order in which the assignments of
\* the clients' calls and of the worker reach the memory, a list in use that no
\* thread is working on is a ring with the timers the calls have put there, in
\* the order of the calls.
THEOREM RaceRings == ApartSpec => []RaceInv
BY RacePlanned, RingsFollow, PTL

\* No thread writes through NULL or LIST_POISON2, and neither the cascade nor
\* the expiry takes a list head for a timer.
THEOREM RaceFaultless == ApartSpec => []NoFault
<1>1. RaceIInv => NoFault
    BY DEF RaceIInv
<1> QED BY <1>1, RacePlanned, PTL

\* timer_pending tells whether a timer that nobody is working on is on a list.
THEOREM RacePending == ApartSpec => []PendingAtRest
<1>1. RaceIInv => PendingAtRest
    BY PendingFollows
<1> QED BY <1>1, RacePlanned, PTL

\* What del_timer has deactivated stays off every list.
THEOREM RaceGone == ApartSpec => []GoneIsGone
<1>1. RaceIInv => GoneIsGone
    BY PendingFollows
<1> QED BY <1>1, RacePlanned, PTL

\* cascade reaches every timer of the bucket once.
THEOREM RaceCascade == ApartSpec => []CascadeReachesAll
BY RacePlanned, CascadeFollows, PTL
=============================================================================
