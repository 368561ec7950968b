------------------------------ MODULE MaskBits ------------------------------
(***************************************************************************)
(* set_mask_bits and bit_clear_unless of src/uki/bitops.h: threads that    *)
(* change bits of one word without a lock, by reading it, computing the    *)
(* new value and storing that if the word has not changed (cmpxchg, which  *)
(* the repository uses and leaves to the machine).                         *)
(***************************************************************************)
CONSTANTS
    Threads,
    Bits,
    Ops    \* the calls the threads make, with their arguments

MaskCalls ==
    [kind : {"set"}, mask : SUBSET Bits, bits : SUBSET Bits]
        \cup [kind : {"clear"}, mask : SUBSET Bits, test : SUBSET Bits]

ASSUME OpsAssumption == Ops \subseteq MaskCalls

VARIABLES
    word,   \* *ptr
    maskPc, \* "idle", "read", "swap", "return"
    op,     \* the call each thread is in
    old,    \* its local variable old
    given   \* the value of the macro: << >> or <<value>>

maskVars == <<word, maskPc, op, old, given>>

NoOp == [kind |-> "none"]

MaskInit ==
    /\ word \in SUBSET Bits
    /\ maskPc = [th \in Threads |-> "idle"]
    /\ op = [th \in Threads |-> NoOp]
    /\ old = [th \in Threads |-> {}]
    /\ given = [th \in Threads |-> <<>>]

Enter(th, o) ==
    /\ maskPc[th] = "idle"
    /\ maskPc' = [maskPc EXCEPT ![th] = "read"]
    /\ op' = [op EXCEPT ![th] = o]
    /\ UNCHANGED <<word, old, given>>

\* old & test: bit_clear_unless leaves its loop without a cmpxchg.
Refused(th, w) == op[th].kind = "clear" /\ op[th].test \cap w # {}

\* ACCESS_ONCE(*ptr)
Read(th) ==
    /\ maskPc[th] = "read"
    /\ old' = [old EXCEPT ![th] = word]
    /\ IF Refused(th, word)
       THEN /\ maskPc' = [maskPc EXCEPT ![th] = "return"]
            /\ given' = [given EXCEPT ![th] = <<FALSE>>]
       ELSE maskPc' = [maskPc EXCEPT ![th] = "swap"] /\ UNCHANGED given
    /\ UNCHANGED <<word, op>>

\* The local variable new.
New(th) == IF op[th].kind = "set" THEN (old[th] \ op[th].mask) \cup op[th].bits
                                  ELSE old[th] \ op[th].mask

\* What the macro gives after a cmpxchg that stored.
Value(th) == IF op[th].kind = "set" THEN <<New(th)>> ELSE <<TRUE>>

\* Mutants: a store instead of a cmpxchg; no second try.
SwapBlind(th) ==
    /\ maskPc[th] = "swap"
    /\ word' = New(th)
    /\ maskPc' = [maskPc EXCEPT ![th] = "return"]
    /\ given' = [given EXCEPT ![th] = Value(th)]
    /\ UNCHANGED <<op, old>>

SwapAgain(th) ==
    /\ maskPc[th] = "swap"
    /\ IF word = old[th]
       THEN /\ word' = New(th)
            /\ maskPc' = [maskPc EXCEPT ![th] = "return"]
            /\ given' = [given EXCEPT ![th] = Value(th)]
       ELSE UNCHANGED <<word, maskPc, given>>
    /\ UNCHANGED <<op, old>>

\* cmpxchg(ptr, old, new) and the loop's condition.
Swap(th) ==
    /\ maskPc[th] = "swap"
    /\ IF word = old[th]
       THEN /\ word' = New(th)
            /\ maskPc' = [maskPc EXCEPT ![th] = "return"]
            /\ given' = [given EXCEPT ![th] = Value(th)]
       ELSE maskPc' = [maskPc EXCEPT ![th] = "read"] /\ UNCHANGED <<word, given>>
    /\ UNCHANGED <<op, old>>

MaskLeave(th) ==
    /\ maskPc[th] = "return"
    /\ maskPc' = [maskPc EXCEPT ![th] = "idle"]
    /\ op' = [op EXCEPT ![th] = NoOp]
    /\ old' = [old EXCEPT ![th] = {}]
    /\ given' = [given EXCEPT ![th] = <<>>]
    /\ UNCHANGED word

Proceed(th) == Read(th) \/ Swap(th) \/ MaskLeave(th)

MaskNext == \E th \in Threads : (\E o \in Ops : Enter(th, o)) \/ Proceed(th)

\* A thread in a macro goes on running.
MaskSpec ==
    /\ MaskInit /\ [][MaskNext]_maskVars
    /\ \A th \in Threads : WF_maskVars(Proceed(th))
-----------------------------------------------------------------------------
\* A call has taken effect when it is about to return.
Atomic == INSTANCE AtomicBits WITH
    called <- [th \in Threads |->
                  IF maskPc[th] \in {"read", "swap"} THEN op[th] ELSE NoOp],
    result <- [th \in Threads |->
                  IF maskPc[th] = "return" THEN given[th] ELSE <<>>]

\* No change of one thread is undone or overlooked by another: the macros
\* implement operations that take effect at one moment, although the word may
\* change, and change back, between the reading and the storing.
ImplementsAtomic == Atomic!AtomicSpec

\* Threads may make each other try again, but not all of them for ever: while
\* some thread is in a call, some call returns.
SomeCallReturns ==
    (\E th \in Threads : maskPc[th] # "idle") ~> (\E th \in Threads : maskPc[th] = "return")
=============================================================================
