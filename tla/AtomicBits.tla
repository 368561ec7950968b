----------------------------- MODULE AtomicBits -----------------------------
(***************************************************************************)
(* What callers of set_mask_bits and bit_clear_unless rely on: each call   *)
(* takes effect at one moment between its start and its return, and        *)
(* returns what that moment gave.                                          *)
(***************************************************************************)
CONSTANTS Threads, Bits, Ops

VARIABLES
    word,     \* the shared word, a set of bits
    called,   \* the operations that have started and not taken effect
    result    \* what the others have to return: << >> or <<value>>

atomicVars == <<word, called, result>>

NoOp == [kind |-> "none"]

\* The word after op, and what the macro gives.
After(op, w) ==
    IF op.kind = "set" THEN (w \ op.mask) \cup op.bits
    ELSE IF op.test \cap w = {} THEN w \ op.mask
    ELSE w

Gives(op, w) ==
    IF op.kind = "set" THEN After(op, w) ELSE op.test \cap w = {}

AtomicInit ==
    /\ word \in SUBSET Bits
    /\ called = [th \in Threads |-> NoOp]
    /\ result = [th \in Threads |-> <<>>]

Start(th, op) ==
    /\ called[th] = NoOp /\ result[th] = <<>>
    /\ called' = [called EXCEPT ![th] = op]
    /\ UNCHANGED <<word, result>>

TakeEffect(th) ==
    /\ called[th] # NoOp
    /\ word' = After(called[th], word)
    /\ result' = [result EXCEPT ![th] = <<Gives(called[th], word)>>]
    /\ called' = [called EXCEPT ![th] = NoOp]

Finish(th) ==
    /\ result[th] # <<>>
    /\ result' = [result EXCEPT ![th] = <<>>]
    /\ UNCHANGED <<word, called>>

AtomicNext ==
    \E th \in Threads :
        \/ \E op \in Ops : Start(th, op)
        \/ TakeEffect(th)
        \/ Finish(th)

AtomicSpec == AtomicInit /\ [][AtomicNext]_atomicVars
=============================================================================
