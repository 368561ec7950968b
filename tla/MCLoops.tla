------------------------------- MODULE MCLoops -------------------------------
(***************************************************************************)
(* The calls that take several steps: the divisions by loops, the times of *)
(* time64.h, the loops round cmpxchg and the rounding of timeouts against  *)
(* a clock that goes on.  They share nothing, so a behaviour is of one of  *)
(* the four.                                                               *)
(***************************************************************************)
EXTENDS Div64, Timespec64, MaskBits, RoundJiffies

VARIABLE part   \* which of them is called

\* Calls that set, clear and test the same bits.
MCOps ==
    {[kind |-> "set", mask |-> {"x"}, bits |-> {"y"}],
     [kind |-> "clear", mask |-> {"x"}, test |-> {"y"}],
     [kind |-> "clear", mask |-> {"y"}, test |-> {"x"}]}

\* Timeouts of up to two and a half seconds.
Ahead == 0 .. 40

LoopsInit ==
    /\ part \in {"div", "time", "mask", "round"}
    /\ DivInit /\ TsInit /\ MaskInit /\ RoundInit
    /\ part # "mask" => word = {}
    /\ part # "round" => \A j \in Starts : jiffies <= j

LoopsNext ==
    /\ UNCHANGED part
    /\ \/ part = "div" /\ DivNext /\ UNCHANGED <<tsVars, maskVars, roundVars>>
       \/ part = "time" /\ TsNext /\ UNCHANGED <<divVars, maskVars, roundVars>>
       \/ part = "mask" /\ MaskNext /\ UNCHANGED <<divVars, tsVars, roundVars>>
       \/ part = "round" /\ RoundNext /\ UNCHANGED <<divVars, tsVars, maskVars>>

\* The fairness of the four; a part that is not called is idle.
LoopsSpec ==
    /\ LoopsInit
    /\ [][LoopsNext]_<<part, divVars, tsVars, maskVars, roundVars>>
    /\ WF_divVars(Divide)
    /\ WF_tsVars(Down \/ Up \/ Store)
    /\ \A th \in Threads : WF_maskVars(Proceed(th))

\* The calls whose loops nobody disturbs return: those of Div64 and of
\* Timespec64.
LoopsReturn == Terminates /\ CallsReturn
=============================================================================
