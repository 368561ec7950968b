---------------------------- MODULE RoundJiffies ----------------------------
(***************************************************************************)
(* round_jiffies and its seven variants of src/timer.c: a timeout is moved *)
(* to a whole second so that timers expire together.  jiffies is volatile  *)
(* and the worker may advance it between the reads of one call, so a call  *)
(* takes a step per read.                                                  *)
(***************************************************************************)
EXTENDS Integers

CONSTANTS
    HZ,           \* jiffies in a second (100 in the code)
    WORD,         \* 2^(bits of unsigned long)
    JIFFIES_MAX,  \* where the clock saturates
    Cpus,         \* processor numbers, the skew of the rounding
    Starts,       \* values of jiffies at the start
    Advances,     \* ticks the clock may gain at once
    Spans         \* timeouts asked for lie this far ahead

ASSUME RoundAssumption ==
    /\ HZ \in Nat /\ HZ >= 4   \* a quarter of a second is a jiffy at least
    /\ WORD \in Nat \ {0}
    /\ JIFFIES_MAX \in Nat
    /\ Cpus \subseteq Nat
    /\ Starts \subseteq 0 .. JIFFIES_MAX
    /\ Advances \subseteq Nat \ {0}
    /\ Spans \subseteq Nat
    /\ \A c \in Cpus, d \in Spans : JIFFIES_MAX + d + 3 * c + HZ < WORD

VARIABLES
    jiffies,  \* the clock
    roundPc,  \* idle, reads (jiffies is still to be read) or done
    call,     \* the arguments and the locals of the call
    result    \* what the call returned

roundVars == <<jiffies, roundPc, call, result>>

\* Mutant: rounds down even if it is told to round up.
RoundedDown(j, cpu, force_up) ==
    LET skewed == (j + cpu * 3) % WORD
        rem == skewed % HZ
        whole == IF rem < HZ \div 4 THEN skewed - rem
                                    ELSE (skewed - rem + HZ) % WORD
    IN  (whole - cpu * 3) % WORD

\* round_jiffies_common up to its read of jiffies.
Rounded(j, cpu, force_up) ==
    LET skewed == (j + cpu * 3) % WORD
        rem == skewed % HZ
        whole == IF rem < HZ \div 4 /\ ~ force_up
                 THEN skewed - rem
                 ELSE (skewed - rem + HZ) % WORD
    IN  (whole - cpu * 3) % WORD

RoundCalls == [j : 0 .. WORD - 1, j0 : 0 .. WORD - 1, cpu : Cpus,
               force_up : BOOLEAN]

NoCall == [j |-> 0, j0 |-> 0, cpu |-> 0, force_up |-> FALSE]

RoundInit ==
    /\ jiffies \in Starts
    /\ roundPc = "idle"
    /\ call = NoCall
    /\ result = 0

Tick(k) ==
    /\ jiffies + k <= JIFFIES_MAX
    /\ jiffies' = jiffies + k
    /\ UNCHANGED <<roundPc, call, result>>

\* round_jiffies and the other functions of an absolute timeout.
Absolute(d, cpu, up) ==
    /\ roundPc = "idle"
    /\ call' = [j |-> jiffies + d, j0 |-> 0, cpu |-> cpu, force_up |-> up]
    /\ roundPc' = "reads"
    /\ UNCHANGED <<jiffies, result>>

\* The relative functions read jiffies once, into j0.
Relative(d, cpu, up) ==
    /\ roundPc = "idle"
    /\ call' = [j |-> (d + jiffies) % WORD, j0 |-> jiffies, cpu |-> cpu,
                force_up |-> up]
    /\ roundPc' = "reads"
    /\ UNCHANGED <<jiffies, result>>

\* round_jiffies and __round_jiffies, and what they are with _relative.
RoundEither(d, cpu) == Absolute(d, cpu, FALSE) \/ Relative(d, cpu, FALSE)

\* The same with _up.
RoundUp(d, cpu) == Absolute(d, cpu, TRUE) \/ Relative(d, cpu, TRUE)

\* Mutants: without the check against jiffies; the same with a signed result;
\* the relative functions read jiffies again where they should use j0.
ReturnRounded ==
    /\ roundPc = "reads"
    /\ result' = (Rounded(call.j, call.cpu, call.force_up) - call.j0) % WORD
    /\ roundPc' = "done"
    /\ UNCHANGED <<jiffies, call>>

ReturnSigned ==
    /\ roundPc = "reads"
    /\ result' = Rounded(call.j, call.cpu, call.force_up) - call.j0
    /\ roundPc' = "done"
    /\ UNCHANGED <<jiffies, call>>

ReturnRereads ==
    /\ roundPc = "reads"
    /\ LET r == Rounded(call.j, call.cpu, call.force_up)
       IN  result' = ((IF r <= jiffies THEN call.j ELSE r)
                         - (IF call.j0 = 0 THEN 0 ELSE jiffies)) % WORD
    /\ roundPc' = "done"
    /\ UNCHANGED <<jiffies, call>>

\* A rounded timeout that is not ahead of jiffies gives way to the original.
RoundReturn ==
    /\ roundPc = "reads"
    /\ LET r == Rounded(call.j, call.cpu, call.force_up)
       IN  result' = ((IF r <= jiffies THEN call.j ELSE r) - call.j0) % WORD
    /\ roundPc' = "done"
    /\ UNCHANGED <<jiffies, call>>

RoundLeave ==
    /\ roundPc = "done"
    /\ roundPc' = "idle"
    /\ call' = NoCall
    /\ result' = 0
    /\ UNCHANGED jiffies

RoundNext ==
    \/ \E k \in Advances : Tick(k)
    \/ \E d \in Spans, cpu \in Cpus : RoundEither(d, cpu) \/ RoundUp(d, cpu)
    \/ RoundReturn
    \/ RoundLeave

RoundSpec == RoundInit /\ [][RoundNext]_roundVars
-----------------------------------------------------------------------------
(***************************************************************************)
(* Properties.                                                             *)
(***************************************************************************)
\* The system has been up for a second when the functions are called: before,
\* the skew of a processor may be taken from less than it.
UpForASecond == \A j \in Starts : j >= HZ

\* The type invariant.
RoundTypeOK ==
    /\ jiffies \in 0 .. JIFFIES_MAX
    /\ roundPc \in {"idle", "reads", "done"}
    /\ call \in RoundCalls \cup {NoCall}
    /\ result \in 0 .. WORD - 1

\* The absolute time a result stands for.
Target == (result + call.j0) % WORD

\* A timeout is moved by less than a quarter of a second towards the present
\* and by no more than a second away from it, and the functions that round up
\* never make it earlier.
StaysNear ==
    roundPc = "done" =>
        /\ Target - call.j \in 1 - HZ .. HZ
        /\ Target > call.j - (HZ \div 4)
        /\ call.force_up => Target >= call.j

\* Timers expire together: the result is a whole second, skewed by the
\* processor, or else the caller's own timeout, which it stays only if the
\* whole second is already over.
TogetherOrOver ==
    roundPc = "done" =>
        \/ (Target + 3 * call.cpu) % HZ = 0
        \/ /\ Target = call.j
           /\ Rounded(call.j, call.cpu, call.force_up) <= jiffies

\* Rounding eats no timeout: when the call computes its result, a timeout
\* that is still ahead stays ahead, however far the clock went meanwhile.
NotEaten ==
    [][RoundReturn => (call.j > jiffies => Target' > jiffies)]_roundVars
-----------------------------------------------------------------------------
\* What holds within a call of a system that has been up for a second: no
\* sum or difference wraps, and the result is the rounded timeout or the
\* caller's own.
RoundInv ==
    /\ RoundTypeOK
    /\ jiffies >= HZ
    /\ roundPc # "idle" =>
          /\ call.j >= HZ /\ call.j + 3 * call.cpu + HZ < WORD
          /\ call.j0 <= jiffies /\ call.j0 <= call.j
    /\ roundPc = "done" =>
          \/ /\ Target = Rounded(call.j, call.cpu, call.force_up)
          \/ /\ Target = call.j
             /\ Rounded(call.j, call.cpu, call.force_up) <= jiffies
=============================================================================
