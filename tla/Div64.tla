------------------------------- MODULE Div64 -------------------------------
(***************************************************************************)
(* The two loops that divide: __div64_32 of src/div64.c (shift and         *)
(* subtract) and __iter_div_u64_rem of src/uki/math64.h (subtract only).   *)
(* A u32 has Half values here, a u64 twice as many bits.                   *)
(***************************************************************************)
EXTENDS Integers

CONSTANT Half   \* 2^32 in the code

ASSUME WidthAssumption == Half \in Nat \ {0} /\ Half % 2 = 0

VARIABLES
    divPc,  \* "idle"; "double", "subtract", "divided" in __div64_32;
            \* "iterate", "iterated" in __iter_div_u64_rem
    n,      \* the dividend
    base,   \* the divisor
    rem, b, d, res

divVars == <<divPc, n, base, rem, b, d, res>>

Full == Half * Half

u32 == 0..(Half - 1)
u64 == 0..(Full - 1)

DivInit ==
    /\ divPc = "idle"
    /\ n = 0 /\ base = 1
    /\ rem = 0 /\ b = 0 /\ d = 0 /\ res = 0

\* Mutant: high << 32 in a u32, which loses the high word of the quotient.
Start32Cut(dividend, divisor) ==
    LET high == (dividend \div Half) \div divisor
    IN  /\ divPc = "idle"
        /\ divPc' = "double"
        /\ n' = dividend /\ base' = divisor
        /\ res' = (high * Half) % Half
        /\ rem' = dividend - high * divisor * Half
        /\ b' = divisor /\ d' = 1

\* Mutant: the part taken out of rem is computed before high is divided.
Start32Undivided(dividend, divisor) ==
    LET high == dividend \div Half
    IN  /\ divPc = "idle"
        /\ divPc' = "double"
        /\ n' = dividend /\ base' = divisor
        /\ res' = (high \div divisor) * Half
        /\ rem' = dividend - high * divisor * Half
        /\ b' = divisor /\ d' = 1

\* The entry of __div64_32 and "Reduce the thing a bit first": what the high
\* word alone gives, which is nothing if it is below the divisor.
Start32(dividend, divisor) ==
    LET high == (dividend \div Half) \div divisor
    IN  /\ divPc = "idle"
        /\ divPc' = "double"
        /\ n' = dividend /\ base' = divisor
        /\ res' = high * Half
        /\ rem' = dividend - high * divisor * Half
        /\ b' = divisor /\ d' = 1

\* The condition of the first loop, b seen as a signed number.
MayDouble == 0 < b /\ b < Full \div 2 /\ b < rem

Double ==
    /\ divPc = "double"
    /\ MayDouble
    /\ b' = (b + b) % Full /\ d' = (d + d) % Full
    /\ UNCHANGED <<divPc, n, base, rem, res>>

DoubleDone ==
    /\ divPc = "double"
    /\ ~ MayDouble
    /\ divPc' = "subtract"
    /\ UNCHANGED <<n, base, rem, b, d, res>>

\* Mutant: equal is not enough to subtract.
SubtractGreater ==
    /\ divPc = "subtract"
    /\ IF rem > b THEN rem' = rem - b /\ res' = (res + d) % Full
                  ELSE UNCHANGED <<rem, res>>
    /\ b' = b \div 2 /\ d' = d \div 2
    /\ divPc' = IF d' = 0 THEN "divided" ELSE "subtract"
    /\ UNCHANGED <<n, base>>

\* Mutant: d is rounded up when it is halved, and stays 1.
SubtractRounding ==
    /\ divPc = "subtract"
    /\ IF rem >= b THEN rem' = rem - b /\ res' = (res + d) % Full
                   ELSE UNCHANGED <<rem, res>>
    /\ b' = b \div 2 /\ d' = (d + 1) \div 2
    /\ divPc' = IF d' = 0 THEN "divided" ELSE "subtract"
    /\ UNCHANGED <<n, base>>

\* The body of the second loop and its condition.
Subtract ==
    /\ divPc = "subtract"
    /\ IF rem >= b THEN rem' = rem - b /\ res' = (res + d) % Full
                   ELSE UNCHANGED <<rem, res>>
    /\ b' = b \div 2 /\ d' = d \div 2
    /\ divPc' = IF d' = 0 THEN "divided" ELSE "subtract"
    /\ UNCHANGED <<n, base>>
-----------------------------------------------------------------------------
StartIter(dividend, divisor) ==
    /\ divPc = "idle"
    /\ divPc' = "iterate"
    /\ n' = dividend /\ base' = divisor
    /\ rem' = dividend /\ res' = 0
    /\ UNCHANGED <<b, d>>

Iterate ==
    /\ divPc = "iterate"
    /\ rem >= base
    /\ rem' = rem - base /\ res' = (res + 1) % Half
    /\ UNCHANGED <<divPc, n, base, b, d>>

IterateDone ==
    /\ divPc = "iterate"
    /\ rem < base
    /\ divPc' = "iterated"
    /\ UNCHANGED <<n, base, rem, b, d, res>>

DivReturn ==
    /\ divPc \in {"divided", "iterated"}
    /\ divPc' = "idle"
    /\ n' = 0 /\ base' = 1
    /\ rem' = 0 /\ b' = 0 /\ d' = 0 /\ res' = 0

Divide ==
    \/ Double \/ DoubleDone \/ Subtract
    \/ Iterate \/ IterateDone
    \/ DivReturn

\* A divisor of 0 is the caller's mistake: it traps in one function and
\* keeps the other one subtracting.
DivNext ==
    \/ \E dividend \in u64, divisor \in u32 \ {0} :
          Start32(dividend, divisor) \/ StartIter(dividend, divisor)
    \/ Divide

\* The functions run on the caller's thread without waiting for anything.
DivSpec == DivInit /\ [][DivNext]_divVars /\ WF_divVars(Divide)
-----------------------------------------------------------------------------
\* The type invariant: nothing grows out of its word.
DivTypeOK ==
    /\ divPc \in {"idle", "double", "subtract", "divided", "iterate", "iterated"}
    /\ n \in u64 /\ base \in u32 \ {0}
    /\ rem \in u64 /\ b \in u64 /\ d \in u64 /\ res \in u64

\* __div64_32 ends with the whole quotient and the remainder.
\* __iter_div_u64_rem returns its quotient in a u32: its dividends are "not
\* expected to be much bigger than divisor" (div64.c, 132).
QuotientAndRemainder ==
    /\ divPc = "divided" => res = n \div base /\ rem = n % base
    /\ divPc = "iterated" => res = (n \div base) % Half /\ rem = n % base

\* What keeps __div64_32 right: no step loses any of the dividend, b is d
\* divisors although it is doubled modulo 2^64 and halved by a shift, and
\* the first loop has doubled it far enough.
Conserved ==
    divPc \in {"double", "subtract"} =>
        /\ n = res * base + rem
        /\ b = base * d
        /\ divPc = "subtract" => rem < 2 * b

\* Both functions return, whatever the operands.
Terminates == divPc # "idle" ~> divPc = "idle"
=============================================================================
