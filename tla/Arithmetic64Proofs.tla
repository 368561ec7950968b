------------------------- MODULE Arithmetic64Proofs -------------------------
(***************************************************************************)
(* The loops of the 64-bit arithmetic.  Those that divide give quotient    *)
(* and remainder for words of every width, and nothing in them grows out   *)
(* of its word; those of set_normalized_timespec64 are exact for every     *)
(* length of a second and every size of a word.                            *)
(***************************************************************************)
EXTENDS Div64, Timespec64, TLAPS

(***************************************************************************)
(* The powers of two, as the least set of naturals that has 1 and doubles. *)
(***************************************************************************)
Powers ==
    {x \in Nat : \A S \in SUBSET Nat :
                     1 \in S /\ (\A y \in S : y + y \in S) => x \in S}

\* One is a power of two, and so is the double of one.
LEMMA PowersDouble ==
    /\ 1 \in Powers
    /\ \A x \in Powers : x \in Nat /\ x + x \in Powers
BY DEF Powers

\* A power of two is 1 or twice a power of two: the set of those that are is
\* one of the sets that Powers is the least of.
LEMMA PowersHalve ==
    ASSUME NEW x \in Powers, x # 1
    PROVE  \E y \in Powers : x = y + y
<1> DEFINE S == {p \in Powers : p = 1 \/ \E y \in Powers : p = y + y}
<1>1. S \in SUBSET Nat
    BY PowersDouble
<1>2. 1 \in S
    BY PowersDouble
<1>3. \A y \in S : y + y \in S
    BY PowersDouble
<1> HIDE DEF S
<1>4. x \in S
    BY <1>1, <1>2, <1>3 DEF Powers
<1> QED BY <1>4 DEF S

\* No power of two is 0.
LEMMA PowersPositive == \A x \in Powers : x > 0
<1> DEFINE S == {p \in Nat : p > 0}
<1>1. S \in SUBSET Nat /\ 1 \in S /\ \A y \in S : y + y \in S
    OBVIOUS
<1> HIDE DEF S
<1>2. \A x \in Powers : x \in S
    BY <1>1 DEF Powers
<1> QED BY <1>2 DEF S
-----------------------------------------------------------------------------
\* Quotient and remainder are the only numbers of their kind.
LEMMA DivUnique ==
    ASSUME NEW m \in Nat \ {0}, NEW q \in Nat, NEW r \in 0 .. m - 1
    PROVE  (q * m + r) \div m = q /\ (q * m + r) % m = r
<1> DEFINE x == q * m + r
           p == x \div m
           s == x % m
<1>1. x \in Nat
    OBVIOUS
<1>2. p \in Nat /\ s \in 0 .. m - 1 /\ x = m * p + s
    BY <1>1
<1>3. m * (q - p) = s - r
    BY <1>2
<1> HIDE DEF x, p, s
<1>4. q - p < 1
    <2>1. ASSUME q - p >= 1 PROVE m * (q - p) >= m
        BY <1>2, <2>1
    <2> QED BY <1>2, <1>3, <2>1
<1>5. q - p > -1
    <2>1. ASSUME q - p <= -1 PROVE m * (q - p) <= -m
        BY <1>2, <2>1
    <2> QED BY <1>2, <1>3, <2>1
<1>6. q = p
    BY <1>2, <1>4, <1>5
<1>7. r = s
    BY <1>2, <1>3, <1>6
<1> QED BY <1>6, <1>7 DEF x, p, s

\* What div and mod are.
LEMMA Division ==
    ASSUME NEW m \in Nat \ {0}, NEW x \in Nat
    PROVE  /\ x \div m \in Nat /\ x % m \in 0 .. m - 1
           /\ x = (x \div m) * m + (x % m)
OBVIOUS

\* A product is no smaller than its factor.
LEMMA TimesGrows ==
    ASSUME NEW m \in Nat \ {0}, NEW x \in Nat
    PROVE  x <= x * m
OBVIOUS

\* A counter modulo m counts modulo m.
LEMMA CountsModulo ==
    ASSUME NEW m \in Nat \ {0}, NEW q \in Nat
    PROVE  ((q % m) + 1) % m = (q + 1) % m
<1> DEFINE a == q \div m
           r == q % m
<1>1. a \in Nat /\ r \in 0 .. m - 1 /\ q = a * m + r
    BY Division
<1> HIDE DEF a, r
<1>2. CASE r + 1 < m
    <2>1. r + 1 \in 0 .. m - 1 /\ q + 1 = a * m + (r + 1)
        BY <1>1, <1>2
    <2>2. (q + 1) % m = r + 1
        BY <1>1, <2>1, DivUnique
    <2>3. (r + 1) % m = r + 1
        BY <1>1, <2>1
    <2> QED BY <2>2, <2>3 DEF r
<1>3. CASE ~ (r + 1 < m)
    <2>1. r + 1 = m
        BY <1>1, <1>3
    <2>2. (a + 1) * m = a * m + m
        BY <1>1
    <2>3. q + 1 = (a + 1) * m + 0 /\ a + 1 \in Nat /\ 0 \in 0 .. m - 1
        BY <1>1, <2>1, <2>2
    <2>4. (q + 1) % m = 0
        BY <2>3, DivUnique
    <2>5. m % m = 0
        <3>1. m = 1 * m + 0 /\ 0 \in 0 .. m - 1
            OBVIOUS
        <3> QED BY <3>1, DivUnique
    <2> QED BY <2>1, <2>4, <2>5 DEF r
<1> QED BY <1>2, <1>3

\* A double word has an even number of values, and a word fewer.
LEMMA Words ==
    /\ Half \in Nat \ {0} /\ Full \in Nat \ {0}
    /\ Half <= Full
    /\ 2 * (Full \div 2) = Full
<1>1. Half \in Nat \ {0} /\ Half % 2 = 0
    BY WidthAssumption
<1> DEFINE k == Half \div 2
<1>2. k \in Nat /\ Half = 2 * k
    BY <1>1
<1> HIDE DEF k
<1>3. Full \in Nat \ {0} /\ Half <= Full
    BY <1>1 DEF Full
<1>4. Full = 2 * (k * Half) /\ k * Half \in Nat
    BY <1>1, <1>2 DEF Full
<1>5. Full \div 2 = k * Half
    BY <1>4
<1> QED BY <1>1, <1>3, <1>4, <1>5

\* A value that fits in a double word is not cut.
LEMMA FitsFull ==
    ASSUME NEW x \in Nat, x < Full
    PROVE  x % Full = x
BY Words
-----------------------------------------------------------------------------
\* Beside Conserved, d is a power of two, so that the halving of b loses
\* nothing; the iterated subtraction has counted modulo a word; and what a
\* loop leaves behind is the result.
DivInv ==
    /\ DivTypeOK
    /\ Conserved
    /\ divPc \in {"double", "subtract"} => d \in Powers
    /\ divPc = "iterate" => \E q \in Nat : n = q * base + rem /\ res = q % Half
    /\ QuotientAndRemainder

\* The first state of a division.
LEMMA DivStarts == DivInit => DivInv
<1> SUFFICES ASSUME DivInit PROVE DivInv
    OBVIOUS
<1>1. 0 \in u64 /\ 1 \in u32
    BY Words, WidthAssumption DEF u64, u32
<1> QED BY <1>1 DEF DivInit, DivInv, DivTypeOK, Conserved, QuotientAndRemainder

\* The reduction by the high word: high divisors are taken out of the
\* dividend and their number put into the quotient.
LEMMA Reduced ==
    ASSUME NEW x \in u64, NEW m \in u32 \ {0}
    PROVE  LET high == (x \div Half) \div m IN
           /\ x - high * m * Half \in u64
           /\ high * Half \in u64
           /\ x = (high * Half) * m + (x - high * m * Half)
<1> DEFINE h == x \div Half
           high == h \div m
<1>1. x \in Nat /\ x < Full /\ m \in Nat \ {0} /\ Half \in Nat \ {0} /\ Full \in Nat
    BY Words DEF u64, u32
<1>2. h \in Nat /\ h * Half <= x
    <2>0. x \in Nat /\ Half \in Nat \ {0}
        BY <1>1
    <2>1. h \in Nat /\ x % Half \in 0 .. Half - 1 /\ x = h * Half + (x % Half)
        BY <2>0, Division
    <2>2. h * Half \in Nat
        BY <1>1, <2>1
    <2> HIDE DEF h
    <2> QED BY <1>1, <2>1, <2>2
<1> HIDE DEF h
<1>3. high \in Nat /\ high * m <= h
    <2>0. h \in Nat /\ m \in Nat \ {0}
        BY <1>1, <1>2
    <2>1. high \in Nat /\ h % m \in 0 .. m - 1 /\ h = high * m + (h % m)
        BY <2>0, Division
    <2>2. high * m \in Nat
        BY <1>1, <2>1
    <2> HIDE DEF high
    <2> QED BY <1>1, <1>2, <2>1, <2>2
<1> HIDE DEF high
<1>4. high * m \in Nat /\ high * m * Half <= h * Half
    BY <1>1, <1>2, <1>3
<1>5. high * m * Half \in Nat /\ high * m * Half <= x
    <2>1. h * Half \in Nat
        BY <1>1, <1>2
    <2>2. high * m * Half \in Nat
        BY <1>1, <1>4
    <2> QED BY <1>1, <1>2, <1>4, <2>1, <2>2
<1>6. high * Half \in Nat /\ (high * Half) * m = high * m * Half
    BY <1>1, <1>3
<1>7. high * Half <= high * m * Half
    BY <1>1, <1>6, TimesGrows
<1>8. high * Half < Full /\ x - high * m * Half \in 0 .. Full - 1
    BY <1>1, <1>5, <1>6, <1>7
<1>9. x = (high * Half) * m + (x - high * m * Half)
    BY <1>1, <1>5, <1>6
<1> QED BY <1>1, <1>6, <1>8, <1>9 DEF u64, high, h

\* Every step keeps DivInv.
LEMMA DivSteps == DivInv /\ [DivNext]_divVars => DivInv'
<1> SUFFICES ASSUME DivInv, [DivNext]_divVars PROVE DivInv'
    OBVIOUS
<1>0. /\ Half \in Nat \ {0} /\ Full \in Nat \ {0} /\ Half <= Full
      /\ n \in Nat /\ n < Full /\ base \in Nat \ {0} /\ base < Half
      /\ rem \in Nat /\ rem < Full /\ b \in Nat /\ b < Full
      /\ d \in Nat /\ d < Full /\ res \in Nat /\ res < Full
    BY Words DEF DivInv, DivTypeOK, u64, u32
<1>1. CASE UNCHANGED divVars
    BY <1>1 DEF divVars, DivInv, DivTypeOK, Conserved, QuotientAndRemainder
<1>2. ASSUME NEW dividend \in u64, NEW divisor \in u32 \ {0},
             Start32(dividend, divisor)
      PROVE  DivInv'
    <2>1. rem' \in u64 /\ res' \in u64 /\ n' = res' * base' + rem'
        BY <1>2, Reduced DEF Start32
    <2>2. /\ divPc' = "double" /\ n' = dividend /\ base' = divisor
          /\ b' = divisor /\ d' = 1
        BY <1>2 DEF Start32
    <2>3. divisor \in Nat \ {0} /\ b' \in u64 /\ d' \in u64
        BY <1>0, <2>2 DEF u64, u32
    <2>4. b' = base' * d'
        BY <2>2, <2>3
    <2> QED
        BY <2>1, <2>2, <2>3, <2>4, PowersDouble
        DEF DivInv, DivTypeOK, Conserved, QuotientAndRemainder
<1>3. CASE Double
    <2>1. /\ divPc = "double" /\ divPc' = divPc /\ b < Full \div 2
          /\ b' = (b + b) % Full /\ d' = (d + d) % Full
          /\ n' = n /\ base' = base /\ rem' = rem /\ res' = res
        BY <1>3 DEF Double, MayDouble
    <2>2. n = res * base + rem /\ b = base * d /\ d \in Powers
        BY <2>1 DEF DivInv, Conserved
    <2>3. d <= b
        BY <1>0, <2>2, TimesGrows
    <2>4. b + b < Full /\ d + d < Full
        BY <1>0, <2>1, <2>3, Words
    <2>5. b' = b + b /\ d' = d + d
        BY <1>0, <2>1, <2>4, FitsFull
    <2>6. b' = base' * d'
        BY <1>0, <2>1, <2>2, <2>5
    <2>7. b' \in u64 /\ d' \in u64
        BY <1>0, <2>4, <2>5 DEF u64
    <2>8. d' \in Powers
        BY <2>2, <2>5, PowersDouble
    <2> QED
        BY <2>1, <2>2, <2>6, <2>7, <2>8
        DEF DivInv, DivTypeOK, Conserved, QuotientAndRemainder
<1>4. CASE DoubleDone
    <2>1. /\ divPc = "double" /\ divPc' = "subtract" /\ ~ MayDouble
          /\ n' = n /\ base' = base /\ rem' = rem /\ b' = b /\ d' = d /\ res' = res
        BY <1>4 DEF DoubleDone
    <2>2. n = res * base + rem /\ b = base * d /\ d \in Powers
        BY <2>1 DEF DivInv, Conserved
    <2>3. b > 0
        <3>1. d > 0
            BY <2>2, PowersPositive
        <3> QED BY <1>0, <2>2, <3>1, TimesGrows
    <2>4. b >= Full \div 2 \/ b >= rem
        BY <1>0, <2>1, <2>3, Words DEF MayDouble
    <2>5. rem < 2 * b
        BY <1>0, <2>3, <2>4, Words
    <2> QED
        BY <2>1, <2>2, <2>5
        DEF DivInv, DivTypeOK, Conserved, QuotientAndRemainder
<1>5. CASE Subtract
    <2> DEFINE takes == rem >= b
    <2>1. /\ divPc = "subtract" /\ n' = n /\ base' = base
          /\ b' = b \div 2 /\ d' = d \div 2
          /\ divPc' = IF d' = 0 THEN "divided" ELSE "subtract"
          /\ takes => rem' = rem - b /\ res' = (res + d) % Full
          /\ ~ takes => rem' = rem /\ res' = res
        BY <1>5 DEF Subtract
    <2>2. n = res * base + rem /\ b = base * d /\ rem < 2 * b /\ d \in Powers
        BY <2>1 DEF DivInv, Conserved
    <2>3. /\ n = res' * base + rem' /\ rem' \in Nat /\ rem' < b
          /\ rem' \in u64 /\ res' \in u64 /\ res' \in Nat
        <3>1. CASE takes
            <4>1. rem' = rem - b /\ rem' \in Nat /\ rem' < b /\ rem' < Full
                BY <1>0, <2>1, <2>2, <3>1
            <4>2. (res + d) * base = res * base + b
                BY <1>0, <2>2
            <4>3. n = (res + d) * base + rem'
                BY <1>0, <2>2, <4>1, <4>2
            <4>4. res + d <= (res + d) * base
                BY <1>0, TimesGrows
            <4>5. res + d \in Nat /\ res + d < Full
                <5>1. (res + d) * base \in Nat
                    BY <1>0
                <5> QED BY <1>0, <4>1, <4>3, <4>4, <5>1
            <4>6. res' = res + d
                BY <2>1, <3>1, <4>5, FitsFull
            <4> QED BY <1>0, <4>1, <4>3, <4>5, <4>6 DEF u64
        <3>2. CASE ~ takes
            BY <1>0, <2>1, <2>2, <3>2 DEF u64
        <3> QED BY <3>1, <3>2
    <2> HIDE DEF takes
    <2>4. CASE d = 1
        <3>1. d' = 0 /\ b' \in u64 /\ d' \in u64 /\ divPc' = "divided"
            BY <1>0, <2>1, <2>4 DEF u64
        <3>2. b = base
            BY <1>0, <2>2, <2>4
        <3>3. rem' \in 0 .. base - 1
            BY <1>0, <2>3, <3>2
        <3>4. n \div base = res' /\ n % base = rem'
            BY <1>0, <2>3, <3>3, DivUnique
        <3> QED
            BY <2>1, <2>3, <3>1, <3>4
            DEF DivInv, DivTypeOK, Conserved, QuotientAndRemainder
    <2>5. CASE d # 1
        <3>1. PICK y \in Powers : d = y + y
            BY <2>2, <2>5, PowersHalve
        <3>2. y \in Nat /\ y > 0
            BY PowersDouble, PowersPositive
        <3>3. d' = y
            BY <2>1, <3>1, <3>2
        <3>4. b = 2 * (base * y) /\ base * y \in Nat
            BY <1>0, <2>2, <3>1, <3>2
        <3>5. b' = base * y
            BY <2>1, <3>4
        <3>6. rem' < 2 * b' /\ b' = base' * d' /\ divPc' = "subtract"
            BY <2>1, <2>3, <3>2, <3>3, <3>4, <3>5
        <3>7. b' \in u64 /\ d' \in u64
            BY <1>0, <3>1, <3>2, <3>3, <3>4, <3>5 DEF u64
        <3> QED
            BY <2>1, <2>3, <3>3, <3>6, <3>7
            DEF DivInv, DivTypeOK, Conserved, QuotientAndRemainder
    <2> QED BY <2>4, <2>5
<1>6. ASSUME NEW dividend \in u64, NEW divisor \in u32 \ {0},
             StartIter(dividend, divisor)
      PROVE  DivInv'
    <2>1. /\ divPc' = "iterate" /\ n' = dividend /\ base' = divisor
          /\ rem' = dividend /\ res' = 0 /\ b' = b /\ d' = d
        BY <1>6 DEF StartIter
    <2>2. dividend \in Nat /\ divisor \in Nat /\ 0 \in u64
        BY <1>0 DEF u64, u32
    <2>3. n' = 0 * base' + rem' /\ res' = 0 % Half
        BY <1>0, <2>1, <2>2
    <2>4. \E q \in Nat : n' = q * base' + rem' /\ res' = q % Half
        BY <2>3
    <2> QED
        BY <2>1, <2>2, <2>4
        DEF DivInv, DivTypeOK, Conserved, QuotientAndRemainder
<1>7. CASE Iterate
    <2>1. /\ divPc = "iterate" /\ rem >= base
          /\ rem' = rem - base /\ res' = (res + 1) % Half
          /\ divPc' = divPc /\ n' = n /\ base' = base /\ b' = b /\ d' = d
        BY <1>7 DEF Iterate
    <2>2. PICK q \in Nat : n = q * base + rem /\ res = q % Half
        BY <2>1 DEF DivInv
    <2>3. n = (q + 1) * base + rem'
        <3>1. (q + 1) * base = q * base + base
            BY <1>0
        <3> QED BY <1>0, <2>1, <2>2, <3>1
    <2>4. res' = (q + 1) % Half
        BY <1>0, <2>1, <2>2, CountsModulo
    <2>5. res' \in 0 .. Half - 1
        BY <1>0, <2>4
    <2>6. res' \in u64 /\ rem' \in u64
        BY <1>0, <2>1, <2>5 DEF u64
    <2>7. \E p \in Nat : n' = p * base' + rem' /\ res' = p % Half
        BY <2>1, <2>3, <2>4
    <2> QED
        BY <2>1, <2>6, <2>7
        DEF DivInv, DivTypeOK, Conserved, QuotientAndRemainder
<1>8. CASE IterateDone
    <2>1. /\ divPc = "iterate" /\ rem < base /\ divPc' = "iterated"
          /\ n' = n /\ base' = base /\ rem' = rem /\ b' = b /\ d' = d /\ res' = res
        BY <1>8 DEF IterateDone
    <2>2. PICK q \in Nat : n = q * base + rem /\ res = q % Half
        BY <2>1 DEF DivInv
    <2>3. rem \in 0 .. base - 1
        BY <1>0, <2>1
    <2>4. n \div base = q /\ n % base = rem
        BY <1>0, <2>2, <2>3, DivUnique
    <2> QED
        BY <2>1, <2>2, <2>4
        DEF DivInv, DivTypeOK, Conserved, QuotientAndRemainder
<1>9. CASE DivReturn
    <2>1. 0 \in u64 /\ 1 \in u32 \ {0}
        BY Words, WidthAssumption DEF u64, u32
    <2> QED
        BY <1>9, <2>1
        DEF DivReturn, DivInv, DivTypeOK, Conserved, QuotientAndRemainder
<1> QED
    BY <1>1, <1>2, <1>3, <1>4, <1>5, <1>6, <1>7, <1>8, <1>9 DEF DivNext, Divide

\* The inductive invariant of the loops.
LEMMA DivInvariance == DivSpec => []DivInv
BY DivStarts, DivSteps, PTL DEF DivSpec

\* __div64_32 (div64.c:27-58) ends with the whole quotient and the remainder,
\* __iter_div_u64_rem (math64.h:145-162) with the quotient cut to a u32 and the
\* remainder, for every dividend and divisor.
THEOREM DividesRight == DivSpec => []QuotientAndRemainder
<1>1. DivInv => QuotientAndRemainder
    BY DEF DivInv
<1> QED BY <1>1, DivInvariance, PTL

\* In the loops of __div64_32 no part of the dividend is lost, b is d divisors
\* although it is doubled modulo a double word, and the first loop doubles it
\* far enough.
THEOREM LoopsConserve == DivSpec => []Conserved
<1>1. DivInv => Conserved
    BY DEF DivInv
<1> QED BY <1>1, DivInvariance, PTL

\* No variable of the two functions grows out of its word.
THEOREM DivTypes == DivSpec => []DivTypeOK
<1>1. DivInv => DivTypeOK
    BY DEF DivInv
<1> QED BY <1>1, DivInvariance, PTL
-----------------------------------------------------------------------------
(***************************************************************************)
(* Seconds and nanoseconds.  What the loops carry from nanoseconds to      *)
(* seconds is neither lost nor gained, what they leave is normalized, and  *)
(* so the functions that add and subtract with it are exact or saturate.   *)
(***************************************************************************)
\* The variables of the loops are integers, and the first loop leaves less
\* than a second, which the second loop does not make more.
CarryInv ==
    /\ tsPc \in {"idle", "down", "up", "store", "done"}
    /\ sec \in Int /\ nsec \in Int /\ sum \in Int
    /\ tsPc \in {"down", "up", "store"} => sec * N + nsec = sum
    /\ tsPc \in {"up", "store"} => nsec < N
    /\ tsPc = "store" => nsec >= 0

\* An s64 is an integer whatever its width, and so is what is cut to one.
LEMMA S64IsInt ==
    /\ TIME64_MAX \in Int
    /\ \A x \in s64 : x \in Int
    /\ \A x \in Int : S64(x) \in Int
<1>1. TOP \in Nat /\ 2 * TOP \in Nat /\ 2 * TOP > 0
    BY SecondAssumption, WordAssumption
<1> QED BY <1>1 DEF TIME64_MAX, s64, S64

\* CarryInv holds initially.
LEMMA CarryInit == TsInit => CarryInv
BY DEF TsInit, CarryInv

\* A second more and its nanoseconds less, or the reverse, is the same time.
LEMMA Carried ==
    ASSUME NEW s \in Int, NEW k \in Int
    PROVE  /\ (s + 1) * N + (k - N) = s * N + k
           /\ (s - 1) * N + (k + N) = s * N + k
BY SecondAssumption

\* The loops start with the nanoseconds they are given.
LEMMA Started ==
    ASSUME NEW s \in Int, NEW k \in Int, set_normalized_timespec64(s, k)
    PROVE  CarryInv'
<1>1. s * N \in Int
    BY SecondAssumption
<1> QED BY <1>1 DEF set_normalized_timespec64, CarryInv

\* Every step keeps CarryInv.
LEMMA CarryStep == CarryInv /\ [TsNext]_tsVars => CarryInv'
<1> SUFFICES ASSUME CarryInv, [TsNext]_tsVars PROVE CarryInv'
    OBVIOUS
<1>0. N \in Int /\ N > 0
    BY SecondAssumption
<1>1. CASE UNCHANGED tsVars
    BY <1>1 DEF tsVars, CarryInv
<1>2. CASE tsPc = "idle" /\ TsCalls
    <2>1. ASSUME NEW ts \in Times, SetNormalized(ts) PROVE CarryInv'
        <3>1. ts.sec \in Int /\ ts.nsec \in Int
            BY S64IsInt DEF Times
        <3> QED BY <2>1, <3>1, Started DEF SetNormalized
    <2>2. ASSUME NEW lhs \in NormalTimes, NEW rhs \in NormalTimes,
                 \/ timespec64_add(lhs, rhs)
                 \/ timespec64_sub(lhs, rhs)
                 \/ timespec64_add_safe(lhs, rhs)
          PROVE  CarryInv'
        <3>1. lhs.sec \in Int /\ lhs.nsec \in Int
            BY S64IsInt DEF NormalTimes
        <3>2. rhs.sec \in Int /\ rhs.nsec \in Int
            BY S64IsInt DEF NormalTimes
        <3>3. S64(lhs.sec + rhs.sec) \in Int
            BY <3>1, <3>2, S64IsInt
        <3>4. CASE timespec64_add(lhs, rhs)
            BY <3>1, <3>2, <3>4, Started DEF timespec64_add
        <3>5. CASE timespec64_sub(lhs, rhs)
            BY <3>1, <3>2, <3>5, Started DEF timespec64_sub
        <3>6. CASE timespec64_add_safe(lhs, rhs)
            BY <3>1, <3>2, <3>3, <3>6, Started DEF timespec64_add_safe
        <3> QED BY <2>2, <3>4, <3>5, <3>6
    <2>3. ASSUME NEW fn, NEW lhs, NEW rhs, NEW result, At(fn, lhs, rhs, result)
          PROVE  CarryInv'
        BY <2>3 DEF At, CarryInv
    <2> QED BY <1>2, <2>1, <2>2, <2>3 DEF TsCalls, Compare, AddNs, FromNs, ToNs
<1>3. CASE Down
    <2>1. CASE nsec >= N
        <3>1. sec' = sec + 1 /\ nsec' = nsec - N
            BY <1>3, <2>1 DEF Down
        <3>2. sec' * N + nsec' = sec * N + nsec
            BY <3>1, Carried DEF CarryInv
        <3> QED BY <1>0, <1>3, <2>1, <3>1, <3>2 DEF Down, CarryInv
    <2>2. CASE ~(nsec >= N)
        BY <1>0, <1>3, <2>2 DEF Down, CarryInv
    <2> QED BY <2>1, <2>2
<1>4. CASE Up
    <2>1. CASE nsec < 0
        <3>1. sec' = sec - 1 /\ nsec' = nsec + N
            BY <1>4, <2>1 DEF Up
        <3>2. sec' * N + nsec' = sec * N + nsec
            BY <3>1, Carried DEF CarryInv
        <3> QED BY <1>0, <1>4, <2>1, <3>1, <3>2 DEF Up, CarryInv
    <2>2. CASE ~(nsec < 0)
        BY <1>0, <1>4, <2>2 DEF Up, CarryInv
    <2> QED BY <2>1, <2>2
<1>5. CASE Store
    BY <1>5 DEF Store, CarryInv
<1>6. CASE TsReturn
    BY <1>6 DEF TsReturn, CarryInv
<1> QED BY <1>1, <1>2, <1>3, <1>4, <1>5, <1>6 DEF TsNext

\* set_normalized_timespec64 (jiffies.c:169-188) keeps the time it is given
\* and leaves 0 <= nsec < NSEC_PER_SEC, for times before 1970 as well.
THEOREM CarriesRight == TsSpec => []CarriesExactly
<1>1. CarryInv => CarriesExactly
    BY SecondAssumption DEF CarryInv, CarriesExactly
<1>2. TsSpec => []CarryInv
    BY CarryInit, CarryStep, PTL DEF TsSpec
<1> QED BY <1>1, <1>2, PTL
-----------------------------------------------------------------------------
\* A time has one normalized form.
LEMMA OneNormalForm ==
    ASSUME NEW s \in Int, NEW k \in 0..(N - 1)
    PROVE  Normal(s * N + k) = Time(s, k)
<1>0. N \in Int /\ N > 0 /\ k \in Int
    BY SecondAssumption
<1> DEFINE v == s * N + k
           q == v \div N
           r == v % N
<1>1. v \in Int /\ v = s * N + k /\ s * N \in Int
    BY <1>0
<1> HIDE DEF v
<1>2. q \in Int /\ r \in 0..(N - 1) /\ v = q * N + r /\ q * N \in Int
    BY <1>0, <1>1
<1> HIDE DEF q, r
<1>3. (s - q) * N = r - k /\ s - q \in Int /\ r \in Int
    <2>1. (s - q) * N = s * N - q * N
        BY <1>0, <1>2
    <2> QED BY <1>0, <1>1, <1>2, <2>1
<1>4. r - k < N /\ r - k > -N
    BY <1>0, <1>2
<1>5. ~(s - q >= 1)
    <2>1. s - q >= 1 => (s - q) * N >= N
        BY <1>0, <1>3
    <2> QED BY <1>0, <1>3, <1>4, <2>1
<1>6. ~(s - q <= -1)
    <2>1. s - q <= -1 => (s - q) * N <= -N
        BY <1>0, <1>3
    <2> QED BY <1>0, <1>3, <1>4, <2>1
<1>7. q = s
    BY <1>2, <1>3, <1>5, <1>6
<1>8. r = k
    BY <1>0, <1>1, <1>2, <1>7
<1> QED BY <1>1, <1>7, <1>8 DEF Normal, v, q, r

\* Nanoseconds of two normalized times carry at most one second.
LEMMA OneCarry ==
    ASSUME NEW a \in Int, NEW m \in 0..(2 * N - 1),
           NEW s \in Int, NEW k \in 0..(N - 1), s * N + k = a * N + m
    PROVE  s = a \/ s = a + 1
<1>0. N \in Int /\ N > 0 /\ m \in Int /\ k \in Int
    BY SecondAssumption
<1>1. Normal(s * N + k) = Time(s, k)
    BY OneNormalForm
<1>2. CASE m < N
    <2>1. Normal(a * N + m) = Time(a, m)
        BY <1>0, <1>2, OneNormalForm
    <2> QED BY <1>1, <2>1 DEF Time
<1>3. CASE m >= N
    <2>1. a + 1 \in Int /\ m - N \in 0..(N - 1)
        BY <1>0, <1>3
    <2>2. Normal((a + 1) * N + (m - N)) = Time(a + 1, m - N)
        BY <2>1, OneNormalForm
    <2>3. (a + 1) * N + (m - N) = a * N + m
        BY <1>0, Carried
    <2> QED BY <1>1, <2>2, <2>3 DEF Time
<1> QED BY <1>0, <1>2, <1>3

\* An integer that fits in an s64 is left as it is, and one that is too large
\* by less than the range becomes negative.
LEMMA CutToWord ==
    ASSUME NEW x \in Int
    PROVE  /\ x \in s64 => S64(x) = x
           /\ x >= TOP /\ x < 3 * TOP => S64(x) = x - 2 * TOP
<1>0. TOP \in Int /\ TOP > 0
    BY SecondAssumption, WordAssumption
<1>1. ASSUME NEW y \in Int, 0 <= y, y < 2 * TOP
      PROVE  y % (2 * TOP) = y
    BY <1>0, <1>1
<1>2. ASSUME NEW y \in Int, 2 * TOP <= y, y < 4 * TOP
      PROVE  y % (2 * TOP) = y - 2 * TOP
    BY <1>0, <1>2
<1>3. x \in s64 => S64(x) = x
    BY <1>0, <1>1 DEF s64, S64
<1>4. x >= TOP /\ x < 3 * TOP => S64(x) = x - 2 * TOP
    BY <1>0, <1>2 DEF S64
<1> QED BY <1>3, <1>4
-----------------------------------------------------------------------------
\* What a call in the loops was given, in nanoseconds: the exact result or,
\* when timespec64_add_safe has wrapped the seconds, that less the range.
Given ==
    \/ tsCall.fn = "set" /\ tsCall.lhs \in Times /\ sum = Nanoseconds(tsCall.lhs)
    \/ /\ tsCall.fn \in {"add", "sub", "add_safe"}
       /\ tsCall.lhs \in NormalTimes /\ tsCall.rhs \in NormalTimes
       /\ tsCall.fn = "add" => sum = Nanoseconds(tsCall.lhs) + Nanoseconds(tsCall.rhs)
       /\ tsCall.fn = "sub" => sum = Nanoseconds(tsCall.lhs) - Nanoseconds(tsCall.rhs)
       /\ tsCall.fn = "add_safe" =>
             /\ tsCall.lhs.sec >= 0 /\ tsCall.rhs.sec >= 0
             /\ sum = S64(tsCall.lhs.sec + tsCall.rhs.sec) * N
                         + (tsCall.lhs.nsec + tsCall.rhs.nsec)

ResultInv ==
    /\ CarryInv
    /\ tsPc \in {"down", "up", "store"} => Given
    /\ ExactTime
    /\ SafeSum

\* Values are integers, and those of two times add up.
LEMMA ValuesAdd ==
    ASSUME NEW a \in Times, NEW c \in Times
    PROVE  /\ a.sec \in Int /\ a.nsec \in Int /\ Nanoseconds(a) \in Int
           /\ Nanoseconds(a) + Nanoseconds(c) = (a.sec + c.sec) * N + (a.nsec + c.nsec)
           /\ Nanoseconds(a) - Nanoseconds(c) = (a.sec - c.sec) * N + (a.nsec - c.nsec)
<1>1. a.sec \in Int /\ a.nsec \in Int /\ c.sec \in Int /\ c.nsec \in Int
    BY S64IsInt DEF Times
<1>2. a.sec * N \in Int /\ c.sec * N \in Int
    BY <1>1, SecondAssumption
<1>3. /\ (a.sec + c.sec) * N = a.sec * N + c.sec * N
      /\ (a.sec - c.sec) * N = a.sec * N - c.sec * N
    BY <1>1, SecondAssumption
<1> QED BY <1>1, <1>2, <1>3 DEF Nanoseconds

\* A normalized time is a time.
LEMMA NormalTimesAreTimes == NormalTimes \subseteq Times
<1>1. 0..(N - 1) \subseteq s64
    BY SecondAssumption, WordAssumption DEF s64
<1> QED BY <1>1 DEF NormalTimes, Times

\* ResultInv holds initially.
LEMMA ResultInit == TsInit => ResultInv
BY CarryInit DEF TsInit, ResultInv, ExactTime, SafeSum, Result

\* What the loops leave is stored exactly, or the latest time.
LEMMA Stored ==
    ASSUME ResultInv, Store
    PROVE  ExactTime' /\ SafeSum'
<1>0. /\ N \in Int /\ N > 0 /\ TOP \in Int /\ TOP > 0
      /\ sec \in Int /\ nsec \in 0..(N - 1) /\ sum \in Int /\ sec * N + nsec = sum
      /\ tsPc = "store" /\ tsPc' = "done" /\ UNCHANGED tsCall
    BY SecondAssumption, WordAssumption DEF Store, ResultInv, CarryInv
<1>1. Normal(sum) = Time(sec, nsec) /\ Normal(sum).sec = sec
    <2>1. Normal(sec * N + nsec) = Time(sec, nsec)
        BY <1>0, OneNormalForm
    <2>2. Normal(sum) = Time(sec, nsec)
        BY <1>0, <2>1
    <2> QED BY <2>2 DEF Time
<1>2. Given
    BY <1>0 DEF ResultInv
<1>3. CASE tsCall.fn \in {"set", "add", "sub"}
    <2>1. ~Overflown(S64(sec))
        BY <1>3 DEF Overflown
    <2>2. tsRes' = Time(S64(sec), nsec)
        BY <2>1 DEF Store
    <2>3. sec \in s64 => tsRes' = Normal(sum)
        BY <1>0, <1>1, <2>2, CutToWord
    <2>4. /\ tsCall.fn = "set" => sum = Nanoseconds(tsCall.lhs)
          /\ tsCall.fn = "add" => sum = Nanoseconds(tsCall.lhs) + Nanoseconds(tsCall.rhs)
          /\ tsCall.fn = "sub" => sum = Nanoseconds(tsCall.lhs) - Nanoseconds(tsCall.rhs)
        BY <1>2 DEF Given
    <2>5. ExactTime'
        BY <1>0, <1>1, <1>3, <2>3, <2>4 DEF ExactTime, Result, Nanoseconds, Normal, Time
    <2> QED BY <1>0, <1>3, <2>5 DEF SafeSum, Result
<1>4. CASE tsCall.fn = "add_safe"
    <2> DEFINE l == tsCall.lhs
               r == tsCall.rhs
               s == l.sec + r.sec
               m == l.nsec + r.nsec
               exact == Normal(Nanoseconds(l) + Nanoseconds(r))
    <2>1. /\ l \in NormalTimes /\ r \in NormalTimes /\ l.sec >= 0 /\ r.sec >= 0
          /\ sum = S64(s) * N + m
        BY <1>2, <1>4 DEF Given
    <2>2. /\ l.sec \in 0..(TOP - 1) /\ r.sec \in 0..(TOP - 1)
          /\ s \in 0..(2 * TOP - 2) /\ m \in 0..(2 * N - 1)
        BY <1>0, <2>1 DEF NormalTimes, s64
    <2>3. Nanoseconds(l) + Nanoseconds(r) = s * N + m
        BY <2>1, NormalTimesAreTimes, ValuesAdd
    <2>4. ExactTime'
        BY <1>0, <1>4 DEF ExactTime, Result
    <2>5. S64(s) \in Int
        BY <2>2, S64IsInt
    <2>6. sec = S64(s) \/ sec = S64(s) + 1
        <3>1. sec * N + nsec = S64(s) * N + m
            BY <1>0, <2>1
        <3> QED BY <1>0, <2>2, <2>5, <3>1, OneCarry
    <2>7. Overflown(S64(sec)) <=> (S64(sec) < l.sec \/ S64(sec) < r.sec)
        BY <1>4 DEF Overflown
    <2>8. tsRes' = (IF exact.sec > TIME64_MAX THEN Time(TIME64_MAX, 0) ELSE exact)
              => SafeSum'
        BY <1>0 DEF SafeSum, Result
    <2>9. CASE s < TOP
        <3>1. S64(s) = s
            BY <2>2, <2>9, <1>0, CutToWord DEF s64
        <3>2. exact = Time(sec, nsec) /\ exact.sec = sec
            BY <1>0, <1>1, <2>1, <2>3, <3>1
        <3>3. CASE sec < TOP
            <4>1. S64(sec) = sec
                BY <1>0, <2>2, <2>6, <3>1, <3>3, CutToWord DEF s64
            <4>2. ~Overflown(S64(sec))
                BY <1>0, <2>2, <2>6, <2>7, <3>1, <4>1
            <4>3. tsRes' = exact /\ exact.sec <= TIME64_MAX
                BY <1>0, <3>2, <3>3, <4>1, <4>2 DEF Store, TIME64_MAX
            <4>4. ~(exact.sec > TIME64_MAX)
                BY <1>0, <3>2, <4>3 DEF TIME64_MAX
            <4> QED BY <2>4, <2>8, <4>3, <4>4
        <3>4. CASE sec >= TOP
            <4>1. S64(sec) = sec - 2 * TOP /\ sec = TOP
                BY <1>0, <2>2, <2>6, <2>9, <3>1, <3>4, CutToWord
            <4>2. Overflown(S64(sec))
                BY <1>0, <2>2, <2>7, <4>1
            <4>3. tsRes' = Time(TIME64_MAX, 0) /\ exact.sec > TIME64_MAX
                BY <1>0, <3>2, <3>4, <4>2 DEF Store, TIME64_MAX
            <4> QED BY <2>4, <2>8, <4>3
        <3> QED BY <1>0, <3>3, <3>4
    <2>10. CASE s >= TOP
        <3>1. S64(s) = s - 2 * TOP
            BY <1>0, <2>2, <2>10, CutToWord
        <3>2. sec \in s64 /\ sec < 0
            BY <1>0, <2>2, <2>6, <2>10, <3>1 DEF s64
        <3>3. Overflown(S64(sec))
            BY <1>0, <2>2, <2>7, <3>2, CutToWord
        <3>4. (sec + 2 * TOP) * N + nsec = Nanoseconds(l) + Nanoseconds(r)
            <4>1. (sec + 2 * TOP) * N = sec * N + (2 * TOP) * N
                BY <1>0
            <4>2. (s - 2 * TOP) * N = s * N - (2 * TOP) * N
                BY <1>0, <2>2
            <4>3. sec * N + nsec = (s - 2 * TOP) * N + m
                BY <1>0, <2>1, <3>1
            <4> QED BY <1>0, <2>2, <2>3, <4>1, <4>2, <4>3
        <3>5. exact = Time(sec + 2 * TOP, nsec)
            BY <1>0, <3>4, OneNormalForm
        <3>6. exact.sec > TIME64_MAX
            BY <1>0, <3>2, <3>5 DEF Time, TIME64_MAX, s64
        <3>7. tsRes' = Time(TIME64_MAX, 0)
            BY <3>3 DEF Store
        <3> QED BY <2>4, <2>8, <3>6, <3>7
    <2> QED BY <1>0, <2>2, <2>9, <2>10
<1> QED BY <1>2, <1>3, <1>4 DEF Given

\* Seconds and nanoseconds of a number of nanoseconds.
LEMMA Divided ==
    ASSUME NEW x \in Int
    PROVE  x \div N \in Int /\ x % N \in 0..(N - 1) /\ x = (x \div N) * N + (x % N)
BY SecondAssumption

\* Times and nanoseconds that were added in one step are exact.
LEMMA NsAdded ==
    ASSUME NEW a \in NormalTimes, NEW ns \in u64_ns, a.nsec + ns < 2 * TOP,
           (a.nsec + ns) \div N < U32, Normal(Nanoseconds(a) + ns).sec \in s64
    PROVE  timespec64_add_ns(a, ns) = Normal(Nanoseconds(a) + ns)
<1> DEFINE k == a.nsec + ns
           q == k \div N
           r == k % N
<1>0. /\ N \in Int /\ N > 0 /\ TOP \in Int /\ TOP > 0 /\ U32 \in Int /\ U32 > 0
      /\ a.sec \in Int /\ a.nsec \in 0..(N - 1) /\ ns \in Int /\ ns >= 0
    BY SecondAssumption, WordAssumption, S64IsInt DEF NormalTimes, u64_ns
<1>1. k \in Int /\ k >= 0 /\ k % (2 * TOP) = k
    BY <1>0
<1>2. q \in Int /\ r \in 0..(N - 1) /\ k = q * N + r /\ k = a.nsec + ns
    BY <1>1, Divided
<1>3. timespec64_add_ns(a, ns) = Time(S64(a.sec + (q % U32)), r)
    BY <1>1 DEF timespec64_add_ns
<1> HIDE DEF k, q, r
<1>4. Nanoseconds(a) + ns = (a.sec + q) * N + r
    <2>1. (a.sec + q) * N = a.sec * N + q * N
        BY <1>0, <1>2
    <2>2. a.sec * N \in Int /\ q * N \in Int
        BY <1>0, <1>2
    <2>3. Nanoseconds(a) + ns = a.sec * N + k
        BY <1>0, <1>2, <2>2 DEF Nanoseconds
    <2> QED BY <1>0, <1>2, <2>1, <2>2, <2>3
<1>5. Normal(Nanoseconds(a) + ns) = Time(a.sec + q, r)
    <2>1. a.sec + q \in Int
        BY <1>0, <1>2
    <2>2. Normal((a.sec + q) * N + r) = Time(a.sec + q, r)
        BY <1>2, <2>1, OneNormalForm
    <2> QED BY <1>4, <2>2
<1>6. S64(a.sec + q) = a.sec + q
    <2>1. a.sec + q \in s64
        BY <1>5 DEF Time
    <2> QED BY <1>0, <1>2, <2>1, CutToWord
<1>7. q % U32 = q
    <2>1. q >= 0
        <3>1. q <= -1 => q * N <= -N
            BY <1>0, <1>2
        <3> QED BY <1>0, <1>1, <1>2, <3>1
    <2>2. q < U32
        BY DEF q, k
    <2> QED BY <1>0, <1>2, <2>1, <2>2
<1>8. timespec64_add_ns(a, ns) = Time(a.sec + q, r)
    BY <1>3, <1>6, <1>7
<1> QED BY <1>5, <1>8

\* Every step keeps ResultInv.
LEMMA ResultStep == ResultInv /\ [TsNext]_tsVars => ResultInv'
<1> SUFFICES ASSUME ResultInv, [TsNext]_tsVars PROVE ResultInv'
    OBVIOUS
<1>0. CarryInv'
    BY CarryStep DEF ResultInv
<1>1. CASE UNCHANGED tsVars
    BY <1>0, <1>1 DEF tsVars, ResultInv, Given, ExactTime, SafeSum, Result
<1>2. CASE Down \/ Up
    <2>1. tsPc' # "done" /\ UNCHANGED <<tsCall, sum>> /\ tsPc \in {"down", "up", "store"}
        BY <1>2 DEF Down, Up, ResultInv, CarryInv
    <2>2. Given'
        BY <2>1 DEF ResultInv, Given
    <2> QED BY <1>0, <2>1, <2>2 DEF ResultInv, ExactTime, SafeSum, Result
<1>3. CASE Store
    <2>1. tsPc' = "done"
        BY <1>3 DEF Store
    <2> QED BY <1>0, <1>3, <2>1, Stored DEF ResultInv
<1>4. CASE TsReturn
    BY <1>0, <1>4 DEF TsReturn, ResultInv, ExactTime, SafeSum, Result
<1>5. ASSUME NEW ts \in Times, SetNormalized(ts) PROVE ResultInv'
    <2>1. tsPc' = "down" /\ Given'
        BY <1>5 DEF SetNormalized, set_normalized_timespec64, Given, Nanoseconds
    <2> QED BY <1>0, <2>1 DEF ResultInv, ExactTime, SafeSum, Result
<1>6. ASSUME NEW lhs \in NormalTimes, NEW rhs \in NormalTimes,
             timespec64_add(lhs, rhs) \/ timespec64_sub(lhs, rhs)
      PROVE  ResultInv'
    <2>1. CASE timespec64_add(lhs, rhs)
        <3>1. sum' = Nanoseconds(lhs) + Nanoseconds(rhs)
            BY <2>1, NormalTimesAreTimes, ValuesAdd
            DEF timespec64_add, set_normalized_timespec64
        <3>2. tsPc' = "down" /\ Given'
            BY <2>1, <3>1 DEF timespec64_add, set_normalized_timespec64, Given
        <3> QED BY <1>0, <3>2 DEF ResultInv, ExactTime, SafeSum, Result
    <2>2. CASE timespec64_sub(lhs, rhs)
        <3>1. sum' = Nanoseconds(lhs) - Nanoseconds(rhs)
            BY <2>2, NormalTimesAreTimes, ValuesAdd
            DEF timespec64_sub, set_normalized_timespec64
        <3>2. tsPc' = "down" /\ Given'
            BY <2>2, <3>1 DEF timespec64_sub, set_normalized_timespec64, Given
        <3> QED BY <1>0, <3>2 DEF ResultInv, ExactTime, SafeSum, Result
    <2> QED BY <1>6, <2>1, <2>2
<1>7. ASSUME NEW lhs \in NormalTimes, NEW rhs \in NormalTimes,
             timespec64_add_safe(lhs, rhs)
      PROVE  ResultInv'
    <2>1. lhs.sec >= 0 /\ rhs.sec >= 0
        BY <1>7 DEF timespec64_add_safe, timespec64_valid
    <2>2. tsPc' = "down" /\ Given'
        BY <1>7, <2>1 DEF timespec64_add_safe, set_normalized_timespec64, Given
    <2> QED BY <1>0, <2>2 DEF ResultInv, ExactTime, SafeSum, Result
<1>8. ASSUME NEW a \in NormalTimes, NEW ns \in u64_ns, AddNs(a, ns)
      PROVE  ResultInv'
    <2>1. /\ tsPc' = "done" /\ tsCall'.fn = "add_ns" /\ tsCall'.lhs = a
          /\ tsCall'.rhs.nsec = ns /\ tsRes' = timespec64_add_ns(a, ns)
        BY <1>8 DEF AddNs, At, Ns, Time
    <2>2. ExactTime'
        BY <2>1, NsAdded DEF ExactTime, Result
    <2> QED BY <1>0, <2>1, <2>2 DEF ResultInv, SafeSum, Result
<1>9. ASSUME NEW fn \in {"from_ns", "to_ns", "compare"}, NEW lhs, NEW rhs,
             NEW result, At(fn, lhs, rhs, result)
      PROVE  ResultInv'
    BY <1>0, <1>9 DEF At, ResultInv, ExactTime, SafeSum, Result
<1> QED BY <1>1, <1>2, <1>3, <1>4, <1>5, <1>6, <1>7, <1>8, <1>9
        DEF TsNext, TsCalls, Compare, FromNs, ToNs

\* timespec64_add, timespec64_sub, timespec64_add_ns and
\* set_normalized_timespec64 (time64.h:178-198, 251-255) give the exact time,
\* normalized, whenever it can be represented.
THEOREM AddsExactly == TsSpec => []ExactTime
<1>1. TsSpec => []ResultInv
    BY ResultInit, ResultStep, PTL DEF TsSpec
<1>2. ResultInv => ExactTime
    BY DEF ResultInv
<1> QED BY <1>1, <1>2, PTL

\* timespec64_add_safe (jiffies.c:477-491) gives the exact sum or the latest
\* time, also when the carry alone overflows.
THEOREM AddsSafely == TsSpec => []SafeSum
<1>1. TsSpec => []ResultInv
    BY ResultInit, ResultStep, PTL DEF TsSpec
<1>2. ResultInv => SafeSum
    BY DEF ResultInv
<1> QED BY <1>1, <1>2, PTL
-----------------------------------------------------------------------------
\* ns_to_timespec64 corrects a remainder that C has cut towards zero: it gives
\* the normalized time also for nanoseconds before 1970.
LEMMA NsNormal ==
    ASSUME NEW x \in Int
    PROVE  ns_to_timespec64(x) = Normal(x)
<1>0. N \in Int /\ N > 0
    BY SecondAssumption
<1>1. CASE x >= 0
    <2>1. PICK q \in Int, r \in 0..(N - 1) : q = x \div N /\ r = x % N /\ x = q * N + r
        BY Divided
    <2>2. Normal(x) = Time(q, r)
        BY <2>1 DEF Normal
    <2>3. Quot(x) = q /\ Rem(x) = r
        <3>1. Quot(x) = q
            BY <1>1, <2>1 DEF Quot
        <3>2. x - N * q = r
            BY <1>0, <2>1
        <3> QED BY <3>1, <3>2 DEF Rem
    <2>4. ASSUME x = 0 PROVE q = 0 /\ r = 0
        <3>1. 0 = 0 * N + 0 /\ 0 \in 0..(N - 1)
            BY <1>0
        <3>2. Normal(0 * N + 0) = Time(0, 0)
            BY <3>1, OneNormalForm
        <3> QED BY <2>2, <2>4, <3>1, <3>2 DEF Time
    <2>5. ~(r < 0)
        BY <1>0, <2>1
    <2> QED BY <2>2, <2>3, <2>4, <2>5 DEF ns_to_timespec64
<1>2. CASE x < 0
    <2>1. PICK p \in Int, t \in 0..(N - 1) :
              p = (-x) \div N /\ -x = p * N + t
        BY Divided
    <2>2. Quot(x) = -p
        BY <1>2, <2>1 DEF Quot
    <2>3. N * (-p) = -(p * N) /\ p * N \in Int /\ (-p) * N = -(p * N)
        BY <1>0, <2>1
    <2>4. Rem(x) = -t
        <3>1. Rem(x) = x - N * (-p)
            BY <2>2 DEF Rem
        <3> QED BY <1>0, <2>1, <2>3, <3>1
    <2>5. CASE t = 0
        <3>1. x = (-p) * N + 0 /\ 0 \in 0..(N - 1) /\ -p \in Int
            BY <1>0, <2>1, <2>3, <2>5
        <3>2. Normal((-p) * N + 0) = Time(-p, 0)
            BY <3>1, OneNormalForm
        <3>3. ns_to_timespec64(x) = Time(-p, 0)
            BY <1>2, <2>2, <2>4, <2>5 DEF ns_to_timespec64
        <3> QED BY <3>1, <3>2, <3>3
    <2>6. CASE t > 0
        <3>1. (-p - 1) * N = (-p) * N - N
            BY <1>0, <2>1
        <3>2. /\ x = (-p - 1) * N + (N - t) /\ N - t \in 0..(N - 1)
              /\ -p - 1 \in Int
            BY <1>0, <2>1, <2>3, <2>6, <3>1
        <3>3. Normal((-p - 1) * N + (N - t)) = Time(-p - 1, N - t)
            BY <3>2, OneNormalForm
        <3>4. -t < 0 /\ -t + N = N - t
            BY <1>0, <2>1, <2>6
        <3>5. ns_to_timespec64(x) = Time(-p - 1, N - t)
            BY <1>2, <2>2, <2>4, <3>4 DEF ns_to_timespec64
        <3> QED BY <3>2, <3>3, <3>5
    <2> QED BY <1>0, <2>1, <2>5, <2>6
<1> QED BY <1>1, <1>2

\* Nanoseconds in a word are the normalized time they came from.
LEMMA NsBack ==
    ASSUME NEW x \in s64
    PROVE  Normal(x).nsec \in 0..(N - 1) /\ timespec64_to_ns(Normal(x)) = x
<1>1. x \in Int
    BY S64IsInt
<1>2. PICK q \in Int, r \in 0..(N - 1) : q = x \div N /\ r = x % N /\ x = q * N + r
    BY <1>1, Divided
<1>3. Normal(x) = Time(q, r)
    BY <1>2 DEF Normal
<1>4. Normal(x).sec = q /\ Normal(x).nsec = r
    BY <1>3 DEF Time
<1>5. timespec64_to_ns(Normal(x)) = S64(q * N + r)
    BY <1>4 DEF timespec64_to_ns
<1>6. S64(x) = x
    BY <1>1, CutToWord
<1> QED BY <1>2, <1>4, <1>5, <1>6

\* What timespec64_valid_strict lets pass is few enough nanoseconds.
LEMMA StrictFits ==
    ASSUME NEW ts \in Times, timespec64_valid_strict(ts)
    PROVE  Nanoseconds(ts) \in s64 /\ Normal(Nanoseconds(ts)) = ts
<1>0. N \in Int /\ N > 0 /\ TOP \in Int /\ TOP > 0
    BY SecondAssumption, WordAssumption
<1>1. PICK s \in Int, k \in 0..(N - 1) : s = ts.sec /\ k = ts.nsec /\ s >= 0
    BY S64IsInt DEF Times, timespec64_valid_strict, timespec64_valid
<1>2. PICK q \in Int, r \in 0..(N - 1) :
          q = (TOP - 1) \div N /\ TOP - 1 = q * N + r
    BY <1>0, Divided
<1>3. s < q
    BY <1>1, <1>2 DEF timespec64_valid_strict, KTIME_SEC_MAX, TIME64_MAX
<1>4. (s + 1) * N <= q * N /\ (s + 1) * N = s * N + N /\ s * N >= 0
    BY <1>0, <1>1, <1>2, <1>3
<1>5. Nanoseconds(ts) = s * N + k /\ s * N \in Int
    BY <1>0, <1>1 DEF Nanoseconds
<1>6. Nanoseconds(ts) \in s64
    BY <1>0, <1>1, <1>2, <1>4, <1>5 DEF s64
<1>7. Normal(s * N + k) = Time(s, k)
    BY OneNormalForm
<1>8. ts = Time(s, k)
    BY <1>1 DEF Times, Time
<1> QED BY <1>5, <1>6, <1>7, <1>8

\* Normalized times are ordered first by their seconds.
LEMMA SecondsFirst ==
    ASSUME NEW a \in NormalTimes, NEW c \in NormalTimes
    PROVE  /\ (Nanoseconds(a) < Nanoseconds(c)) <=>
                 (a.sec < c.sec \/ (a.sec = c.sec /\ a.nsec < c.nsec))
           /\ Nanoseconds(a) \in Int
<1>0. N \in Int /\ N > 0
    BY SecondAssumption
<1>1. PICK s \in Int, t \in Int, k \in 0..(N - 1), l \in 0..(N - 1) :
          s = a.sec /\ t = c.sec /\ k = a.nsec /\ l = c.nsec
    BY S64IsInt DEF NormalTimes
<1>2. /\ Nanoseconds(a) = s * N + k /\ Nanoseconds(c) = t * N + l
      /\ s * N \in Int /\ t * N \in Int
    BY <1>0, <1>1 DEF Nanoseconds
<1>3. (t - s) * N = t * N - s * N
    BY <1>0, <1>1
<1>4. CASE s < t
    <2>1. (t - s) * N >= N
        BY <1>0, <1>1, <1>4
    <2>2. s * N + N <= t * N
        BY <1>0, <1>2, <1>3, <2>1
    <2>3. Nanoseconds(a) < Nanoseconds(c) /\ Nanoseconds(a) \in Int
        BY <1>0, <1>1, <1>2, <2>2
    <2> QED BY <1>1, <1>4, <2>3
<1>5. CASE s = t
    BY <1>0, <1>1, <1>2, <1>5
<1>6. CASE s > t
    <2>1. (t - s) * N <= -N
        BY <1>0, <1>1, <1>6
    <2>2. t * N + N <= s * N
        BY <1>0, <1>2, <1>3, <2>1
    <2>3. ~(Nanoseconds(a) < Nanoseconds(c))
        BY <1>0, <1>1, <1>2, <2>2
    <2>4. Nanoseconds(a) \in Int
        BY <1>0, <1>1, <1>2
    <2> QED BY <1>1, <1>6, <2>3, <2>4
<1> QED BY <1>1, <1>4, <1>5, <1>6

\* The calls that NsAgree speaks of; they do not go through the loops.
NsCalls == {"from_ns", "to_ns", "compare"}

NsInv ==
    /\ tsPc \in {"down", "up", "store"} => tsCall.fn \notin NsCalls
    /\ NsAgree

\* Every step keeps NsInv.
LEMMA NsStep == NsInv /\ [TsNext]_tsVars => NsInv'
<1> SUFFICES ASSUME NsInv, [TsNext]_tsVars PROVE NsInv'
    OBVIOUS
<1>1. ASSUME tsPc' # "idle" => tsCall'.fn \notin NsCalls
      PROVE  NsInv'
    BY <1>1 DEF NsInv, NsAgree, NsRoundTrip, ComparesTimes, Result, NsCalls
<1>2. CASE UNCHANGED tsVars
    BY <1>2 DEF tsVars, NsInv, NsAgree, NsRoundTrip, ComparesTimes, Result
<1>3. CASE Down \/ Up \/ Store
    <2>1. tsCall' = tsCall /\ tsPc \in {"down", "up", "store"}
        BY <1>3 DEF Down, Up, Store
    <2> QED BY <1>1, <2>1 DEF NsInv
<1>4. CASE TsReturn
    BY <1>1, <1>4 DEF TsReturn
<1>5. ASSUME NEW ts \in Times, SetNormalized(ts) PROVE NsInv'
    BY <1>1, <1>5 DEF SetNormalized, NsCalls
<1>6. ASSUME NEW lhs \in NormalTimes, NEW rhs \in NormalTimes,
             \/ timespec64_add(lhs, rhs) \/ timespec64_sub(lhs, rhs)
             \/ timespec64_add_safe(lhs, rhs)
      PROVE  NsInv'
    BY <1>1, <1>6 DEF timespec64_add, timespec64_sub, timespec64_add_safe, NsCalls
<1>7. ASSUME NEW a \in NormalTimes, NEW ns \in u64_ns, AddNs(a, ns)
      PROVE  NsInv'
    BY <1>1, <1>7 DEF AddNs, At, NsCalls
<1>8. ASSUME NEW x \in s64, FromNs(x) PROVE NsInv'
    <2>1. /\ tsPc' = "done" /\ tsCall'.fn = "from_ns" /\ tsCall'.lhs.nsec = x
          /\ tsRes' = ns_to_timespec64(x)
        BY <1>8 DEF FromNs, At, Ns, Time
    <2>2. tsRes' = Normal(x)
        BY <2>1, S64IsInt, NsNormal
    <2>3. NsRoundTrip'
        BY <2>1, <2>2, NsBack DEF NsRoundTrip, Result
    <2> QED BY <2>1, <2>3 DEF NsInv, NsAgree, ComparesTimes, Result
<1>9. ASSUME NEW ts \in Times, ToNs(ts) PROVE NsInv'
    <2>1. /\ tsPc' = "done" /\ tsCall'.fn = "to_ns" /\ tsCall'.lhs = ts
          /\ tsRes'.nsec = timespec64_to_ns(ts)
        BY <1>9 DEF ToNs, At, Ns, Time
    <2>2. ASSUME timespec64_valid_strict(ts)
          PROVE  /\ timespec64_to_ns(ts) = Nanoseconds(ts)
                 /\ ns_to_timespec64(Nanoseconds(ts)) = ts
        <3>1. Nanoseconds(ts) \in s64 /\ Normal(Nanoseconds(ts)) = ts
            BY <2>2, StrictFits
        <3>2. Nanoseconds(ts) \in Int
            BY <3>1, S64IsInt
        <3>3. S64(Nanoseconds(ts)) = Nanoseconds(ts)
            BY <3>1, <3>2, CutToWord
        <3>4. ns_to_timespec64(Nanoseconds(ts)) = ts
            BY <3>1, <3>2, NsNormal
        <3>5. timespec64_to_ns(ts) = S64(Nanoseconds(ts))
            BY DEF timespec64_to_ns, Nanoseconds
        <3> QED BY <3>3, <3>4, <3>5
    <2>3. NsRoundTrip'
        BY <2>1, <2>2 DEF NsRoundTrip, Result, Nanoseconds, timespec64_valid_strict
    <2> QED BY <2>1, <2>3 DEF NsInv, NsAgree, ComparesTimes, Result
<1>10. ASSUME NEW lhs \in NormalTimes, NEW rhs \in NormalTimes, Compare(lhs, rhs)
       PROVE  NsInv'
    <2>1. /\ tsPc' = "done" /\ tsCall'.fn = "compare"
          /\ tsCall'.lhs = lhs /\ tsCall'.rhs = rhs
          /\ tsRes'.order = timespec64_compare(lhs, rhs)
          /\ tsRes'.equal = timespec64_equal(lhs, rhs)
        BY <1>10 DEF Compare, At
    <2>2. /\ lhs.sec \in Int /\ rhs.sec \in Int
          /\ lhs.nsec \in Int /\ rhs.nsec \in Int
        BY SecondAssumption, S64IsInt DEF NormalTimes
    <2>3. (Nanoseconds(lhs) < Nanoseconds(rhs)) <=>
              (lhs.sec < rhs.sec \/ (lhs.sec = rhs.sec /\ lhs.nsec < rhs.nsec))
        BY SecondsFirst
    <2>4. (Nanoseconds(rhs) < Nanoseconds(lhs)) <=>
              (rhs.sec < lhs.sec \/ (rhs.sec = lhs.sec /\ rhs.nsec < lhs.nsec))
        BY SecondsFirst
    <2>5. Nanoseconds(lhs) \in Int /\ Nanoseconds(rhs) \in Int
        BY SecondsFirst
    <2>6. /\ (timespec64_compare(lhs, rhs) < 0) <=>
                 (lhs.sec < rhs.sec \/ (lhs.sec = rhs.sec /\ lhs.nsec < rhs.nsec))
          /\ (timespec64_compare(lhs, rhs) > 0) <=>
                 (rhs.sec < lhs.sec \/ (rhs.sec = lhs.sec /\ rhs.nsec < lhs.nsec))
        <3>1. PICK s, t, k, l \in Int :
                  s = lhs.sec /\ t = rhs.sec /\ k = lhs.nsec /\ l = rhs.nsec
            BY <2>2
        <3>2. timespec64_compare(lhs, rhs) =
                  IF s < t THEN -1 ELSE IF s > t THEN 1 ELSE k - l
            BY <3>1 DEF timespec64_compare
        <3>3. CASE s < t
            BY <3>1, <3>2, <3>3
        <3>4. CASE s > t
            BY <3>1, <3>2, <3>4
        <3>5. CASE s = t
            BY <3>1, <3>2, <3>5
        <3> QED BY <3>1, <3>3, <3>4, <3>5
    <2>7. timespec64_equal(lhs, rhs) = (timespec64_compare(lhs, rhs) = 0)
        BY <2>2 DEF timespec64_compare, timespec64_equal
    <2>8. /\ (timespec64_compare(lhs, rhs) < 0) = (Nanoseconds(lhs) < Nanoseconds(rhs))
          /\ (timespec64_compare(lhs, rhs) > 0) = (Nanoseconds(lhs) > Nanoseconds(rhs))
        BY <2>3, <2>4, <2>5, <2>6
    <2>9. ComparesTimes'
        BY <2>1, <2>7, <2>8 DEF ComparesTimes, Result, Nanoseconds
    <2> QED BY <2>1, <2>9 DEF NsInv, NsAgree, NsRoundTrip, Result
<1> QED BY <1>2, <1>3, <1>4, <1>5, <1>6, <1>7, <1>8, <1>9, <1>10
        DEF TsNext, TsCalls

\* ns_to_timespec64 and timespec64_to_ns (jiffies.c:196-212, time64.h:230-233)
\* are inverse to one another where the nanoseconds fit in a word, before 1970
\* as well, and timespec64_compare orders normalized times as their
\* nanoseconds do.
THEOREM NsAgrees == TsSpec => []NsAgree
<1>1. TsInit => NsInv
    BY DEF TsInit, NsInv, NsAgree, NsRoundTrip, ComparesTimes, Result
<1>2. NsInv => NsAgree
    BY DEF NsInv
<1> QED BY <1>1, <1>2, NsStep, PTL DEF TsSpec
=============================================================================
