------------------------------- MODULE Math64 -------------------------------
(***************************************************************************)
(* The division and multiplication functions of src/uki/div64.h,           *)
(* src/uki/math64.h and src/div64.c that consist of machine divisions and  *)
(* partial products, as built with BITS_PER_LONG == 32.  A u32 has W bits  *)
(* here, a u64 twice as many.  A step is one call; its operands are any    *)
(* the function is defined for.                                            *)
(***************************************************************************)
EXTENDS Integers, FunctionCalls

CONSTANT W

ASSUME WidthAssumption == W \in Nat \ {0, 1}

Half == 2^W
Full == Half * Half

u32 == 0..(Half - 1)
u64 == 0..(Full - 1)
s32 == (-(Half \div 2))..(Half \div 2 - 1)
s64 == (-(Full \div 2))..(Full \div 2 - 1)

Low(x) == x % Half
High(x) == x \div Half

\* Reading a word as a signed number, and back.
U64(x) == x % Full
S64(x) == ((x + Full \div 2) % Full) - Full \div 2
S32(x) == ((x + Half \div 2) % Half) - Half \div 2

abs(x) == IF x < 0 THEN -x ELSE x

QuotRem(quot, rem) == [quot |-> quot, rem |-> rem]

\* The divl instruction, which traps when the quotient takes more than a u32.
Trap == QuotRem(-1, -1)

Divl(high, low, divisor) ==
    LET x == high * Half + low
    IN  IF x \div divisor < Half THEN QuotRem(x \div divisor, x % divisor)
                                 ELSE Trap
-----------------------------------------------------------------------------
\* Mutant: the high word is not divided when it equals the divisor.
div_u64_rem_above(dividend, divisor) ==
    LET reduce == High(dividend) > divisor
        upper == IF reduce THEN High(dividend) % divisor ELSE High(dividend)
        high == IF reduce THEN High(dividend) \div divisor ELSE 0
        low == Divl(upper, Low(dividend), divisor)
    IN  QuotRem(high * Half + low.quot, low.rem)

div_u64_rem(dividend, divisor) ==
    LET reduce == High(dividend) >= divisor
        upper == IF reduce THEN High(dividend) % divisor ELSE High(dividend)
        high == IF reduce THEN High(dividend) \div divisor ELSE 0
        low == Divl(upper, Low(dividend), divisor)
    IN  QuotRem(high * Half + low.quot, low.rem)

div_u64(dividend, divisor) == div_u64_rem(dividend, divisor).quot

\* do_div: a mask and a shift for a constant power of two, and else as
\* div_u64_rem.
do_div(n, base) ==
    LET upper == IF High(n) # 0 THEN High(n) % base ELSE 0
        high == IF High(n) # 0 THEN High(n) \div base ELSE 0
        low == Divl(upper, Low(n), base)
    IN  QuotRem(high * Half + low.quot, low.rem)

do_div_const(n, base) ==
    IF \E k \in 0..(W - 1) : base = 2^k
    THEN QuotRem(n \div base, n % base)
    ELSE do_div(n, base)

\* Mutant: the remainder keeps the sign of the divisor's absolute value.
div_s64_rem_positive(dividend, divisor) ==
    LET d == div_u64_rem(abs(dividend), abs(divisor))
        quot == IF (dividend < 0) # (divisor < 0) THEN U64(-d.quot) ELSE d.quot
    IN  QuotRem(S64(quot), S32(d.rem))

div_s64_rem(dividend, divisor) ==
    LET d == div_u64_rem(U64(abs(dividend)), Low(abs(divisor)))
        quot == IF (dividend < 0) # (divisor < 0) THEN U64(-d.quot) ELSE d.quot
    IN  QuotRem(S64(quot), S32(IF dividend < 0 THEN -S32(d.rem) ELSE d.rem))

div_s64(dividend, divisor) == div_s64_rem(dividend, divisor).quot

\* fls of fls.h, as its comment has it
last_bit(x) == IF x = 0 THEN 0 ELSE CHOOSE k \in 1..W : 2^(k - 1) <= x /\ x < 2^k

\* Mutant: the estimate is decremented and not corrected.
div64_u64_low(dividend, divisor) ==
    LET n == 1 + last_bit(High(divisor))
        estimate == div_u64(dividend \div 2^n, Low(divisor \div 2^n))
    IN  IF High(divisor) = 0 THEN div_u64(dividend, Low(divisor))
        ELSE IF estimate # 0 THEN estimate - 1 ELSE 0

\* dividend - quot * divisor is computed modulo 2^64: for an estimate that is
\* too big by two or more it is big, too, and quot is incremented.
div64_u64(dividend, divisor) ==
    LET n == 1 + last_bit(High(divisor))
        estimate == div_u64(dividend \div 2^n, Low(divisor \div 2^n))
        quot == IF estimate # 0 THEN estimate - 1 ELSE 0
    IN  IF High(divisor) = 0 THEN div_u64(dividend, Low(divisor))
        ELSE IF U64(dividend - quot * divisor) >= divisor THEN quot + 1
        ELSE quot

div64_s64(dividend, divisor) ==
    LET quot == div64_u64(U64(abs(dividend)), U64(abs(divisor)))
    IN  S64(IF (dividend < 0) # (divisor < 0) THEN -quot ELSE quot)
-----------------------------------------------------------------------------
\* For shifts of at most 32; the high product is shifted left modulo 2^64.
mul_u64_u32_shr(a, mul, shift) ==
    U64((Low(a) * mul) \div 2^shift + U64(High(a) * mul * 2^(W - shift)))

\* Mutant: the carry out of the middle words is lost.
mul_u64_u64_shr_nocarry(a, b, shift) ==
    LET rl == Low(a) * Low(b)
        rm == Low(a) * High(b)
        rn == High(a) * Low(b)
        rh == High(a) * High(b)
        c1 == Low(High(rl) + Low(rm) + Low(rn))
        c2 == U64(High(c1) + High(rm) + High(rn) + Low(rh))
        low == Low(c1) * Half + Low(rl)
        high == Low(High(c2) + High(rh)) * Half + Low(c2)
    IN  IF shift = 0 THEN low
        ELSE IF shift < 2 * W
        THEN low \div 2^shift + U64(high * 2^(2 * W - shift))
        ELSE high \div 2^(shift % (2 * W))

\* Four partial products; c carries from each line to the next.  The two
\* words of a union are its Low and its High.
mul_u64_u64_shr(a, b, shift) ==
    LET rl == Low(a) * Low(b)
        rm == Low(a) * High(b)
        rn == High(a) * Low(b)
        rh == High(a) * High(b)
        c1 == U64(High(rl) + Low(rm) + Low(rn))
        c2 == U64(High(c1) + High(rm) + High(rn) + Low(rh))
        low == Low(c1) * Half + Low(rl)
        high == Low(High(c2) + High(rh)) * Half + Low(c2)
    IN  IF shift = 0 THEN low
        ELSE IF shift < 2 * W
        THEN low \div 2^shift + U64(high * 2^(2 * W - shift))
        ELSE high \div 2^(shift % (2 * W))

\* Mutant: the remainder of the high division is dropped.
mul_u64_u32_div_dropped(a, mul, divisor) ==
    LET rl == Low(a) * mul
        rh == U64(High(a) * mul + High(rl))
    IN  Low(do_div(rh, divisor).quot) * Half + Low(do_div(Low(rl), divisor).quot)

mul_u64_u32_div(a, mul, divisor) ==
    LET rl == Low(a) * mul
        rh == do_div(U64(High(a) * mul + High(rl)), divisor)
        low == do_div(rh.rem * Half + Low(rl), divisor)
    IN  Low(rh.quot) * Half + Low(low.quot)
-----------------------------------------------------------------------------
MathCall(fn, x, y, z, result) ==
    call' = [fn |-> fn, x |-> x, y |-> y, z |-> z, result |-> result]

DivU ==
    /\ call = Idle
    /\ \E x \in u64, y \in u32 \ {0} :
          \/ MathCall("div_u64_rem", x, y, 0, div_u64_rem(x, y))
          \/ MathCall("do_div", x, y, 0, do_div(x, y))
          \/ MathCall("do_div", x, y, 0, do_div_const(x, y))

DivS ==
    /\ call = Idle
    /\ \E x \in s64, y \in s32 \ {0} :
          \/ MathCall("div_s64_rem", x, y, 0, div_s64_rem(x, y))
          \/ MathCall("div_s64", x, y, 0, div_s64(x, y))

Div64by64 ==
    /\ call = Idle
    /\ \/ \E x \in u64, y \in u64 \ {0} :
             MathCall("div64_u64", x, y, 0, div64_u64(x, y))
       \/ \E x \in s64, y \in s64 \ {0} :
             MathCall("div64_s64", x, y, 0, div64_s64(x, y))

MulShr ==
    /\ call = Idle
    /\ \E x \in u64 :
          \/ \E y \in u32, shift \in 0..W :
                MathCall("mul_shr", x, y, shift, mul_u64_u32_shr(x, y, shift))
          \/ \E y \in u64, shift \in 0..(4 * W - 1) :
                MathCall("mul_shr", x, y, shift, mul_u64_u64_shr(x, y, shift))

MulDiv ==
    /\ call = Idle
    /\ \E x \in u64, y \in u32, z \in u32 \ {0} :
          MathCall("mul_div", x, y, z, mul_u64_u32_div(x, y, z))

MathInit == call = Idle

MathNext == DivU \/ DivS \/ Div64by64 \/ MulShr \/ MulDiv \/ Return

MathSpec == MathInit /\ [][MathNext]_call
-----------------------------------------------------------------------------
\* The quotient of C's division, which is cut towards zero.
Quotient(x, y) ==
    IF (x < 0) # (y < 0) THEN -(abs(x) \div abs(y)) ELSE abs(x) \div abs(y)

\* Divisions by a u32: the upper word handed to divl is always below the
\* divisor, so that it does not trap, and the two partial quotients make up
\* the whole one with its remainder.
DivideUnsigned ==
    Called("div_u64_rem") \/ Called("do_div") =>
        call.result = QuotRem(call.x \div call.y, call.x % call.y)

\* Signed division cuts towards zero and the remainder has the sign of the
\* dividend, as math64.h has it for 64-bit machines, although it goes through
\* unsigned words; INT64_MIN / -1 wraps.
DivideSigned ==
    /\ Called("div_s64_rem") =>
          call.result = QuotRem(S64(Quotient(call.x, call.y)),
                                call.x - call.y * Quotient(call.x, call.y))
    /\ Called("div_s64") => call.result = S64(Quotient(call.x, call.y))

\* What is left of div64_u64: it is right when the divisor fits in a u32 or
\* the bits shifted out of it are 0, and else never below the quotient.
Divide64Bounded ==
    Called("div64_u64") =>
        /\ call.result >= call.x \div call.y
        /\ \/ High(call.y) = 0
           \/ call.y % 2^(1 + last_bit(High(call.y))) = 0
           => call.result = call.x \div call.y

\* The comments of math64.h and div64.c: an "unsigned 64bit divide with 64bit
\* divisor".
Divide64Exact == Called("div64_u64") => call.result = call.x \div call.y

\* Products are shifted with all their bits, no carry lost between the
\* partial products; what is above 64 bits goes.
ProductShifted ==
    Called("mul_shr") => call.result = U64((call.x * call.y) \div 2^call.z)

\* a * mul / divisor is exact although a * mul does not fit in a u64.
ProductDivided ==
    Called("mul_div") => call.result = U64((call.x * call.y) \div call.z)

\* The divisions through 32-bit words are those of the whole numbers.
Divides == DivideUnsigned /\ DivideSigned /\ Divide64Bounded

\* So are the products that need more than 64 bits on their way.
Multiplies == ProductShifted /\ ProductDivided
=============================================================================
