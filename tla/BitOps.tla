------------------------------- MODULE BitOps -------------------------------
(***************************************************************************)
(* The bit operations and logarithms of src/uki/fls.h, ffs.h, fls64.h,     *)
(* bitops.h and log2.h as built with BITS_PER_LONG == 32, whatever the     *)
(* width of an unsigned long.  A word is the set of the positions of its   *)
(* ones, so that 32- and 64-bit words are themselves and no model of them. *)
(***************************************************************************)
EXTENDS Integers, FiniteSets, FunctionCalls

CONSTANTS
    UlongBits,          \* bits of an unsigned long
    Words32, Words64    \* the words the functions are called with

ASSUME WordsAssumption ==
    /\ UlongBits \in {32, 64}
    /\ Words32 \subseteq SUBSET (0..31)
    /\ Words64 \subseteq SUBSET (0..63)

\* What asm-generic/bitsperlong.h has, also where an unsigned long has 64 bits.
BITS_PER_LONG == 32

\* x << s and x >> s in words of N bits, and the arithmetic shift.
Shl(x, s, N) == {i + s : i \in x} \cap 0..(N - 1)
Shr(x, s) == {i - s : i \in {j \in x : j >= s}}
Sar(x, s, N) == Shr(x, s) \cup (IF N - 1 \in x THEN (N - s)..(N - 1) ELSE {})

Lowest(x) == CHOOSE i \in x : \A j \in x : i <= j
Highest(x) == CHOOSE i \in x : \A j \in x : i >= j

\* x - 1: the lowest one borrows for the zeros below it.
Pred(x, N) ==
    IF x = {} THEN 0..(N - 1) ELSE (x \ {Lowest(x)}) \cup 0..(Lowest(x) - 1)
-----------------------------------------------------------------------------
(***************************************************************************)
(* Searching for the first and the last one.                               *)
(***************************************************************************)
\* Mutant: r is decreased by one step too few.
UpperEmpty_off(st, s) ==
    IF st.x \cap (32 - s)..31 = {}
    THEN [x |-> Shl(st.x, s, 32), r |-> IF s = 2 THEN st.r - 1 ELSE st.r - s]
    ELSE st

\* One test of fls: if the upper s bits are 0, the rest is shifted up.
UpperEmpty(st, s) ==
    IF st.x \cap (32 - s)..31 = {}
    THEN [x |-> Shl(st.x, s, 32), r |-> st.r - s]
    ELSE st

fls(x) ==
    LET s16 == UpperEmpty([x |-> x, r |-> 32], 16)
        s8 == UpperEmpty(s16, 8)
        s4 == UpperEmpty(s8, 4)
        s2 == UpperEmpty(s4, 2)
    IN  IF x = {} THEN 0 ELSE UpperEmpty(s2, 1).r

\* Mutant: num counts one bit less.
LowerEmpty_off(st, s) ==
    IF st.x \cap 0..(s - 1) = {}
    THEN [x |-> Shr(st.x, s), num |-> IF s = 1 THEN st.num ELSE st.num + s]
    ELSE st

\* One test of __ffs: if the lower s bits are 0, the rest is shifted down.
LowerEmpty(st, s) ==
    IF st.x \cap 0..(s - 1) = {}
    THEN [x |-> Shr(st.x, s), num |-> st.num + s]
    ELSE st

__ffs(x) ==
    LET s16 == LowerEmpty([x |-> x, num |-> 0], 16)
        s8 == LowerEmpty(s16, 8)
        s4 == LowerEmpty(s8, 4)
        s2 == LowerEmpty(s4, 2)
    IN  LowerEmpty(s2, 1).num

LowWord(x) == x \cap 0..31

fls64(x) == IF Shr(x, 32) # {} THEN fls(Shr(x, 32)) + 32 ELSE fls(LowWord(x))

__ffs64(x) ==
    IF LowWord(x) = {} THEN __ffs(Shr(x, 32)) + 32 ELSE __ffs(LowWord(x))

fls_long(x) == IF UlongBits = 32 THEN fls(x) ELSE fls64(x)

get_bitmask_order(count) == fls(count)

get_count_order(count) ==
    IF count \cap Pred(count, 32) # {} THEN fls(count) ELSE fls(count) - 1

\* Mutant: a power of two is rounded up, too.
get_count_order_above(l) == IF l = {} THEN -1 ELSE fls_long(l)

get_count_order_long(l) ==
    IF l = {} THEN -1
    ELSE IF l \cap Pred(l, UlongBits) # {} THEN fls_long(l)
    ELSE fls_long(l) - 1

__ilog2_u32(n) == fls(n) - 1

__ilog2_u64(n) == fls64(n) - 1

\* ilog2 of a constant: the first position from 63 down that is set.
ilog2_const(n) == CHOOSE i \in n : (i + 1)..63 \cap n = {}

is_power_of_2(n) == n # {} /\ n \cap Pred(n, UlongBits) = {}

\* 1UL << s, for a constant or a variable n.
roundup_pow_of_two(n) == Shl({0}, fls_long(Pred(n, UlongBits)), UlongBits)

roundup_const(n) ==
    IF n = {0} THEN {0}
    ELSE Shl({0}, ilog2_const(Pred(n, UlongBits)) + 1, UlongBits)

rounddown_pow_of_two(n) == Shl({0}, fls_long(n) - 1, UlongBits)

order_base_2(n) == __ilog2_u64(roundup_pow_of_two(n))
-----------------------------------------------------------------------------
(***************************************************************************)
(* Rotation, sign extension and masks.                                     *)
(***************************************************************************)
\* A shift by the whole width, which C leaves undefined, either clears the
\* word or leaves it as it is.
ShrWide(x, s, N) == IF s = N THEN {{}, x} ELSE {Shr(x, s)}
ShlWide(x, s, N) == IF s = N THEN {{}, x} ELSE {Shl(x, s, N)}

rol32(x, shift) == Shl(x, shift, 32) \cup Shr(x, (-shift) % 32)

\* Mutant: the bits that come in are one place off.
rol_off(x, shift, N) ==
    {Shl(x, shift, N) \cup y : y \in ShrWide(x, N - shift - 1, N)}

\* rol64, rol16 and rol8; and ror64, ror32, ror16 and ror8.
rol(x, shift, N) == {Shl(x, shift, N) \cup y : y \in ShrWide(x, N - shift, N)}

ror(x, shift, N) == {Shr(x, shift) \cup y : y \in ShlWide(x, N - shift, N)}

\* Mutant: the shift back is that of unsigned words.
sign_extend_unsigned(x, index, N) ==
    Shr(Shl(x, N - 1 - index, N), N - 1 - index)

\* sign_extend32 and sign_extend64
sign_extend(x, index, N) == Sar(Shl(x, N - 1 - index, N), N - 1 - index, N)

\* ~0UL is an unsigned long, the shift is from BITS_PER_LONG.
GENMASK(h, l) ==
    Shl(0..(UlongBits - 1), l, UlongBits)
        \cap Shr(0..(UlongBits - 1), BITS_PER_LONG - 1 - h)

GENMASK_ULL(h, l) == Shl(0..63, l, 64) \cap Shr(0..63, 63 - h)
-----------------------------------------------------------------------------
BitCall(fn, x, y, N, results) ==
    \E result \in results :
        call' = [fn |-> fn, x |-> x, y |-> y, N |-> N, result |-> result]

Longs == IF UlongBits = 32 THEN Words32 ELSE Words64

\* The last one.
Search ==
    /\ call = Idle
    /\ \/ \E x \in Words32 :
             \/ BitCall("fls", x, 0, 32, {fls(x), get_bitmask_order(x)})
             \/ BitCall("fls", x, 0, 32, {__ilog2_u32(x) + 1})
       \/ \E x \in Words64 :
             BitCall("fls", x, 0, 64, {fls64(x), __ilog2_u64(x) + 1})
       \/ \E x \in Longs : BitCall("fls", x, 0, UlongBits, {fls_long(x)})
       \/ \E x \in Words64 \ {{}} :
             BitCall("fls", x, 0, 64, {ilog2_const(x) + 1})

\* The first one; not for 0.
SearchFirst ==
    /\ call = Idle
    /\ \/ \E x \in Longs \ {{}} : BitCall("ffs", x, 0, UlongBits, {__ffs(x)})
       \/ \E x \in Words64 \ {{}} : BitCall("ffs", x, 0, 64, {__ffs64(x)})

\* Powers of two, up to the biggest that fits.
Order ==
    /\ call = Idle
    /\ \/ \E x \in Words32 : BitCall("order", x, 0, 32, {get_count_order(x)})
       \/ \E x \in Longs :
             \/ BitCall("order", x, 0, UlongBits, {get_count_order_long(x)})
             \/ BitCall("power", x, 0, UlongBits, {is_power_of_2(x)})
             \/ /\ x # {}
                /\ BitCall("down", x, 0, UlongBits, {rounddown_pow_of_two(x)})
             \/ /\ x # {} /\ (UlongBits - 1 \in x => x = {UlongBits - 1})
                /\ \/ BitCall("up", x, 0, UlongBits,
                           {roundup_pow_of_two(x), roundup_const(x)})
                   \/ BitCall("order", x, 0, UlongBits, {order_base_2(x)})

Rotate ==
    /\ call = Idle
    /\ \E N \in {8, 16, 32, 64}, x \in Words64 :
          \E shift \in 0..(N - 1) :
             \/ /\ x \subseteq 0..(N - 1)
                /\ N # 32
                /\ BitCall("rol", x, shift, N, rol(x, shift, N))
             \/ /\ x \subseteq 0..(N - 1)
                /\ BitCall("ror", x, shift, N, ror(x, shift, N))
             \/ /\ x \subseteq 0..31
                /\ N = 32
                /\ BitCall("rol", x, shift, 32, {rol32(x, shift)})

Extend ==
    /\ call = Idle
    /\ \/ \E N \in {32, 64}, x \in Words64 : \E index \in 0..(N - 1) :
             /\ x \subseteq 0..(N - 1)
             /\ BitCall("extend", x, index, N, {sign_extend(x, index, N)})
       \/ \E h \in 0..(BITS_PER_LONG - 1) : \E l \in 0..h :
             BitCall("mask", l, h, UlongBits, {GENMASK(h, l)})
       \/ \E h \in 0..63 : \E l \in 0..h :
             BitCall("mask", l, h, 64, {GENMASK_ULL(h, l)})

BitInit == call = Idle

BitNext == Search \/ SearchFirst \/ Order \/ Rotate \/ Extend \/ Return

BitSpec == BitInit /\ [][BitNext]_call
-----------------------------------------------------------------------------
\* fls: the position of the last one, counted from 1, as the binary search
\* of fls and the splitting of fls64 find it; 0 for 0.
IsFls(x, result) == result = IF x = {} THEN 0 ELSE Highest(x) + 1

FindsLast == Called("fls") => IsFls(call.x, call.result)

\* __ffs, __ffs64: the position of the first one.
FindsFirst == Called("ffs") => call.result = Lowest(call.x)

\* x <= 2^k
AtMostPower(x, k) == x = {} \/ x = {k} \/ Highest(x) < k

\* The orders, and rounding to powers of two, up and down: the power next to
\* the number and no other, at the powers themselves and next to them.
OrdersAndPowers ==
    LET x == call.x
    IN  /\ Called("power") => call.result = (Cardinality(x) = 1)
        /\ Called("order") /\ x # {} =>
              /\ AtMostPower(x, call.result)
              /\ ~ AtMostPower(x, call.result - 1)
        /\ Called("order") /\ x = {} => call.result = -1
        /\ Called("up") =>
              \E k \in 0..(call.N - 1) :
                  /\ call.result = {k}
                  /\ AtMostPower(x, k) /\ ~ AtMostPower(x, k - 1)
        /\ Called("down") => call.result = {Highest(x)}

\* Rotation moves every bit round, none lost, for a shift of 0 and whatever
\* the machine makes of a shift by the whole width.
RotatesAll ==
    /\ Called("rol") => call.result = {(i + call.y) % call.N : i \in call.x}
    /\ Called("ror") => call.result = {(i - call.y) % call.N : i \in call.x}

\* Sign extension copies the bit at index into all above it.
ExtendsSign ==
    Called("extend") =>
        call.result = (call.x \cap 0..call.y)
            \cup (IF call.y \in call.x THEN call.y..(call.N - 1) ELSE {})

\* GENMASK(h, l) and GENMASK_ULL(h, l) are the bits l to h, the former if an
\* unsigned long has BITS_PER_LONG bits.
MasksRange == Called("mask") => call.result = call.x..call.y

\* Orders, powers, rotations, extensions and masks are what they are of the
\* set of bits.
WordsAsDefined == OrdersAndPowers /\ RotatesAll /\ ExtendsSign /\ MasksRange
=============================================================================
