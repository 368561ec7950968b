---------------------------- MODULE BitOpsProofs ----------------------------
(***************************************************************************)
(* The binary searches of fls and __ffs find the last and the first one of *)
(* every word, and the orders, powers of two, rotations, extensions and    *)
(* masks are what they are of the set of bits, whatever words the          *)
(* functions are called with; and the cmpxchg loops of bitops.h implement  *)
(* AtomicBits for any number of threads, any word and any set of calls.    *)
(***************************************************************************)
EXTENDS BitOps, MaskBits, FiniteSetTheorems, TLAPS

(***************************************************************************)
(* The searches.  Each test of fls keeps the word moved up by 32 - r       *)
(* places, with nothing lost at the top, and halves the zeros above the    *)
(* last one; that there is a last one comes out of the search and is not   *)
(* put into it.  The tests of __ffs do the same downwards.                 *)
(***************************************************************************)
Word32 == SUBSET (0..31)

\* st is x moved up, and one of its upper s bits is set.
MovedUp(x, st, s) ==
    /\ st.x \in Word32
    /\ st.r \in 0..32
    /\ st.x = {i + (32 - st.r) : i \in x}
    /\ st.x \cap (32 - s)..31 # {}

\* st is x moved down, and one of its lower s bits is set.
MovedDown(x, st, s) ==
    /\ st.x \in Word32
    /\ st.num \in Nat
    /\ st.x = {i - st.num : i \in x}
    /\ st.x \cap 0..(s - 1) # {}

\* A test of fls with s takes the words whose upper 2 s bits are not all zero
\* to words whose upper s bits are not.
LEMMA UpperEmptyMoves ==
    ASSUME NEW x \in Word32, NEW st, NEW s \in 1..16, MovedUp(x, st, 2 * s)
    PROVE  MovedUp(x, UpperEmpty(st, s), s)
<1> DEFINE new == UpperEmpty(st, s)
<1>1. CASE st.x \cap (32 - s)..31 # {}
  BY <1>1 DEF UpperEmpty, MovedUp
<1>2. CASE st.x \cap (32 - s)..31 = {}
  <2>1. new.x = Shl(st.x, s, 32) /\ new.r = st.r - s
    BY <1>2 DEF UpperEmpty
  <2>2. \A i \in st.x : i \in 0..31 /\ i < 32 - s
    <3>1. \A i \in st.x : i \in 0..31
      BY DEF MovedUp, Word32
    <3>2. \A i \in st.x : i \notin (32 - s)..31
      BY <1>2
    <3> QED
      BY <3>1, <3>2
  <2>3. new.x = {i + s : i \in st.x}
    BY <2>1, <2>2 DEF Shl
  <2>4. new.x \in Word32
    BY <2>2, <2>3 DEF Word32
  <2>5. PICK i \in st.x : i >= 32 - 2 * s
    BY DEF MovedUp
  <2>6. i + s \in new.x /\ i + s \in (32 - s)..31
    BY <2>2, <2>3, <2>5
  <2>7. PICK j \in x : i = j + (32 - st.r)
    BY <2>5 DEF MovedUp
  <2>8. new.r \in 0..32
    BY <2>1, <2>2, <2>5, <2>7 DEF MovedUp, Word32
  <2>9. new.x = {k + (32 - new.r) : k \in x}
    <3>1. \A k \in x : (k + (32 - st.r)) + s = k + (32 - new.r)
      BY <2>1 DEF MovedUp, Word32
    <3> QED
      BY <2>3, <3>1 DEF MovedUp
  <2> QED
    BY <2>4, <2>6, <2>8, <2>9 DEF MovedUp
<1> QED
  BY <1>1, <1>2

\* fls(x) - 1 is the position of the last one.
LEMMA FlsLast ==
    ASSUME NEW x \in Word32, x # {}
    PROVE  /\ fls(x) \in 1..32
           /\ fls(x) - 1 \in x
           /\ \A i \in x : i <= fls(x) - 1
<1> DEFINE s0 == [x |-> x, r |-> 32]
           s16 == UpperEmpty(s0, 16)
           s8 == UpperEmpty(s16, 8)
           s4 == UpperEmpty(s8, 4)
           s2 == UpperEmpty(s4, 2)
           s1 == UpperEmpty(s2, 1)
<1>0. fls(x) = s1.r
  BY DEF fls
<1>1. MovedUp(x, s0, 2 * 16)
  <2>1. \A i \in x : i \in 0..31 /\ i + (32 - 32) = i
    BY DEF Word32
  <2>2. x = {i + (32 - 32) : i \in x}
    BY <2>1
  <2> QED
    BY <2>1, <2>2 DEF MovedUp, Word32
<1> HIDE DEF s0
<1>2. MovedUp(x, s16, 2 * 8)
  BY <1>1, UpperEmptyMoves, 2 * 8 = 16, 16 \in 1..16
<1> HIDE DEF s16
<1>3. MovedUp(x, s8, 2 * 4)
  BY <1>2, UpperEmptyMoves, 2 * 4 = 8, 8 \in 1..16
<1> HIDE DEF s8
<1>4. MovedUp(x, s4, 2 * 2)
  BY <1>3, UpperEmptyMoves, 2 * 2 = 4, 4 \in 1..16
<1> HIDE DEF s4
<1>5. MovedUp(x, s2, 2 * 1)
  BY <1>4, UpperEmptyMoves, 2 * 1 = 2, 2 \in 1..16
<1> HIDE DEF s2
<1>6. MovedUp(x, s1, 1)
  BY <1>5, UpperEmptyMoves, 1 \in 1..16
<1> HIDE DEF s1
<1>7. 31 \in s1.x
  BY <1>6 DEF MovedUp
<1>8. PICK i \in x : 31 = i + (32 - s1.r)
  BY <1>6, <1>7 DEF MovedUp
<1>9. \A j \in x : j + (32 - s1.r) \in 0..31
  BY <1>6 DEF MovedUp, Word32
<1> QED
  BY <1>0, <1>6, <1>8, <1>9 DEF MovedUp, Word32
-----------------------------------------------------------------------------
\* A test of __ffs with s takes the words whose lower 2 s bits are not all
\* zero to words whose lower s bits are not.
LEMMA LowerEmptyMoves ==
    ASSUME NEW x \in Word32, NEW st, NEW s \in 1..16, MovedDown(x, st, 2 * s)
    PROVE  MovedDown(x, LowerEmpty(st, s), s)
<1> DEFINE new == LowerEmpty(st, s)
<1>1. CASE st.x \cap 0..(s - 1) # {}
  BY <1>1 DEF LowerEmpty, MovedDown
<1>2. CASE st.x \cap 0..(s - 1) = {}
  <2>1. new.x = Shr(st.x, s) /\ new.num = st.num + s
    BY <1>2 DEF LowerEmpty
  <2>2. \A i \in st.x : i \in 0..31 /\ i >= s
    <3>1. \A i \in st.x : i \in 0..31
      BY DEF MovedDown, Word32
    <3>2. \A i \in st.x : i \notin 0..(s - 1)
      BY <1>2
    <3> QED
      BY <3>1, <3>2
  <2>3. new.x = {i - s : i \in st.x}
    BY <2>1, <2>2 DEF Shr
  <2>4. new.x \in Word32
    BY <2>2, <2>3 DEF Word32
  <2>5. PICK i \in st.x : i <= 2 * s - 1
    BY DEF MovedDown
  <2>6. i - s \in new.x /\ i - s \in 0..(s - 1)
    BY <2>2, <2>3, <2>5
  <2>7. new.num \in Nat
    BY <2>1 DEF MovedDown
  <2>8. new.x = {k - new.num : k \in x}
    <3>1. \A k \in x : (k - st.num) - s = k - new.num
      BY <2>1 DEF MovedDown, Word32
    <3> QED
      BY <2>3, <3>1 DEF MovedDown
  <2> QED
    BY <2>4, <2>6, <2>7, <2>8 DEF MovedDown
<1> QED
  BY <1>1, <1>2

\* __ffs(x) is the position of the first one.
LEMMA FfsFirst ==
    ASSUME NEW x \in Word32, x # {}
    PROVE  __ffs(x) \in x /\ \A i \in x : __ffs(x) <= i
<1> DEFINE s0 == [x |-> x, num |-> 0]
           s16 == LowerEmpty(s0, 16)
           s8 == LowerEmpty(s16, 8)
           s4 == LowerEmpty(s8, 4)
           s2 == LowerEmpty(s4, 2)
           s1 == LowerEmpty(s2, 1)
<1>0. __ffs(x) = s1.num
  BY DEF __ffs
<1>1. MovedDown(x, s0, 2 * 16)
  <2>1. \A i \in x : i \in 0..31 /\ i - 0 = i
    BY DEF Word32
  <2>2. x = {i - 0 : i \in x}
    BY <2>1
  <2> QED
    BY <2>1, <2>2 DEF MovedDown, Word32
<1> HIDE DEF s0
<1>2. MovedDown(x, s16, 2 * 8)
  BY <1>1, LowerEmptyMoves, 2 * 8 = 16, 16 \in 1..16
<1> HIDE DEF s16
<1>3. MovedDown(x, s8, 2 * 4)
  BY <1>2, LowerEmptyMoves, 2 * 4 = 8, 8 \in 1..16
<1> HIDE DEF s8
<1>4. MovedDown(x, s4, 2 * 2)
  BY <1>3, LowerEmptyMoves, 2 * 2 = 4, 4 \in 1..16
<1> HIDE DEF s4
<1>5. MovedDown(x, s2, 2 * 1)
  BY <1>4, LowerEmptyMoves, 2 * 1 = 2, 2 \in 1..16
<1> HIDE DEF s2
<1>6. MovedDown(x, s1, 1)
  BY <1>5, LowerEmptyMoves, 1 \in 1..16
<1> HIDE DEF s1
<1>7. 0 \in s1.x
  BY <1>6 DEF MovedDown
<1>8. PICK i \in x : 0 = i - s1.num
  BY <1>6, <1>7 DEF MovedDown
<1>9. \A j \in x : j - s1.num \in 0..31
  BY <1>6 DEF MovedDown, Word32
<1> QED
  BY <1>0, <1>6, <1>8, <1>9 DEF MovedDown, Word32
-----------------------------------------------------------------------------
Word64 == SUBSET (0..63)

\* The two halves of a 64-bit word.
LEMMA Halves ==
    ASSUME NEW x \in Word64
    PROVE  /\ LowWord(x) \in Word32 /\ Shr(x, 32) \in Word32
           /\ \A i \in x : i \in LowWord(x) \/ (i >= 32 /\ i - 32 \in Shr(x, 32))
           /\ \A i \in LowWord(x) : i \in x
           /\ \A i \in Shr(x, 32) : i + 32 \in x
<1>1. LowWord(x) \in Word32
  BY DEF LowWord, Word32
<1>2. Shr(x, 32) = {i - 32 : i \in {j \in x : j >= 32}}
  BY DEF Shr
<1>3. \A i \in x : i \in 0..63
  BY DEF Word64
<1>4. Shr(x, 32) \in Word32
  BY <1>2, <1>3 DEF Word32
<1>5. \A i \in x : i \in LowWord(x) \/ (i >= 32 /\ i - 32 \in Shr(x, 32))
  BY <1>2, <1>3 DEF LowWord
<1>6. \A i \in Shr(x, 32) : i + 32 \in x
  BY <1>2, <1>3
<1> QED
  BY <1>1, <1>4, <1>5, <1>6 DEF LowWord

\* fls64(x) - 1 is the position of the last one.
LEMMA Fls64Last ==
    ASSUME NEW x \in Word64, x # {}
    PROVE  /\ fls64(x) \in 1..64
           /\ fls64(x) - 1 \in x
           /\ \A i \in x : i <= fls64(x) - 1
<1> DEFINE high == Shr(x, 32)
           low == LowWord(x)
<1>1. /\ low \in Word32 /\ high \in Word32
      /\ \A i \in x : i \in low \/ (i >= 32 /\ i - 32 \in high)
      /\ \A i \in low : i \in x
      /\ \A i \in high : i + 32 \in x
  BY Halves
<1>2. \A i \in x : i \in 0..63
  BY DEF Word64
<1>3. \A i \in low : i \in 0..31
  BY <1>1 DEF Word32
<1>4. fls64(x) = IF high # {} THEN fls(high) + 32 ELSE fls(low)
  BY DEF fls64
<1> HIDE DEF high, low
<1>5. CASE high # {}
  <2>1. /\ fls(high) \in 1..32 /\ fls(high) - 1 \in high
        /\ \A i \in high : i <= fls(high) - 1
    BY <1>1, <1>5, FlsLast
  <2>2. \A i \in x : i <= fls(high) + 31
    BY <1>1, <1>2, <1>3, <2>1
  <2>3. fls(high) + 31 \in x
    BY <1>1, <2>1
  <2> QED
    BY <1>4, <1>5, <2>1, <2>2, <2>3
<1>6. CASE high = {}
  <2>1. low # {} /\ \A i \in x : i \in low
    BY <1>1, <1>6
  <2>2. /\ fls(low) \in 1..32 /\ fls(low) - 1 \in low
        /\ \A i \in low : i <= fls(low) - 1
    BY <1>1, <2>1, FlsLast
  <2> QED
    BY <1>1, <1>4, <1>6, <2>1, <2>2
<1> QED
  BY <1>5, <1>6

\* __ffs64(x) is the position of the first one.
LEMMA Ffs64First ==
    ASSUME NEW x \in Word64, x # {}
    PROVE  __ffs64(x) \in x /\ \A i \in x : __ffs64(x) <= i
<1> DEFINE high == Shr(x, 32)
           low == LowWord(x)
<1>1. /\ low \in Word32 /\ high \in Word32
      /\ \A i \in x : i \in low \/ (i >= 32 /\ i - 32 \in high)
      /\ \A i \in low : i \in x
      /\ \A i \in high : i + 32 \in x
  BY Halves
<1>2. \A i \in x : i \in 0..63
  BY DEF Word64
<1>3. (\A i \in low : i \in 0..31) /\ (\A i \in high : i \in 0..31)
  BY <1>1 DEF Word32
<1>4. __ffs64(x) = IF low = {} THEN __ffs(high) + 32 ELSE __ffs(low)
  BY DEF __ffs64
<1> HIDE DEF high, low
<1>5. CASE low = {}
  <2>1. high # {} /\ \A i \in x : i - 32 \in high
    BY <1>1, <1>5
  <2>2. __ffs(high) \in high /\ \A i \in high : __ffs(high) <= i
    BY <1>1, <2>1, FfsFirst
  <2>3. \A i \in x : __ffs(high) + 32 <= i
    BY <1>2, <1>3, <2>1, <2>2
  <2> QED
    BY <1>1, <1>4, <1>5, <2>2, <2>3
<1>6. CASE low # {}
  <2>1. __ffs(low) \in low /\ \A i \in low : __ffs(low) <= i
    BY <1>1, <1>6, FfsFirst
  <2>2. \A i \in x : __ffs(low) <= i
    BY <1>1, <1>2, <1>3, <2>1
  <2> QED
    BY <1>1, <1>4, <1>6, <2>1, <2>2
<1> QED
  BY <1>5, <1>6
-----------------------------------------------------------------------------
\* Highest and Lowest are what the searches find.
LEMMA HighestIs ==
    ASSUME NEW x \in SUBSET Int, NEW h \in x, \A i \in x : i <= h
    PROVE  Highest(x) = h
<1>1. \A j \in x : h >= j
  OBVIOUS
<1>2. Highest(x) \in x /\ \A j \in x : Highest(x) >= j
  BY <1>1 DEF Highest
<1>3. Highest(x) \in Int /\ h \in Int
  BY <1>2
<1>4. Highest(x) <= h /\ h <= Highest(x)
  BY <1>2
<1> QED
  BY <1>3, <1>4

\* The lowest member of a set with a least one.
LEMMA LowestIs ==
    ASSUME NEW x \in SUBSET Int, NEW l \in x, \A i \in x : l <= i
    PROVE  Lowest(x) = l
<1>1. \A j \in x : l <= j
  OBVIOUS
<1>2. Lowest(x) \in x /\ \A j \in x : Lowest(x) <= j
  BY <1>1 DEF Lowest
<1>3. Lowest(x) \in Int /\ l \in Int
  BY <1>2
<1>4. Lowest(x) <= l /\ l <= Lowest(x)
  BY <1>2
<1> QED
  BY <1>3, <1>4

\* fls finds the last one, and 0 in an empty word.
LEMMA FlsIs == ASSUME NEW x \in Word32 PROVE IsFls(x, fls(x))
<1>1. CASE x = {}
  BY <1>1 DEF fls, IsFls
<1>2. CASE x # {}
  <2>1. Highest(x) = fls(x) - 1
    BY <1>2, FlsLast, HighestIs DEF Word32
  <2> QED
    BY <1>2, <2>1, FlsLast DEF IsFls
<1> QED
  BY <1>1, <1>2

\* So does fls64.
LEMMA Fls64Is == ASSUME NEW x \in Word64 PROVE IsFls(x, fls64(x))
<1>1. CASE x = {}
  <2>1. Shr(x, 32) = {} /\ LowWord(x) = {}
    BY <1>1 DEF Shr, LowWord
  <2> QED
    BY <1>1, <2>1 DEF fls64, fls, IsFls
<1>2. CASE x # {}
  <2>1. Highest(x) = fls64(x) - 1
    BY <1>2, Fls64Last, HighestIs DEF Word64
  <2> QED
    BY <1>2, <2>1, Fls64Last DEF IsFls
<1> QED
  BY <1>1, <1>2

\* The chain of tests that ilog2 makes of a constant stops at the last one.
LEMMA Ilog2Is ==
    ASSUME NEW x \in Word64, x # {}
    PROVE  IsFls(x, ilog2_const(x) + 1)
<1> DEFINE h == fls64(x) - 1
<1>1. h \in x /\ \A i \in x : i <= h
  BY Fls64Last
<1>2. \A i \in x : i \in 0..63
  BY DEF Word64
<1> HIDE DEF h
<1>3. (h + 1)..63 \cap x = {}
  BY <1>1, <1>2
<1>4. \A i \in x : (i + 1)..63 \cap x = {} => i = h
  BY <1>1, <1>2
<1>5. ilog2_const(x) = h
  BY <1>1, <1>3, <1>4 DEF ilog2_const
<1>6. Highest(x) = h
  BY <1>1, <1>2, HighestIs
<1> QED
  BY <1>5, <1>6 DEF IsFls

-----------------------------------------------------------------------------
\* Every step that calls one of these functions gives what is searched for.
LEMMA CallFields ==
    ASSUME NEW fn, NEW x, NEW y, NEW N, NEW results, BitCall(fn, x, y, N, results)
    PROVE  call'.fn = fn /\ call'.x = x /\ call'.result \in results
BY DEF BitCall

\* Every call of a search for the last one returns what FindsLast wants.
LEMMA SearchStep == ASSUME Search PROVE FindsLast'
<1>1. PICK x : IsFls(x, call'.result) /\ call'.x = x
  <2>1. CASE \E x \in Words32 :
               \/ BitCall("fls", x, 0, 32, {fls(x), get_bitmask_order(x)})
               \/ BitCall("fls", x, 0, 32, {__ilog2_u32(x) + 1})
    <3>1. PICK x \in Words32 :
               \/ BitCall("fls", x, 0, 32, {fls(x), get_bitmask_order(x)})
               \/ BitCall("fls", x, 0, 32, {__ilog2_u32(x) + 1})
      BY <2>1
    <3>2. x \in Word32
      BY WordsAssumption DEF Word32
    <3>3. fls(x) \in Int
      BY <3>2, FlsLast DEF fls
    <3>4. call'.x = x /\ call'.result = fls(x)
      BY <3>1, <3>3, CallFields DEF get_bitmask_order, __ilog2_u32
    <3> QED
      BY <3>2, <3>4, FlsIs
  <2>2. CASE \E x \in Words64 :
               BitCall("fls", x, 0, 64, {fls64(x), __ilog2_u64(x) + 1})
    <3>1. PICK x \in Words64 :
               BitCall("fls", x, 0, 64, {fls64(x), __ilog2_u64(x) + 1})
      BY <2>2
    <3>2. x \in Word64
      BY WordsAssumption DEF Word64
    <3>3. fls64(x) \in Int
      <4>1. CASE x = {}
        <5>1. Shr(x, 32) = {} /\ LowWord(x) = {}
          BY <4>1 DEF Shr, LowWord
        <5> QED
          BY <5>1 DEF fls64, fls
      <4>2. CASE x # {}
        BY <3>2, <4>2, Fls64Last
      <4> QED
        BY <4>1, <4>2
    <3>4. call'.x = x /\ call'.result = fls64(x)
      BY <3>1, <3>3, CallFields DEF __ilog2_u64
    <3> QED
      BY <3>2, <3>4, Fls64Is
  <2>3. CASE \E x \in Longs : BitCall("fls", x, 0, UlongBits, {fls_long(x)})
    <3>1. PICK x \in Longs : BitCall("fls", x, 0, UlongBits, {fls_long(x)})
      BY <2>3
    <3>2. call'.x = x /\ call'.result = fls_long(x)
      BY <3>1, CallFields
    <3>3. CASE UlongBits = 32
      BY <3>2, <3>3, FlsIs, WordsAssumption DEF Longs, Word32, fls_long
    <3>4. CASE UlongBits = 64
      BY <3>2, <3>4, Fls64Is, WordsAssumption DEF Longs, Word64, fls_long
    <3> QED
      BY <3>3, <3>4, WordsAssumption
  <2>4. CASE \E x \in Words64 \ {{}} :
               BitCall("fls", x, 0, 64, {ilog2_const(x) + 1})
    <3>1. PICK x \in Words64 \ {{}} :
               BitCall("fls", x, 0, 64, {ilog2_const(x) + 1})
      BY <2>4
    <3>2. call'.x = x /\ call'.result = ilog2_const(x) + 1
      BY <3>1, CallFields
    <3> QED
      BY <3>2, Ilog2Is, WordsAssumption DEF Word64
  <2> QED
    BY <2>1, <2>2, <2>3, <2>4 DEF Search
<1> QED
  BY <1>1 DEF FindsLast, Called

\* Every call of a search for the first one returns what FindsFirst wants.
LEMMA SearchFirstStep == ASSUME UlongBits = 32, SearchFirst PROVE FindsFirst'
<1>1. CASE \E x \in Longs \ {{}} : BitCall("ffs", x, 0, UlongBits, {__ffs(x)})
  <2>1. PICK x \in Longs \ {{}} : BitCall("ffs", x, 0, UlongBits, {__ffs(x)})
    BY <1>1
  <2>2. x \in Word32
    BY WordsAssumption DEF Longs, Word32
  <2>3. call'.x = x /\ call'.result = __ffs(x)
    BY <2>1, CallFields
  <2>4. __ffs(x) \in x /\ \A i \in x : __ffs(x) <= i
    BY <2>2, FfsFirst
  <2>5. x \in SUBSET Int
    BY <2>2 DEF Word32
  <2>6. Lowest(x) = __ffs(x)
    BY <2>4, <2>5, LowestIs
  <2> QED
    BY <2>3, <2>6 DEF FindsFirst
<1>2. CASE \E x \in Words64 \ {{}} : BitCall("ffs", x, 0, 64, {__ffs64(x)})
  <2>1. PICK x \in Words64 \ {{}} : BitCall("ffs", x, 0, 64, {__ffs64(x)})
    BY <1>2
  <2>2. x \in Word64
    BY WordsAssumption DEF Word64
  <2>3. call'.x = x /\ call'.result = __ffs64(x)
    BY <2>1, CallFields
  <2>4. __ffs64(x) \in x /\ \A i \in x : __ffs64(x) <= i
    BY <2>2, Ffs64First
  <2>5. x \in SUBSET Int
    BY <2>2 DEF Word64
  <2>6. Lowest(x) = __ffs64(x)
    BY <2>4, <2>5, LowestIs
  <2> QED
    BY <2>3, <2>6 DEF FindsFirst
<1> QED
  BY <1>1, <1>2 DEF SearchFirst

\* The other steps call functions of other names.
LEMMA OtherCalls ==
    /\ Order => call'.fn \in {"order", "power", "down", "up"}
    /\ Rotate => call'.fn \in {"rol", "ror"}
    /\ Extend => call'.fn \in {"extend", "mask"}
    /\ Return => call'.fn = "none"
<1>1. ASSUME Order PROVE call'.fn \in {"order", "power", "down", "up"}
  BY <1>1 DEF Order, BitCall
<1>2. ASSUME Rotate PROVE call'.fn \in {"rol", "ror"}
  <2>1. PICK N, x, shift :
           \/ BitCall("rol", x, shift, N, rol(x, shift, N))
           \/ BitCall("ror", x, shift, N, ror(x, shift, N))
           \/ BitCall("rol", x, shift, 32, {rol32(x, shift)})
    BY <1>2 DEF Rotate
  <2> QED
    BY <2>1 DEF BitCall
<1>3. ASSUME Extend PROVE call'.fn \in {"extend", "mask"}
  <2>1. PICK fn \in {"extend", "mask"} :
            \E x, y, N, results : BitCall(fn, x, y, N, results)
    BY <1>3, Zenon DEF Extend
  <2> QED
    BY <2>1 DEF BitCall
<1>4. ASSUME Return PROVE call'.fn = "none"
  BY <1>4 DEF Return, Idle
<1> QED
  BY <1>1, <1>2, <1>3, <1>4

\* They are no searches.
LEMMA OtherStep ==
    ASSUME Order \/ Rotate \/ Extend \/ Return
    PROVE  call'.fn \notin {"fls", "ffs"}
BY OtherCalls

\* Every call of fls, fls64, fls_long, get_bitmask_order and ilog2 gives the
\* position of the last one.
THEOREM LastIsFound == BitSpec => []FindsLast
<1>1. BitInit => FindsLast
  BY DEF BitInit, Idle, FindsLast, Called
<1>2. FindsLast /\ [BitNext]_call => FindsLast'
  <2>1. SearchFirst => call'.fn = "ffs"
    BY CallFields DEF SearchFirst
  <2> QED
    BY <2>1, SearchStep, OtherStep DEF BitNext, FindsLast, Called
<1> QED
  BY <1>1, <1>2, PTL DEF BitSpec

\* Every call of __ffs and __ffs64 gives the position of the first one, where
\* a long has the 32 bits that BITS_PER_LONG says.
THEOREM FirstIsFound == UlongBits = 32 /\ BitSpec => []FindsFirst
<1> SUFFICES ASSUME UlongBits = 32 PROVE BitSpec => []FindsFirst
  OBVIOUS
<1>1. BitInit => FindsFirst
  BY DEF BitInit, Idle, FindsFirst, Called
<1>2. FindsFirst /\ [BitNext]_call => FindsFirst'
  <2>1. Search => call'.fn = "fls"
    BY CallFields DEF Search
  <2> QED
    BY <2>1, SearchFirstStep, OtherStep DEF BitNext, FindsFirst, Called
<1> QED
  BY <1>1, <1>2, PTL DEF BitSpec

-----------------------------------------------------------------------------
(***************************************************************************)
(* Orders and powers of two.                                               *)
(***************************************************************************)
\* A word that is not 0 has a first and a last one.
LEMMA Ends ==
    ASSUME NEW x \in Word64, x # {}
    PROVE  /\ Highest(x) \in x /\ Lowest(x) \in x
           /\ \A i \in x : Lowest(x) <= i /\ i <= Highest(x)
           /\ Highest(x) \in 0..63 /\ Lowest(x) \in 0..63
           /\ (\A i \in x : i = Lowest(x)) <=> x = {Highest(x)}
<1>1. x \in SUBSET Int /\ \A i \in x : i \in 0..63
  BY DEF Word64
<1>2. PICK h \in x : \A i \in x : i <= h
  <2>1. fls64(x) - 1 \in x /\ \A i \in x : i <= fls64(x) - 1
    BY Fls64Last
  <2> QED
    BY <2>1
<1>3. PICK l \in x : \A i \in x : l <= i
  <2>1. __ffs64(x) \in x /\ \A i \in x : __ffs64(x) <= i
    BY Ffs64First
  <2> QED
    BY <2>1
<1>4. Highest(x) = h
  BY <1>1, <1>2, HighestIs
<1>5. Lowest(x) = l
  BY <1>1, <1>3, LowestIs
<1>6. (\A i \in x : i = l) <=> x = {h}
  OBVIOUS
<1> QED
  BY <1>1, <1>2, <1>3, <1>4, <1>5, <1>6

\* x & (x - 1) takes the first one away, and is 0 only for a power of two.
LEMMA PredCuts ==
    ASSUME NEW N \in 1..64, NEW x \in SUBSET (0..(N - 1)), x # {}
    PROVE  (x \cap Pred(x, N) = {}) <=> x = {Highest(x)}
<1>1. x \in Word64
  BY DEF Word64
<1>2. PICK l \in x : /\ l = Lowest(x) /\ l \in 0..63 /\ \A i \in x : l <= i
                     /\ (\A i \in x : i = l) <=> x = {Highest(x)}
  BY <1>1, Ends
<1>3. Pred(x, N) = (x \ {l}) \cup 0..(l - 1)
  BY <1>2 DEF Pred
<1>4. \A i \in x : i \notin 0..(l - 1)
  <2>1. \A i \in x : i \in 0..63
    BY <1>1 DEF Word64
  <2> QED
    BY <1>2, <2>1
<1>5. x \cap Pred(x, N) = x \ {l}
  BY <1>3, <1>4
<1> QED
  BY <1>2, <1>5

\* The order of a number: the exponent of the power of two at or above it.
Order2(x) == IF x = {Highest(x)} THEN Highest(x) ELSE Highest(x) + 1

\* It is that, and the next one below is not enough.
LEMMA OrderIs ==
    ASSUME NEW x \in Word64, x # {}
    PROVE  /\ AtMostPower(x, Order2(x)) /\ ~ AtMostPower(x, Order2(x) - 1)
           /\ Order2(x) \in 0..64
<1>1. PICK h \in x : h = Highest(x) /\ h \in 0..63
  BY Ends
<1>2. x # {h - 1}
  BY <1>1
<1> QED
  BY <1>1, <1>2 DEF AtMostPower, Order2

\* Longs are words of 64 bits, or the 32 lower ones of them, and fls_long
\* searches them.
LEMMA LongIs ==
    ASSUME NEW x \in SUBSET (0..(UlongBits - 1))
    PROVE  /\ x \in Word64 /\ IsFls(x, fls_long(x))
           /\ UlongBits \in 1..64 /\ UlongBits - 1 \in 0..63
<1>1. CASE UlongBits = 32
  <2>1. x \in Word32 /\ x \in Word64
    BY <1>1 DEF Word32, Word64
  <2> QED
    BY <1>1, <2>1, FlsIs DEF fls_long
<1>2. CASE UlongBits = 64
  <2>1. x \in Word64
    BY <1>2 DEF Word64
  <2> QED
    BY <1>2, <2>1, Fls64Is DEF fls_long
<1> QED
  BY <1>1, <1>2, WordsAssumption

\* The functions are called with longs.
LEMMA LongsAre == \A x \in Longs : x \in SUBSET (0..(UlongBits - 1))
<1>1. CASE UlongBits = 32
  BY <1>1, WordsAssumption DEF Longs
<1>2. CASE UlongBits = 64
  BY <1>2, WordsAssumption DEF Longs
<1> QED
  BY <1>1, <1>2, WordsAssumption

\* The last one of x - 1 is where the order of x says, if there is one.
LEMMA PredLast ==
    ASSUME NEW N \in 1..64, NEW x \in SUBSET (0..(N - 1)), x # {},
           NEW r, IsFls(Pred(x, N), r)
    PROVE  /\ r = Order2(x) /\ Pred(x, N) \in SUBSET (0..(N - 1))
           /\ x # {0} => Pred(x, N) # {}
<1>1. x \in Word64
  BY DEF Word64
<1>2. PICK l \in x : /\ l = Lowest(x) /\ l \in 0..63 /\ \A i \in x : l <= i
                     /\ (\A i \in x : i = l) <=> x = {Highest(x)}
  BY <1>1, Ends
<1>3. PICK h \in x : h = Highest(x) /\ h \in 0..63 /\ \A i \in x : i <= h
  BY <1>1, Ends
<1>4. PICK p : p = Pred(x, N)
  OBVIOUS
<1>5. p = (x \ {l}) \cup 0..(l - 1)
  BY <1>2, <1>4 DEF Pred
<1>6. p \in SUBSET (0..(N - 1)) /\ p \in SUBSET Int
  <2>1. \A i \in 0..(l - 1) : i \in 0..(N - 1)
    BY <1>2
  <2> QED
    BY <1>5, <2>1
<1>7. CASE x = {h}
  <2>1. l = h /\ p = 0..(h - 1)
    BY <1>5, <1>7
  <2>2. CASE h = 0
    BY <1>3, <1>4, <1>6, <1>7, <2>1, <2>2 DEF IsFls, Order2
  <2>3. CASE h # 0
    <3>1. h - 1 \in p /\ \A i \in p : i <= h - 1
      BY <1>3, <2>1, <2>3
    <3>2. Highest(p) = h - 1
      BY <1>6, <3>1, HighestIs
    <3>3. r = (h - 1) + 1
      BY <1>4, <3>1, <3>2 DEF IsFls
    <3>4. r = h
      BY <1>3, <3>3
    <3> QED
      BY <1>3, <1>4, <1>6, <1>7, <3>1, <3>4 DEF Order2
  <2> QED
    BY <2>2, <2>3
<1>8. CASE x # {h}
  <2>1. l # h
    BY <1>2, <1>3, <1>8
  <2>2. h \in p /\ \A i \in p : i <= h
    <3>1. \A i \in 0..(l - 1) : i <= h
      BY <1>2, <1>3
    <3> QED
      BY <1>3, <1>5, <2>1, <3>1
  <2>3. Highest(p) = h
    BY <1>6, <2>2, HighestIs
  <2>4. r = h + 1
    BY <1>4, <2>2, <2>3 DEF IsFls
  <2> QED
    BY <1>3, <1>4, <1>6, <1>8, <2>2, <2>4 DEF Order2
<1> QED
  BY <1>7, <1>8

\* 1UL << k
LEMMA ShiftedOne ==
    ASSUME NEW N \in 1..64, NEW k \in 0..(N - 1)
    PROVE  Shl({0}, k, N) = {k} /\ {k} \in Word64 /\ fls64({k}) = k + 1
<1>1. Shl({0}, k, N) = {k}
  BY DEF Shl
<1>2. {k} \in Word64
  BY DEF Word64
<1>3. Highest({k}) = k
  <2>1. {k} \in SUBSET Int /\ k \in {k} /\ \A i \in {k} : i <= k
    OBVIOUS
  <2> QED
    BY <2>1, HighestIs
<1> QED
  BY <1>1, <1>2, <1>3, Fls64Is DEF IsFls

\* A power of two is a word with a single one.
LEMMA PowerIs ==
    ASSUME NEW x \in SUBSET (0..(UlongBits - 1))
    PROVE  is_power_of_2(x) <=> Cardinality(x) = 1
<1>1. x \in Word64 /\ UlongBits \in 1..64
  BY LongIs
<1>2. IsFiniteSet(x)
  <2>1. 0 \in Int /\ 63 \in Int
    OBVIOUS
  <2>2. IsFiniteSet(0..63)
    BY <2>1, FS_Interval, Zenon
  <2> QED
    BY <1>1, <2>2, FS_Subset DEF Word64
<1>3. CASE x = {}
  BY <1>3, FS_EmptySet DEF is_power_of_2
<1>4. CASE x # {}
  <2>1. (x \cap Pred(x, UlongBits) = {}) <=> x = {Highest(x)}
    BY <1>1, <1>4, PredCuts
  <2>2. Cardinality(x) = 1 => x = {Highest(x)}
    <3>1. Cardinality(x) = 1 => \E i : x = {i}
      BY <1>2, FS_Singleton
    <3>2. Highest(x) \in x
      BY <1>1, <1>4, Ends
    <3> QED
      BY <3>1, <3>2
  <2>3. x = {Highest(x)} => Cardinality(x) = 1
    BY FS_Singleton
  <2> QED
    BY <1>4, <2>1, <2>2, <2>3 DEF is_power_of_2
<1> QED
  BY <1>3, <1>4

\* Rounding down leaves the last one.
LEMMA DownIs ==
    ASSUME NEW x \in SUBSET (0..(UlongBits - 1)), x # {}
    PROVE  rounddown_pow_of_two(x) = {Highest(x)}
<1>1. x \in Word64 /\ UlongBits \in 1..64 /\ fls_long(x) = Highest(x) + 1
  BY LongIs DEF IsFls
<1>2. PICK h \in 0..(UlongBits - 1) : h = Highest(x)
  BY <1>1, Ends
<1>3. fls_long(x) - 1 = h
  BY <1>1, <1>2
<1>4. Shl({0}, h, UlongBits) = {h}
  BY <1>1, ShiftedOne
<1> QED
  BY <1>2, <1>3, <1>4 DEF rounddown_pow_of_two

\* Rounding up leaves the order's bit, unless that is above the word.
LEMMA UpIs ==
    ASSUME NEW x \in SUBSET (0..(UlongBits - 1)), x # {},
           UlongBits - 1 \in x => x = {UlongBits - 1}
    PROVE  /\ Order2(x) \in 0..(UlongBits - 1)
           /\ roundup_pow_of_two(x) = {Order2(x)}
           /\ roundup_const(x) = {Order2(x)}
           /\ order_base_2(x) = Order2(x)
<1>1. PICK N \in 1..64 : N = UlongBits
  BY LongIs
<1>2. x \in Word64
  BY LongIs
<1>3. PICK h \in x : h = Highest(x) /\ h \in 0..63
  BY <1>2, Ends
<1>4. PICK k \in 0..(N - 1) : k = Order2(x)
  <2>1. h \in 0..(N - 1)
    BY <1>1, <1>3
  <2>2. h = N - 1 => x = {h}
    BY <1>1, <1>3
  <2> QED
    BY <1>1, <1>3, <2>1, <2>2 DEF Order2
<1>5. PICK p : p = Pred(x, N)
  OBVIOUS
<1>6. p \in SUBSET (0..(N - 1)) /\ (x # {0} => p # {})
  <2>1. Pred(x, N) \in SUBSET (0..(N - 1))
    <3>1. PICK l \in x : l = Lowest(x) /\ l \in 0..63
      BY <1>2, Ends
    <3>2. l \in 0..(N - 1)
      BY <1>1, <3>1
    <3>3. \A i \in 0..(l - 1) : i \in 0..(N - 1)
      BY <3>2
    <3> QED
      BY <1>1, <3>1, <3>3 DEF Pred
  <2>2. IsFls(Pred(x, N), fls_long(Pred(x, N)))
    BY <1>1, <2>1, LongIs
  <2> QED
    BY <1>1, <1>5, <2>1, <2>2, PredLast
<1>7. fls_long(p) = k
  <2>1. IsFls(Pred(x, N), fls_long(p))
    BY <1>1, <1>5, <1>6, LongIs
  <2> QED
    BY <1>1, <1>4, <2>1, PredLast
<1>8. Shl({0}, k, N) = {k} /\ {k} \in Word64 /\ fls64({k}) = k + 1
  BY ShiftedOne
<1>9. roundup_pow_of_two(x) = {k}
  BY <1>1, <1>5, <1>7, <1>8 DEF roundup_pow_of_two
<1>10. roundup_const(x) = {k}
  <2>1. CASE x = {0}
    <3>1. h = 0
      BY <1>3, <2>1
    <3> QED
      BY <1>3, <1>4, <2>1, <3>1 DEF roundup_const, Order2
  <2>2. CASE x # {0}
    <3>1. p \in Word64 /\ p # {}
      BY <1>1, <1>6, <2>2, LongIs
    <3>2. IsFls(Pred(x, N), ilog2_const(p) + 1)
      BY <1>5, <3>1, Ilog2Is
    <3>3. ilog2_const(p) + 1 = k
      BY <1>1, <1>4, <3>2, PredLast
    <3> QED
      BY <1>1, <1>5, <1>8, <2>2, <3>3 DEF roundup_const
  <2> QED
    BY <2>1, <2>2
<1>11. order_base_2(x) = k
  BY <1>8, <1>9 DEF order_base_2, __ilog2_u64
<1> QED
  BY <1>1, <1>4, <1>9, <1>10, <1>11

\* get_count_order and get_count_order_long.
LEMMA CountOrderIs ==
    /\ \A x \in Words32 : get_count_order(x) = IF x = {} THEN -1 ELSE Order2(x)
    /\ \A x \in Longs : get_count_order_long(x) = IF x = {} THEN -1 ELSE Order2(x)
<1>1. ASSUME NEW x \in Words32
      PROVE  get_count_order(x) = IF x = {} THEN -1 ELSE Order2(x)
  <2>1. x \in Word32 /\ x \in Word64 /\ x \in SUBSET (0..(32 - 1))
    BY WordsAssumption DEF Word32, Word64
  <2>2. CASE x = {}
    BY <2>2 DEF get_count_order, fls
  <2>3. CASE x # {}
    <3>1. (x \cap Pred(x, 32) = {}) <=> x = {Highest(x)}
      BY <2>1, <2>3, PredCuts
    <3>2. fls(x) = Highest(x) + 1
      BY <2>1, <2>3, FlsIs DEF IsFls
    <3>3. Highest(x) \in 0..63
      BY <2>1, <2>3, Ends
    <3> QED
      BY <2>3, <3>1, <3>2, <3>3 DEF get_count_order, Order2
  <2> QED
    BY <2>2, <2>3
<1>2. ASSUME NEW x \in Longs
      PROVE  get_count_order_long(x) = IF x = {} THEN -1 ELSE Order2(x)
  <2>1. x \in SUBSET (0..(UlongBits - 1)) /\ x \in Word64 /\ UlongBits \in 1..64
    BY LongsAre, LongIs
  <2>2. CASE x = {}
    BY <2>2 DEF get_count_order_long
  <2>3. CASE x # {}
    <3>1. (x \cap Pred(x, UlongBits) = {}) <=> x = {Highest(x)}
      BY <2>1, <2>3, PredCuts
    <3>2. fls_long(x) = Highest(x) + 1
      BY <2>1, <2>3, LongIs DEF IsFls
    <3>3. Highest(x) \in 0..63
      BY <2>1, <2>3, Ends
    <3> QED
      BY <2>3, <3>1, <3>2, <3>3 DEF get_count_order_long, Order2
  <2> QED
    BY <2>2, <2>3
<1> QED
  BY <1>1, <1>2

\* All that a call records.
LEMMA CallRecord ==
    ASSUME NEW fn, NEW x, NEW y, NEW N, NEW results, BitCall(fn, x, y, N, results)
    PROVE  /\ call'.fn = fn /\ call'.x = x /\ call'.y = y /\ call'.N = N
           /\ call'.result \in results
BY DEF BitCall

\* What is asked of a call with an order for its result.
LEMMA OrderCalled ==
    ASSUME NEW x \in Word64, call'.fn = "order", call'.x = x,
           call'.result = IF x = {} THEN -1 ELSE Order2(x)
    PROVE  OrdersAndPowers'
BY OrderIs DEF OrdersAndPowers, Called

\* The orders and the powers of two.
LEMMA OrderStep == ASSUME Order PROVE OrdersAndPowers'
<1>1. CASE \E x \in Words32 : BitCall("order", x, 0, 32, {get_count_order(x)})
  <2>1. PICK x \in Words32 : BitCall("order", x, 0, 32, {get_count_order(x)})
    BY <1>1
  <2>2. x \in Word64
    BY WordsAssumption DEF Word64
  <2>3. call'.fn = "order" /\ call'.x = x /\ call'.result = get_count_order(x)
    BY <2>1, CallRecord
  <2> QED
    BY <2>2, <2>3, CountOrderIs, OrderCalled
<1>2. ASSUME NEW x \in Longs,
             \/ BitCall("order", x, 0, UlongBits, {get_count_order_long(x)})
             \/ /\ x # {} /\ (UlongBits - 1 \in x => x = {UlongBits - 1})
                /\ BitCall("order", x, 0, UlongBits, {order_base_2(x)})
      PROVE  OrdersAndPowers'
  <2>1. x \in SUBSET (0..(UlongBits - 1)) /\ x \in Word64
    BY LongsAre, LongIs
  <2>2. call'.fn = "order" /\ call'.x = x
    BY <1>2, CallRecord
  <2>3. call'.result = IF x = {} THEN -1 ELSE Order2(x)
    <3>1. CASE BitCall("order", x, 0, UlongBits, {get_count_order_long(x)})
      BY <3>1, CallRecord, CountOrderIs
    <3>2. CASE /\ x # {} /\ (UlongBits - 1 \in x => x = {UlongBits - 1})
               /\ BitCall("order", x, 0, UlongBits, {order_base_2(x)})
      <4>1. call'.result = order_base_2(x)
        BY <3>2, CallRecord
      <4>2. order_base_2(x) = Order2(x)
        BY <2>1, <3>2, UpIs
      <4> QED
        BY <3>2, <4>1, <4>2
    <3> QED
      BY <1>2, <3>1, <3>2
  <2> QED
    BY <2>1, <2>2, <2>3, OrderCalled
<1>3. ASSUME NEW x \in Longs, BitCall("power", x, 0, UlongBits, {is_power_of_2(x)})
      PROVE  OrdersAndPowers'
  <2>1. call'.fn = "power" /\ call'.x = x /\ call'.result = is_power_of_2(x)
    BY <1>3, CallRecord
  <2>2. is_power_of_2(x) <=> Cardinality(x) = 1
    BY LongsAre, PowerIs
  <2>3. call'.result = (Cardinality(x) = 1)
    BY <2>1, <2>2 DEF is_power_of_2
  <2> QED
    BY <2>1, <2>3 DEF OrdersAndPowers, Called
<1>4. ASSUME NEW x \in Longs, x # {},
             BitCall("down", x, 0, UlongBits, {rounddown_pow_of_two(x)})
      PROVE  OrdersAndPowers'
  <2>1. call'.fn = "down" /\ call'.x = x /\ call'.result = rounddown_pow_of_two(x)
    BY <1>4, CallRecord
  <2>2. rounddown_pow_of_two(x) = {Highest(x)}
    BY <1>4, LongsAre, DownIs
  <2> QED
    BY <2>1, <2>2 DEF OrdersAndPowers, Called
<1>5. ASSUME NEW x \in Longs, x # {}, UlongBits - 1 \in x => x = {UlongBits - 1},
             BitCall("up", x, 0, UlongBits, {roundup_pow_of_two(x), roundup_const(x)})
      PROVE  OrdersAndPowers'
  <2>1. x \in SUBSET (0..(UlongBits - 1)) /\ x \in Word64
    BY LongsAre, LongIs
  <2>2. PICK k : k = Order2(x) /\ k \in 0..(UlongBits - 1)
                 /\ roundup_pow_of_two(x) = {k} /\ roundup_const(x) = {k}
    BY <1>5, <2>1, UpIs
  <2>3. /\ call'.fn = "up" /\ call'.x = x /\ call'.N = UlongBits
        /\ call'.result = {k}
    BY <1>5, <2>2, CallRecord
  <2>4. AtMostPower(x, k) /\ ~ AtMostPower(x, k - 1)
    BY <1>5, <2>1, <2>2, OrderIs
  <2> QED
    BY <2>2, <2>3, <2>4 DEF OrdersAndPowers, Called
<1> QED
  BY <1>1, <1>2, <1>3, <1>4, <1>5 DEF Order

-----------------------------------------------------------------------------
(***************************************************************************)
(* Rotation, sign extension and masks.                                     *)
(***************************************************************************)
\* Where a place goes that is moved round a word.
LEMMA RoundTheWord ==
    ASSUME NEW N \in {8, 16, 32, 64}, NEW i \in 0..(N - 1), NEW s \in 0..(N - 1)
    PROVE  /\ (i + s) % N = IF i + s < N THEN i + s ELSE i + s - N
           /\ (i - s) % N = IF i >= s THEN i - s ELSE i - s + N
           /\ (-s) % N = IF s = 0 THEN 0 ELSE N - s
<1>1. CASE N = 8
  BY <1>1
<1>2. CASE N = 16
  BY <1>2
<1>3. CASE N = 32
  BY <1>3
<1>4. CASE N = 64
  BY <1>4
<1> QED
  BY <1>1, <1>2, <1>3, <1>4

\* A shift by nothing changes nothing.
LEMMA ShiftByZero ==
    ASSUME NEW N \in Nat, NEW x \in SUBSET (0..(N - 1))
    PROVE  Shl(x, 0, N) = x /\ Shr(x, 0) = x
<1>1. \A i \in x : i \in 0..(N - 1) /\ i + 0 = i /\ i - 0 = i /\ i >= 0
  OBVIOUS
<1>2. \A i : i \in Shl(x, 0, N) <=> i \in x
  BY <1>1 DEF Shl
<1>3. \A i : i \in Shr(x, 0) <=> i \in x
  BY <1>1 DEF Shr
<1> QED
  BY <1>2, <1>3

\* Up and what falls off the top in again below.
LEMMA RolIs ==
    ASSUME NEW N \in {8, 16, 32, 64}, NEW x \in SUBSET (0..(N - 1)), NEW s \in 0..(N - 1)
    PROVE  /\ \A y \in rol(x, s, N) : y = {(i + s) % N : i \in x}
           /\ N = 32 => rol32(x, s) = {(i + s) % N : i \in x}
<1>1. PICK r : r = {(i + s) % N : i \in x}
  OBVIOUS
<1>2. N \in Nat /\ s \in Nat /\ s < N /\ \A i \in x : i \in Int /\ 0 <= i /\ i < N
  OBVIOUS
<1>3. Shl(x, s, N) = {i + s : i \in {j \in x : j + s < N}}
  BY <1>2 DEF Shl
<1>4. \A i \in x : (i + s) % N = IF i + s < N THEN i + s ELSE i + s - N
  BY RoundTheWord
<1>5. Shl(x, s, N) \cup {i + s - N : i \in {j \in x : j + s >= N}} = r
  <2>1. \A i \in x : i + s < N \/ i + s >= N
    BY <1>2
  <2>2. \A i \in x : ~ (i + s < N /\ i + s >= N)
    BY <1>2
  <2> QED
    BY <1>1, <1>3, <1>4, <2>1, <2>2
<1>6. CASE s = 0
  <2>1. Shl(x, 0, N) = x
    BY <1>2, ShiftByZero
  <2>2. r = x
    <3>1. \A i \in x : (i + s) % N = i
      BY <1>2, <1>4, <1>6
    <3> QED
      BY <1>1, <3>1
  <2>3. Shr(x, 0) = x
    BY <1>2, ShiftByZero
  <2>4. (-s) % N = 0
    BY RoundTheWord, <1>6
  <2> QED
    BY <1>1, <1>2, <1>6, <2>1, <2>2, <2>3, <2>4 DEF rol, ShrWide, rol32
<1>7. CASE s # 0
  <2>1. Shr(x, N - s) = {i - (N - s) : i \in {j \in x : j >= N - s}}
    BY DEF Shr
  <2>2. \A i \in x : i - (N - s) = i + s - N /\ (i >= N - s <=> i + s >= N)
    BY <1>2
  <2>3. Shr(x, N - s) = {i + s - N : i \in {j \in x : j + s >= N}}
    BY <2>1, <2>2
  <2>4. N - s # N
    BY <1>2, <1>7
  <2>5. (-s) % N = N - s
    BY RoundTheWord, <1>7
  <2> QED
    BY <1>1, <1>5, <2>3, <2>4, <2>5 DEF rol, ShrWide, rol32
<1> QED
  BY <1>6, <1>7

\* Down and what falls off below in again at the top.
LEMMA RorIs ==
    ASSUME NEW N \in {8, 16, 32, 64}, NEW x \in SUBSET (0..(N - 1)), NEW s \in 0..(N - 1)
    PROVE  \A y \in ror(x, s, N) : y = {(i - s) % N : i \in x}
<1>1. PICK r : r = {(i - s) % N : i \in x}
  OBVIOUS
<1>2. N \in Nat /\ s \in Nat /\ s < N /\ \A i \in x : i \in Int /\ 0 <= i /\ i < N
  OBVIOUS
<1>3. Shr(x, s) = {i - s : i \in {j \in x : j >= s}}
  BY DEF Shr
<1>4. \A i \in x : (i - s) % N = IF i >= s THEN i - s ELSE i - s + N
  BY RoundTheWord
<1>5. Shr(x, s) \cup {i - s + N : i \in {j \in x : j < s}} = r
  <2>1. \A i \in x : (i >= s) <=> ~ (i < s)
    BY <1>2
  <2> QED
    BY <1>1, <1>3, <1>4, <2>1
<1>6. CASE s = 0
  <2>1. Shr(x, 0) = x
    BY <1>2, ShiftByZero
  <2>2. r = x
    <3>1. \A i \in x : (i - s) % N = i
      BY <1>2, <1>4, <1>6
    <3> QED
      BY <1>1, <3>1
  <2> QED
    BY <1>1, <1>2, <1>6, <2>1, <2>2 DEF ror, ShlWide
<1>7. CASE s # 0
  <2>1. Shl(x, N - s, N) = {i + (N - s) : i \in {j \in x : j < s}}
    <3>1. \A i \in x : (i + (N - s) \in 0..(N - 1)) <=> i < s
      BY <1>2
    <3> QED
      BY <3>1 DEF Shl
  <2>2. \A i \in x : i + (N - s) = i - s + N
    BY <1>2
  <2>3. Shl(x, N - s, N) = {i - s + N : i \in {j \in x : j < s}}
    BY <2>1, <2>2
  <2>4. N - s # N
    BY <1>2, <1>7
  <2> QED
    BY <1>1, <1>5, <2>3, <2>4 DEF ror, ShlWide
<1> QED
  BY <1>6, <1>7

\* The sign goes up with the word and comes down in copies.
LEMMA ExtendIs ==
    ASSUME NEW N \in {32, 64}, NEW x \in SUBSET (0..(N - 1)), NEW index \in 0..(N - 1)
    PROVE  sign_extend(x, index, N) =
              (x \cap 0..index) \cup (IF index \in x THEN index..(N - 1) ELSE {})
<1>1. /\ N \in Nat /\ index \in Nat /\ index < N
      /\ \A i \in x : i \in Int /\ 0 <= i /\ i < N
  OBVIOUS
<1>2. PICK s \in Nat : s = N - 1 - index
  BY <1>1
<1>3. PICK up : up = Shl(x, s, N)
  OBVIOUS
<1>4. \A j : j \in up <=> \E i \in x : j = i + s /\ i <= index
  BY <1>1, <1>2, <1>3 DEF Shl
<1>5. Shr(up, s) = x \cap 0..index
  <2>1. \A i \in x : i <= index => i + s \in up /\ i + s >= s /\ (i + s) - s = i
    BY <1>1, <1>4
  <2>2. \A j \in up : j - s \in x \cap 0..index
    BY <1>1, <1>2, <1>4
  <2>3. \A i \in x \cap 0..index : i \in Shr(up, s)
    BY <2>1 DEF Shr
  <2>4. \A i \in Shr(up, s) : i \in x \cap 0..index
    BY <2>2 DEF Shr
  <2> QED
    BY <2>3, <2>4
<1>6. N - 1 \in up <=> index \in x
  <2>1. \A i \in x : N - 1 = i + s <=> i = index
    BY <1>1, <1>2
  <2>2. index <= index
    BY <1>1
  <2> QED
    BY <1>4, <2>1, <2>2
<1>7. N - s = index + 1
  BY <1>1, <1>2
<1>8. index \in x => (x \cap 0..index) \cup (index + 1)..(N - 1)
                        = (x \cap 0..index) \cup index..(N - 1)
  BY <1>1
<1> QED
  BY <1>2, <1>3, <1>5, <1>6, <1>7, <1>8 DEF sign_extend, Sar

\* The ones from l on, and those up to h.
LEMMA MaskIs ==
    ASSUME NEW N \in {32, 64}, NEW h \in 0..(N - 1), NEW l \in 0..h
    PROVE  Shl(0..(N - 1), l, N) \cap Shr(0..(N - 1), N - 1 - h) = l..h
<1>1. N \in Nat /\ h \in Nat /\ l \in Nat /\ l <= h /\ h < N
  OBVIOUS
<1>2. Shl(0..(N - 1), l, N) = l..(N - 1)
  <2>1. \A i \in l..(N - 1) : i - l \in 0..(N - 1) /\ (i - l) + l = i
    BY <1>1
  <2>2. \A i \in 0..(N - 1) : i + l >= l /\ i + l \in Int
    BY <1>1
  <2>3. \A i \in l..(N - 1) : i \in Shl(0..(N - 1), l, N)
    BY <1>1, <2>1 DEF Shl
  <2>4. \A i \in Shl(0..(N - 1), l, N) : i \in l..(N - 1)
    BY <1>1, <2>2 DEF Shl
  <2> QED
    BY <2>3, <2>4
<1>3. PICK s \in Nat : s = N - 1 - h
  BY <1>1
<1>4. Shr(0..(N - 1), s) = 0..h
  <2>1. \A i \in 0..h : i + s \in 0..(N - 1) /\ i + s >= s /\ (i + s) - s = i
    BY <1>1, <1>3
  <2>2. \A i \in 0..h : i \in Shr(0..(N - 1), s)
    BY <2>1 DEF Shr
  <2>3. \A i \in Shr(0..(N - 1), s) : i \in 0..h
    BY <1>1, <1>3 DEF Shr
  <2> QED
    BY <2>2, <2>3
<1>5. (l..(N - 1)) \cap (0..h) = l..h
  BY <1>1
<1> QED
  BY <1>2, <1>3, <1>4, <1>5

\* The rotations.
LEMMA RotateStep == ASSUME Rotate PROVE RotatesAll'
<1>1. PICK N \in {8, 16, 32, 64}, x \in Words64 :
          \E s \in 0..(N - 1) :
             \/ /\ x \subseteq 0..(N - 1)
                /\ N # 32
                /\ BitCall("rol", x, s, N, rol(x, s, N))
             \/ /\ x \subseteq 0..(N - 1)
                /\ BitCall("ror", x, s, N, ror(x, s, N))
             \/ /\ x \subseteq 0..31
                /\ N = 32
                /\ BitCall("rol", x, s, 32, {rol32(x, s)})
  BY DEF Rotate
<1>2. PICK s \in 0..(N - 1) :
          /\ x \in SUBSET (0..(N - 1))
          /\ \/ BitCall("rol", x, s, N, rol(x, s, N))
             \/ BitCall("ror", x, s, N, ror(x, s, N))
             \/ N = 32 /\ BitCall("rol", x, s, 32, {rol32(x, s)})
  <2>1. N = 32 => N - 1 = 31
    OBVIOUS
  <2> QED
    BY <1>1, <2>1
<1>3. CASE \/ BitCall("rol", x, s, N, rol(x, s, N))
           \/ N = 32 /\ BitCall("rol", x, s, 32, {rol32(x, s)})
  <2>1. PICK results : BitCall("rol", x, s, N, results)
                       /\ \A y \in results : y = {(i + s) % N : i \in x}
    <3>1. /\ \A y \in rol(x, s, N) : y = {(i + s) % N : i \in x}
          /\ N = 32 => rol32(x, s) = {(i + s) % N : i \in x}
      <4>1. x \in SUBSET (0..(N - 1))
        BY <1>2
      <4>2. \A y \in rol(x, s, N) : y = {(i + s) % N : i \in x}
        BY <4>1, RolIs
      <4>3. N = 32 => rol32(x, s) = {(i + s) % N : i \in x}
        BY <4>1, RolIs
      <4> QED
        BY <4>2, <4>3
    <3>2. CASE BitCall("rol", x, s, N, rol(x, s, N))
      BY <3>1, <3>2
    <3>3. CASE N = 32 /\ BitCall("rol", x, s, 32, {rol32(x, s)})
      <4>1. \A y \in {rol32(x, s)} : y = {(i + s) % N : i \in x}
        BY <3>1, <3>3
      <4> QED
        BY <3>3, <4>1
    <3> QED
      BY <1>3, <3>2, <3>3
  <2>2. /\ call'.fn = "rol" /\ call'.x = x /\ call'.y = s /\ call'.N = N
        /\ call'.result = {(i + s) % N : i \in x}
    BY <2>1, CallRecord
  <2> QED
    BY <2>2 DEF RotatesAll, Called
<1>4. CASE BitCall("ror", x, s, N, ror(x, s, N))
  <2>1. \A y \in ror(x, s, N) : y = {(i - s) % N : i \in x}
    BY <1>2, RorIs
  <2>2. /\ call'.fn = "ror" /\ call'.x = x /\ call'.y = s /\ call'.N = N
        /\ call'.result \in ror(x, s, N)
    BY <1>4, CallRecord
  <2>3. call'.result = {(i - s) % N : i \in x}
    BY <2>1, <2>2
  <2> QED
    BY <2>2, <2>3 DEF RotatesAll, Called
<1> QED
  BY <1>2, <1>3, <1>4

\* The extensions.
LEMMA ExtendStep == ASSUME Extend PROVE ExtendsSign'
<1>1. CASE \E N \in {32, 64}, x \in Words64 : \E index \in 0..(N - 1) :
               /\ x \subseteq 0..(N - 1)
               /\ BitCall("extend", x, index, N, {sign_extend(x, index, N)})
  <2>1. PICK N \in {32, 64}, x \in Words64 : \E index \in 0..(N - 1) :
            /\ x \subseteq 0..(N - 1)
            /\ BitCall("extend", x, index, N, {sign_extend(x, index, N)})
    BY <1>1
  <2>2. PICK index \in 0..(N - 1) :
            /\ x \subseteq 0..(N - 1)
            /\ BitCall("extend", x, index, N, {sign_extend(x, index, N)})
    BY <2>1
  <2>3. /\ call'.fn = "extend" /\ call'.x = x /\ call'.y = index /\ call'.N = N
        /\ call'.result = sign_extend(x, index, N)
    BY <2>2, CallRecord
  <2>4. x \in SUBSET (0..(N - 1))
    BY <2>2
  <2>5. sign_extend(x, index, N) =
            (x \cap 0..index) \cup (IF index \in x THEN index..(N - 1) ELSE {})
    BY <2>4, ExtendIs
  <2> QED
    BY <2>3, <2>5 DEF ExtendsSign, Called
<1>2. ASSUME call'.fn = "mask" PROVE ExtendsSign'
  BY <1>2 DEF ExtendsSign, Called
<1>3. CASE \E h \in 0..(BITS_PER_LONG - 1) : \E l \in 0..h :
               BitCall("mask", l, h, UlongBits, {GENMASK(h, l)})
  BY <1>2, <1>3, CallRecord
<1>4. CASE \E h \in 0..63 : \E l \in 0..h :
               BitCall("mask", l, h, 64, {GENMASK_ULL(h, l)})
  BY <1>2, <1>4, CallRecord
<1> QED
  BY <1>1, <1>3, <1>4, Zenon DEF Extend

\* The masks, those of unsigned longs if these have the bits of BITS_PER_LONG.
LEMMA MaskStep == ASSUME UlongBits = BITS_PER_LONG, Extend PROVE MasksRange'
<1>1. UlongBits = 32 /\ BITS_PER_LONG = 32
  BY DEF BITS_PER_LONG
<1>2. ASSUME NEW N \in {32, 64}, NEW h \in 0..(N - 1), NEW l \in 0..h, NEW mask,
             mask = Shl(0..(N - 1), l, N) \cap Shr(0..(N - 1), N - 1 - h),
             BitCall("mask", l, h, N, {mask})
      PROVE  MasksRange'
  <2>1. call'.fn = "mask" /\ call'.x = l /\ call'.y = h /\ call'.result = mask
    BY <1>2, CallRecord
  <2>2. mask = l..h
    BY <1>2, MaskIs
  <2> QED
    BY <2>1, <2>2 DEF MasksRange, Called
<1>3. CASE \E h \in 0..(BITS_PER_LONG - 1) : \E l \in 0..h :
               BitCall("mask", l, h, UlongBits, {GENMASK(h, l)})
  <2>1. PICK h \in 0..(32 - 1) : \E l \in 0..h :
            BitCall("mask", l, h, 32, {GENMASK(h, l)})
    BY <1>1, <1>3
  <2>2. PICK l \in 0..h : BitCall("mask", l, h, 32, {GENMASK(h, l)})
    BY <2>1
  <2>3. GENMASK(h, l) = Shl(0..(32 - 1), l, 32) \cap Shr(0..(32 - 1), 32 - 1 - h)
    BY <1>1 DEF GENMASK
  <2> QED
    BY <1>2, <2>2, <2>3
<1>4. CASE \E h \in 0..63 : \E l \in 0..h :
               BitCall("mask", l, h, 64, {GENMASK_ULL(h, l)})
  <2>1. PICK h \in 0..63 : \E l \in 0..h :
            BitCall("mask", l, h, 64, {GENMASK_ULL(h, l)})
    BY <1>4
  <2>2. PICK l \in 0..h : BitCall("mask", l, h, 64, {GENMASK_ULL(h, l)})
    BY <2>1
  <2>3. 64 \in {32, 64} /\ 64 - 1 = 63 /\ h \in 0..(64 - 1)
    OBVIOUS
  <2>4. Shl(0..(64 - 1), l, 64) \cap Shr(0..(64 - 1), 64 - 1 - h) = l..h
    BY <2>3, MaskIs
  <2>5. GENMASK_ULL(h, l) = l..h
    BY <2>3, <2>4 DEF GENMASK_ULL
  <2>6. call'.fn = "mask" /\ call'.x = l /\ call'.y = h /\ call'.result = GENMASK_ULL(h, l)
    BY <2>2, CallRecord
  <2> QED
    BY <2>5, <2>6 DEF MasksRange, Called
<1>5. CASE \E N \in {32, 64}, x \in Words64 : \E index \in 0..(N - 1) :
               /\ x \subseteq 0..(N - 1)
               /\ BitCall("extend", x, index, N, {sign_extend(x, index, N)})
  <2>1. call'.fn = "extend"
    BY <1>5, CallRecord
  <2> QED
    BY <2>1 DEF MasksRange, Called
<1> QED
  BY <1>3, <1>4, <1>5, Zenon DEF Extend

\* The calls of the searches are no others.
LEMMA SearchCalls == ASSUME Search \/ SearchFirst PROVE call'.fn \in {"fls", "ffs"}
<1>1. Search => call'.fn = "fls"
  BY CallFields DEF Search
<1>2. SearchFirst => call'.fn = "ffs"
  BY CallFields DEF SearchFirst
<1> QED
  BY <1>1, <1>2

\* Every step leaves the orders, rotations and extensions as defined.
LEMMA OrdersStep ==
    ASSUME BitNext
    PROVE  OrdersAndPowers' /\ RotatesAll' /\ ExtendsSign'
<1>1. OrdersAndPowers'
  <2>1. ASSUME ~ Order PROVE call'.fn \notin {"order", "power", "down", "up"}
    BY SearchCalls, <2>1, OtherCalls DEF BitNext
  <2>2. ASSUME ~ Order PROVE OrdersAndPowers'
    BY <2>1, <2>2 DEF OrdersAndPowers, Called
  <2> QED
    BY <2>2, OrderStep
<1>2. RotatesAll'
  <2>1. ASSUME ~ Rotate PROVE call'.fn \notin {"rol", "ror"}
    BY SearchCalls, <2>1, OtherCalls DEF BitNext
  <2>2. ASSUME ~ Rotate PROVE RotatesAll'
    BY <2>1, <2>2 DEF RotatesAll, Called
  <2> QED
    BY <2>2, RotateStep
<1>3. ExtendsSign'
  <2>1. ASSUME ~ Extend PROVE call'.fn \notin {"extend", "mask"}
    BY SearchCalls, <2>1, OtherCalls DEF BitNext
  <2>2. ASSUME ~ Extend PROVE ExtendsSign'
    BY <2>1, <2>2 DEF ExtendsSign, Called
  <2> QED
    BY <2>2, ExtendStep
<1> QED
  BY <1>1, <1>2, <1>3

\* The orders, the rounding to powers of two, the rotations and extensions give
\* the bits they are named for in every state, for all words, for longs of 32
\* and of 64 bits, and whatever a shift by the whole width does.
THEOREM OrdersRight == BitSpec => [](OrdersAndPowers /\ RotatesAll /\ ExtendsSign)
<1> DEFINE Words == OrdersAndPowers /\ RotatesAll /\ ExtendsSign
<1>1. BitInit => Words
  BY DEF BitInit, Idle, OrdersAndPowers, RotatesAll, ExtendsSign, Called
<1>2. Words /\ [BitNext]_call => Words'
  <2>1. Words /\ UNCHANGED call => Words'
    BY DEF OrdersAndPowers, RotatesAll, ExtendsSign, Called
  <2> QED
    BY <2>1, OrdersStep
<1> QED
  BY <1>1, <1>2, PTL DEF BitSpec

\* So do the masks as well, where an unsigned long has the bits of
\* BITS_PER_LONG: WordsAsDefined in every state, for all words.
THEOREM WordsRight == UlongBits = BITS_PER_LONG /\ BitSpec => []WordsAsDefined
<1> SUFFICES ASSUME UlongBits = BITS_PER_LONG PROVE BitSpec => []WordsAsDefined
  OBVIOUS
<1>1. BitInit => MasksRange
  BY DEF BitInit, Idle, MasksRange, Called
<1>2. MasksRange /\ [BitNext]_call => MasksRange'
  <2> SUFFICES ASSUME MasksRange, [BitNext]_call PROVE MasksRange'
    OBVIOUS
  <2>1. CASE Extend
    BY <2>1, MaskStep
  <2>2. CASE BitNext /\ ~ Extend
    <3>1. call'.fn \notin {"extend", "mask"}
      BY SearchCalls, <2>2, OtherCalls DEF BitNext
    <3> QED
      BY <3>1 DEF MasksRange, Called
  <2>3. CASE UNCHANGED call
    BY <2>3 DEF MasksRange, Called
  <2> QED
    BY <2>1, <2>2, <2>3
<1>3. OrdersAndPowers /\ RotatesAll /\ ExtendsSign /\ MasksRange => WordsAsDefined
  BY DEF WordsAsDefined
<1> QED
  BY <1>1, <1>2, <1>3, OrdersRight, PTL DEF BitSpec

-----------------------------------------------------------------------------
(***************************************************************************)
(* The loops round cmpxchg.                                                *)
(***************************************************************************)
Results == {<<>>} \cup {<<v>> : v \in BOOLEAN \cup SUBSET Bits}

MaskTypeOK ==
    /\ word \in SUBSET Bits
    /\ maskPc \in [Threads -> {"idle", "read", "swap", "return"}]
    /\ op \in [Threads -> Ops \cup {NoOp}]
    /\ old \in [Threads -> SUBSET Bits]
    /\ given \in [Threads -> Results]

\* A thread that is about to store has looked at the bits it was told to
\* test in the value it compares with; one that is about to return, and only
\* that, has a value.
MaskInv ==
    /\ MaskTypeOK
    /\ \A th \in Threads :
        /\ maskPc[th] # "idle" => op[th] \in Ops
        /\ maskPc[th] = "swap" => ~Refused(th, old[th])
        /\ (maskPc[th] = "return") <=> (given[th] # <<>>)

\* NoOp is no call.
LEMMA NoOpIsNoCall == NoOp \notin Ops
<1>1. \A o \in MaskCalls : o.kind \in {"set", "clear"}
    BY DEF MaskCalls
<1>2. NoOp.kind = "none"
    BY DEF NoOp
<1> QED BY <1>1, <1>2, OpsAssumption

\* MaskInv holds initially.
LEMMA MaskInvInit == MaskInit => MaskInv
BY DEF MaskInit, MaskInv, MaskTypeOK, Results

\* What a store puts into the word, and what it returns, have their types.
LEMMA ValuesTyped ==
    ASSUME MaskInv, NEW th \in Threads, maskPc[th] = "swap"
    PROVE  New(th) \in SUBSET Bits /\ Value(th) \in Results /\ Value(th) # <<>>
<1>1. op[th] \in MaskCalls /\ old[th] \in SUBSET Bits
    BY OpsAssumption DEF MaskInv, MaskTypeOK
<1>2. New(th) \in SUBSET Bits
    BY <1>1 DEF New, MaskCalls
<1>3. Value(th) \in Results /\ Value(th) # <<>>
    BY <1>2 DEF Value, Results
<1> QED BY <1>2, <1>3

\* Every step keeps MaskInv.
LEMMA MaskInvStep == MaskInv /\ [MaskNext]_maskVars => MaskInv'
<1> SUFFICES ASSUME MaskInv, [MaskNext]_maskVars PROVE MaskInv'
    OBVIOUS
<1>1. CASE UNCHANGED maskVars
    BY <1>1 DEF maskVars, MaskInv, MaskTypeOK, Refused
<1>2. ASSUME NEW th \in Threads, NEW o \in Ops, Enter(th, o) PROVE MaskInv'
    <2>1. MaskTypeOK'
        BY <1>2 DEF Enter, MaskInv, MaskTypeOK
    <2> QED BY <2>1, <1>2 DEF Enter, MaskInv, MaskTypeOK, Refused
<1>3. ASSUME NEW th \in Threads, Read(th) PROVE MaskInv'
    <2>1. <<FALSE>> \in Results /\ <<FALSE>> # <<>>
        BY DEF Results
    <2>2. CASE Refused(th, word)
        <3>1. MaskTypeOK'
            BY <1>3, <2>1, <2>2 DEF Read, MaskInv, MaskTypeOK
        <3> QED BY <3>1, <1>3, <2>1, <2>2 DEF Read, MaskInv, MaskTypeOK, Refused
    <2>3. CASE ~Refused(th, word)
        <3>1. MaskTypeOK'
            BY <1>3, <2>3 DEF Read, MaskInv, MaskTypeOK
        <3> QED BY <3>1, <1>3, <2>3 DEF Read, MaskInv, MaskTypeOK, Refused
    <2> QED BY <2>2, <2>3
<1>4. ASSUME NEW th \in Threads, Swap(th) PROVE MaskInv'
    <2>1. maskPc[th] = "swap"
        BY <1>4 DEF Swap
    <2>2. New(th) \in SUBSET Bits /\ Value(th) \in Results /\ Value(th) # <<>>
        BY <2>1, ValuesTyped
    <2>3. MaskTypeOK'
        BY <1>4, <2>2 DEF Swap, MaskInv, MaskTypeOK
    <2> QED BY <2>1, <2>2, <2>3, <1>4 DEF Swap, MaskInv, MaskTypeOK, Refused
<1>5. ASSUME NEW th \in Threads, MaskLeave(th) PROVE MaskInv'
    <2>1. MaskTypeOK'
        BY <1>5 DEF MaskLeave, MaskInv, MaskTypeOK, Results
    <2> QED BY <2>1, <1>5 DEF MaskLeave, MaskInv, MaskTypeOK, Refused
<1> QED BY <1>1, <1>2, <1>3, <1>4, <1>5 DEF MaskNext, Proceed

\* The initial states are those of AtomicBits: no call, no result, any word.
LEMMA StartsAtomic == MaskInit => Atomic!AtomicInit
BY DEF MaskInit, Atomic!AtomicInit, Atomic!NoOp, NoOp

\* Every step is one of AtomicBits, or changes nothing AtomicBits shows.
LEMMA StepsAtomic ==
    MaskInv /\ [MaskNext]_maskVars => [Atomic!AtomicNext]_(Atomic!atomicVars)
<1> DEFINE called == [th \in Threads |->
                         IF maskPc[th] \in {"read", "swap"} THEN op[th] ELSE NoOp]
           result == [th \in Threads |->
                         IF maskPc[th] = "return" THEN given[th] ELSE <<>>]
<1> SUFFICES ASSUME MaskInv, [MaskNext]_maskVars
             PROVE  [Atomic!AtomicNext]_(Atomic!atomicVars)
    OBVIOUS
<1>1. CASE UNCHANGED maskVars
    BY <1>1 DEF maskVars, Atomic!atomicVars
<1>2. ASSUME NEW th \in Threads, NEW o \in Ops, Enter(th, o)
      PROVE  Atomic!Start(th, o)
    BY <1>2 DEF Enter, MaskInv, MaskTypeOK, Atomic!Start, Atomic!NoOp, NoOp
<1>3. ASSUME NEW th \in Threads, Read(th)
      PROVE  Atomic!TakeEffect(th) \/ UNCHANGED Atomic!atomicVars
    <2>1. CASE Refused(th, word)
        BY <1>3, <2>1, NoOpIsNoCall
        DEF Read, MaskInv, MaskTypeOK, Refused, Atomic!TakeEffect, Atomic!After,
            Atomic!Gives, Atomic!NoOp, NoOp
    <2>2. CASE ~Refused(th, word)
        BY <1>3, <2>2 DEF Read, MaskInv, MaskTypeOK, Atomic!atomicVars
    <2> QED BY <2>1, <2>2
<1>4. ASSUME NEW th \in Threads, Swap(th)
      PROVE  Atomic!TakeEffect(th) \/ UNCHANGED Atomic!atomicVars
    <2>1. CASE word = old[th]
        <3>1. maskPc[th] = "swap" /\ op[th] \in Ops /\ ~Refused(th, word)
            BY <1>4, <2>1 DEF Swap, MaskInv
        <3>2. called[th] = op[th] /\ op[th] # NoOp
            BY <3>1, NoOpIsNoCall
        <3>3. New(th) = Atomic!After(op[th], word)
            BY <2>1, <3>1, OpsAssumption DEF New, Refused, Atomic!After, MaskCalls
        <3>4. Value(th) = <<Atomic!Gives(op[th], word)>>
            BY <3>1, <3>3, OpsAssumption DEF Value, Refused, Atomic!Gives, MaskCalls
        <3>5. called' = [called EXCEPT ![th] = NoOp]
            BY <1>4, <2>1 DEF Swap, MaskInv, MaskTypeOK
        <3>6. result' = [result EXCEPT ![th] = Value(th)]
            BY <1>4, <2>1, <3>1 DEF Swap, MaskInv, MaskTypeOK
        <3>7. word' = New(th)
            BY <1>4, <2>1 DEF Swap
        <3> QED BY <3>2, <3>3, <3>4, <3>5, <3>6, <3>7
                DEF Atomic!TakeEffect, Atomic!NoOp, NoOp
    <2>2. CASE word # old[th]
        BY <1>4, <2>2 DEF Swap, MaskInv, MaskTypeOK, Atomic!atomicVars
    <2> QED BY <2>1, <2>2
<1>5. ASSUME NEW th \in Threads, MaskLeave(th)
      PROVE  Atomic!Finish(th)
    BY <1>5 DEF MaskLeave, MaskInv, MaskTypeOK, Atomic!Finish, NoOp
<1> QED BY <1>1, <1>2, <1>3, <1>4, <1>5 DEF MaskNext, Proceed, Atomic!AtomicNext

\* set_mask_bits and bit_clear_unless take effect at one moment, whatever the
\* other threads do to the word: the loops of bitops.h:257-284 implement the
\* operations of AtomicBits.
THEOREM MacrosAtomic == MaskSpec => ImplementsAtomic
<1>1. MaskSpec => []MaskInv
    BY MaskInvInit, MaskInvStep, PTL DEF MaskSpec
<1> QED BY <1>1, StartsAtomic, StepsAtomic, PTL
        DEF MaskSpec, ImplementsAtomic, Atomic!AtomicSpec
=============================================================================
