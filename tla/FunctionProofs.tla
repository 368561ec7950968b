--------------------------- MODULE FunctionProofs ---------------------------
(***************************************************************************)
(* The functions that compute without a loop: mktime64 (Calendar), the     *)
(* comparisons of times (Conversions), the delays (Delays), and the        *)
(* divisions and products made of machine words (Math64).  Each theorem    *)
(* says that every call gives what was asked, for words, units and years   *)
(* of every size the assumptions allow; only how the conversions to and    *)
(* from jiffies round is proved for the values of the build.  They share   *)
(* the powers of two and what quotient and remainder of a division are.    *)
(***************************************************************************)
EXTENDS Math64, Calendar, Delays, FiniteSetTheorems, WellFoundedInduction, TLAPS

-----------------------------------------------------------------------------
\* Every set of naturals that is not empty has a least element.
LEMMA LeastNatural ==
    ASSUME NEW T \in SUBSET Nat, T # {}
    PROVE  \E x \in T : \A y \in T : x <= y
<1>1. PICK R : R = OpToRel(<, Nat)
  BY Zenon
<1>2. IsWellFoundedOn(R, Nat)
  BY <1>1, NatLessThanWellFounded, Zenon
<1>3. PICK x \in T : \A y \in T : ~ (<<y, x>> \in R)
  BY <1>2, WFMin
<1>4. \A y \in Nat : y < x => <<y, x>> \in R
  BY <1>1 DEF OpToRel
<1>5. ASSUME NEW y \in T
      PROVE  x <= y
  <2>1. ~ (<<y, x>> \in R)
    BY <1>3
  <2>2. y \in Nat /\ x \in Nat
    OBVIOUS
  <2>3. ~ (y < x)
    BY <1>4, <2>1, <2>2
  <2> QED
    BY <2>2, <2>3
<1> QED
  BY <1>5

(***************************************************************************)
(* The powers of two that words, masks and shifts are measured by.  As no  *)
(* induction is at hand they are counted: a set of n elements has 2^n      *)
(* subsets.                                                                *)
(***************************************************************************)
\* 2^n is the number of subsets of a set of n elements.
LEMMA PowerCounts ==
    ASSUME NEW S, IsFiniteSet(S)
    PROVE  /\ IsFiniteSet(SUBSET S)
           /\ Cardinality(SUBSET S) = 2^Cardinality(S)
           /\ 2^Cardinality(S) \in Nat \ {0}
<1>1. IsFiniteSet(SUBSET S) /\ Cardinality(SUBSET S) = 2^Cardinality(S)
  BY FS_SUBSET
<1>2. Cardinality(SUBSET S) \in Nat
  BY <1>1, FS_CardinalityType
<1>3. SUBSET S # {}
  OBVIOUS
<1>4. Cardinality(SUBSET S) # 0
  BY <1>1, <1>3, FS_EmptySet
<1> QED
  BY <1>1, <1>2, <1>4

\* The numbers from a + 1 to a + b.
LEMMA IntervalSize ==
    ASSUME NEW a \in Nat, NEW b \in Nat
    PROVE  IsFiniteSet(a + 1 .. a + b) /\ Cardinality(a + 1 .. a + b) = b
<1>1. /\ IsFiniteSet(a + 1 .. a + b)
      /\ Cardinality(a + 1 .. a + b) =
            IF a + 1 > a + b THEN 0 ELSE (a + b) - (a + 1) + 1
  BY FS_Interval
<1> QED
  BY <1>1

\* A power of two is a positive number.
LEMMA PowerType ==
    ASSUME NEW n \in Nat
    PROVE  2^n \in Nat \ {0}
<1>1. IsFiniteSet(0 + 1 .. 0 + n) /\ Cardinality(0 + 1 .. 0 + n) = n
  BY IntervalSize
<1> QED
  BY <1>1, PowerCounts

\* A subset of a union of two disjoint sets is a subset of each.
LEMMA PowerSum ==
    ASSUME NEW a \in Nat, NEW b \in Nat
    PROVE  2^(a + b) = 2^a * 2^b
<1>1. PICK A : A = 0 + 1 .. 0 + a
  OBVIOUS
<1>2. PICK B : B = a + 1 .. a + b
  OBVIOUS
<1>3. PICK C : C = 0 + 1 .. 0 + (a + b)
  OBVIOUS
<1>4. /\ IsFiniteSet(A) /\ Cardinality(A) = a
      /\ IsFiniteSet(B) /\ Cardinality(B) = b
  BY <1>1, <1>2, IntervalSize
<1>5. IsFiniteSet(C) /\ Cardinality(C) = a + b
  BY <1>3, IntervalSize
<1>6. A \cup B = C /\ A \cap B = {}
  BY <1>1, <1>2, <1>3
<1>7. PICK f : f = [X \in SUBSET C |-> <<X \cap A, X \cap B>>]
  OBVIOUS
<1>8. f \in [SUBSET C -> (SUBSET A) \X (SUBSET B)]
  BY <1>7
<1>9. ASSUME NEW X \in SUBSET C, NEW Y \in SUBSET C, f[X] = f[Y]
      PROVE  X = Y
  <2>1. X \cap A = Y \cap A /\ X \cap B = Y \cap B
    BY <1>7, <1>9
  <2> QED
    BY <1>6, <2>1
<1>10. ASSUME NEW p \in (SUBSET A) \X (SUBSET B)
       PROVE  \E X \in SUBSET C : f[X] = p
  <2>1. PICK Y \in SUBSET A, Z \in SUBSET B : p = <<Y, Z>>
    OBVIOUS
  <2>2. Y \cup Z \in SUBSET C
    BY <1>6
  <2>3. (Y \cup Z) \cap A = Y /\ (Y \cup Z) \cap B = Z
    BY <1>6
  <2>4. f[Y \cup Z] = p
    BY <1>7, <2>1, <2>2, <2>3
  <2> QED
    BY <2>2, <2>4
<1>11. f \in Bijection(SUBSET C, (SUBSET A) \X (SUBSET B))
  BY <1>8, <1>9, <1>10 DEF Bijection, Injection, Surjection, IsInjective
<1>12. ExistsBijection(SUBSET C, (SUBSET A) \X (SUBSET B))
  BY <1>11 DEF ExistsBijection
<1>13. /\ IsFiniteSet(SUBSET A) /\ Cardinality(SUBSET A) = 2^a
       /\ IsFiniteSet(SUBSET B) /\ Cardinality(SUBSET B) = 2^b
       /\ IsFiniteSet(SUBSET C) /\ Cardinality(SUBSET C) = 2^(a + b)
  BY <1>4, <1>5, PowerCounts
<1>14. Cardinality((SUBSET A) \X (SUBSET B)) = 2^a * 2^b
  <2>1. PICK P, Q : P = SUBSET A /\ Q = SUBSET B
    OBVIOUS
  <2>2. IsFiniteSet(P) /\ IsFiniteSet(Q)
    BY <1>13, <2>1
  <2>3. Cardinality(P \X Q) = Cardinality(P) * Cardinality(Q)
    BY <2>2, FS_Product
  <2> QED
    BY <1>13, <2>1, <2>3
<1>15. Cardinality((SUBSET A) \X (SUBSET B)) = Cardinality(SUBSET C)
  BY <1>12, <1>13, FS_Bijection
<1> QED
  BY <1>13, <1>14, <1>15

\* The next power of two.
LEMMA PowerNext ==
    ASSUME NEW n \in Nat
    PROVE  2^(n + 1) = 2 * 2^n
<1>1. 2^1 = 2
  OBVIOUS
<1>2. 2^(n + 1) = 2^n * 2^1
  BY PowerSum
<1>3. 2^n \in Nat
  BY PowerType
<1> QED
  BY <1>1, <1>2, <1>3

\* A power of two divides all that follow.
LEMMA PowerDivides ==
    ASSUME NEW m \in Nat, NEW n \in Nat, m <= n
    PROVE  2^n = 2^m * 2^(n - m) /\ 2^m <= 2^n
<1>1. n - m \in Nat /\ m + (n - m) = n
  OBVIOUS
<1>2. 2^(m + (n - m)) = 2^m * 2^(n - m)
  BY <1>1, PowerSum
<1>3. 2^m \in Nat \ {0} /\ 2^(n - m) \in Nat \ {0}
  BY <1>1, PowerType
<1>4. \A x, y \in Nat \ {0} : x <= x * y
  OBVIOUS
<1>5. 2^m <= 2^m * 2^(n - m)
  BY <1>3, <1>4
<1> QED
  BY <1>1, <1>2, <1>5

-----------------------------------------------------------------------------
(***************************************************************************)
(* Counting modulo the size of a word.                                     *)
(***************************************************************************)
\* Quotient and remainder of a whole number are the only ones of their kind.
LEMMA DivModUnique ==
    ASSUME NEW m \in Nat \ {0}, NEW q \in Int, NEW r \in 0 .. m - 1
    PROVE  (q * m + r) \div m = q /\ (q * m + r) % m = r
<1>1. PICK x \in Int : x = q * m + r
  OBVIOUS
<1>2. PICK p \in Int, s \in 0 .. m - 1 : x \div m = p /\ x % m = s /\ x = m * p + s
  <2>1. x \div m \in Int /\ x % m \in 0 .. m - 1 /\ x = m * (x \div m) + (x % m)
    OBVIOUS
  <2> QED
    BY <2>1
<1>3. m * (q - p) = s - r
  BY <1>1, <1>2
<1>4. q - p < 1
  <2>1. ASSUME q - p >= 1 PROVE m * (q - p) >= m
    BY <2>1
  <2> QED
    BY <1>3, <2>1
<1>5. q - p > -1
  <2>1. ASSUME q - p <= -1 PROVE m * (q - p) <= -m
    BY <2>1
  <2> QED
    BY <1>3, <2>1
<1>6. q = p /\ r = s
  BY <1>3, <1>4, <1>5
<1> QED
  BY <1>1, <1>2, <1>6

\* Any whole number has a quotient and a remainder.
LEMMA DivModExist ==
    ASSUME NEW m \in Nat \ {0}, NEW x \in Int
    PROVE  /\ x \div m \in Int /\ x % m \in 0 .. m - 1
           /\ x = (x \div m) * m + (x % m)
OBVIOUS

\* The same number but for multiples of m.
Same(x, a, m) == x % m = a % m

\* A number cut to its word is the same.
LEMMA SameAsReduced ==
    ASSUME NEW m \in Nat \ {0}, NEW a \in Int
    PROVE  Same(a % m, a, m) /\ Same(a, a, m)
<1>1. PICK r \in 0 .. m - 1 : r = a % m
  BY DivModExist
<1>2. r = 0 * m + r
  OBVIOUS
<1>3. r % m = r
  BY <1>2, DivModUnique
<1> QED
  BY <1>1, <1>3 DEF Same

\* Numbers that are the same modulo m have differences that are.
LEMMA DifferenceModulo ==
    ASSUME NEW m \in Nat \ {0}, NEW a \in Int, NEW b \in Int,
           NEW x \in Int, NEW y \in Int, Same(x, a, m), Same(y, b, m)
    PROVE  Same(x - y, a - b, m)
<1>1. PICK qa, qb, qx, qy \in Int, ra, rb \in 0 .. m - 1 :
          /\ a = qa * m + ra /\ b = qb * m + rb
          /\ x = qx * m + ra /\ y = qy * m + rb
  <2>1. PICK qa \in Int : a = qa * m + (a % m)
    BY DivModExist
  <2>2. PICK qb \in Int : b = qb * m + (b % m)
    BY DivModExist
  <2>3. PICK qx \in Int : x = qx * m + (a % m)
    BY DivModExist DEF Same
  <2>4. PICK qy \in Int : y = qy * m + (b % m)
    BY DivModExist DEF Same
  <2>5. PICK ra, rb \in 0 .. m - 1 : ra = a % m /\ rb = b % m
    BY DivModExist
  <2> QED
    BY <2>1, <2>2, <2>3, <2>4, <2>5
<1>2. PICK p \in Int, s \in 0 .. m - 1 : ra - rb = p * m + s
  <2>1. ra - rb \in Int
    OBVIOUS
  <2> QED
    BY <2>1, DivModExist
<1>3. a - b = (qa - qb + p) * m + s
  <2>1. (qa - qb + p) * m = qa * m - qb * m + p * m
    OBVIOUS
  <2> QED
    BY <1>1, <1>2, <2>1
<1>4. x - y = (qx - qy + p) * m + s
  <2>1. (qx - qy + p) * m = qx * m - qy * m + p * m
    OBVIOUS
  <2> QED
    BY <1>1, <1>2, <2>1
<1>5. ((qa - qb + p) * m + s) % m = s
  <2>1. qa - qb + p \in Int
    OBVIOUS
  <2> QED
    BY <2>1, DivModUnique
<1>6. ((qx - qy + p) * m + s) % m = s
  <2>1. qx - qy + p \in Int
    OBVIOUS
  <2> QED
    BY <2>1, DivModUnique
<1> QED
  BY <1>3, <1>4, <1>5, <1>6 DEF Same

\* A number below the size of its word is not cut.
LEMMA NotCut ==
    ASSUME NEW m \in Nat \ {0}, NEW x \in Nat, x < m
    PROVE  x % m = x
<1>1. x = 0 * m + x /\ x \in 0 .. m - 1
  OBVIOUS
<1> QED
  BY <1>1, DivModUnique

\* A word of so many bits has one half without and one with its sign.
LEMMA SignHalves ==
    ASSUME NEW bits \in Nat \ {0}
    PROVE  2^bits = 2 * 2^(bits - 1) /\ 2^(bits - 1) \in Nat \ {0}
<1>1. bits - 1 \in Nat /\ (bits - 1) + 1 = bits
  OBVIOUS
<1>2. 2^((bits - 1) + 1) = 2 * 2^(bits - 1)
  BY <1>1, PowerNext
<1> QED
  BY <1>1, <1>2, PowerType

\* Less than half the range away, the sign of the word is that of the number.
LEMMA SignOfDifference ==
    ASSUME NEW bits \in Nat \ {0}, NEW e \in Int,
           -2^(bits - 1) <= e, e < 2^(bits - 1)
    PROVE  /\ (Signed(e % 2^bits, bits) < 0) <=> (e < 0)
           /\ (Signed(e % 2^bits, bits) >= 0) <=> (e >= 0)
<1>1. PICK p \in Nat \ {0} : p = 2^(bits - 1)
  BY SignHalves
<1>2. PICK m \in Nat \ {0} : m = 2^bits
  BY SignHalves
<1>3. m = 2 * p /\ -p <= e /\ e < p
  BY <1>1, <1>2, SignHalves
<1>4. CASE e >= 0
  <2>1. e = 0 * m + e /\ e \in 0 .. m - 1
    BY <1>3, <1>4
  <2>2. e % m = e
    BY <2>1, DivModUnique
  <2> QED
    BY <1>1, <1>2, <1>3, <1>4, <2>2 DEF Signed
<1>5. CASE e < 0
  <2>1. e = (-1) * m + (m + e) /\ m + e \in 0 .. m - 1
    BY <1>3, <1>5
  <2>2. e % m = m + e
    BY <2>1, DivModUnique
  <2> QED
    BY <1>1, <1>2, <1>3, <1>5, <2>2 DEF Signed
<1> QED
  BY <1>4, <1>5

-----------------------------------------------------------------------------
(***************************************************************************)
(* mktime64 and the calendar.                                              *)
(***************************************************************************)
\* A year is a multiple of n where the quotient goes up.
LEMMA QuotientSteps ==
    ASSUME NEW y \in Nat \ {0}, NEW n \in {4, 100, 400}
    PROVE  y \div n = (y - 1) \div n + (IF y % n = 0 THEN 1 ELSE 0)
<1>1. CASE n = 4
  BY <1>1
<1>2. CASE n = 100
  BY <1>2
<1>3. CASE n = 400
  BY <1>3
<1> QED
  BY <1>1, <1>2, <1>3

\* The days up to the last of February of the year y before March.
YearDays(y) == y \div 4 - y \div 100 + y \div 400 + y * 365

\* A year that ends with February has 365 or 366 days.
LEMMA YearLength ==
    ASSUME NEW y \in Nat \ {0}
    PROVE  /\ YearDays(y) \in Int /\ YearDays(y - 1) \in Int
           /\ YearDays(y) = YearDays(y - 1) + (IF Leap(y) THEN 366 ELSE 365)
<1>1. /\ y \div 4 = (y - 1) \div 4 + (IF y % 4 = 0 THEN 1 ELSE 0)
      /\ y \div 100 = (y - 1) \div 100 + (IF y % 100 = 0 THEN 1 ELSE 0)
      /\ y \div 400 = (y - 1) \div 400 + (IF y % 400 = 0 THEN 1 ELSE 0)
  BY QuotientSteps
<1>2. (y % 400 = 0 => y % 100 = 0) /\ (y % 100 = 0 => y % 4 = 0)
  OBVIOUS
<1>3. YearDays(y) \in Int /\ YearDays(y - 1) \in Int
  BY DEF YearDays
<1> QED
  BY <1>1, <1>2, <1>3 DEF YearDays, Leap

\* What is taken off, so that 1970 begins with 0.
Offset == 719499

\* DayNumber by its parts: years that begin in March, months, days.
Parts(y, m, d, number) ==
    /\ number \in Int /\ Offset \in Nat
    /\ m <= 2 => number = YearDays(y - 1) + (367 * (m + 10)) \div 12 + d - Offset
    /\ m > 2 => number = YearDays(y) + (367 * (m - 2)) \div 12 + d - Offset

\* DayNumber is the sum of its parts.
LEMMA DayNumberParts ==
    ASSUME NEW y \in Nat \ {0}, NEW m \in 1..12, NEW d \in Nat
    PROVE  Parts(y, m, d, DayNumber(Date(y, m, d)))
<1>1. PICK t : t = Date(y, m, d)
  OBVIOUS
<1>2. t.year = y /\ t.mon = m /\ t.day = d
  BY <1>1 DEF Date
<1>3. YearDays(y) \in Int /\ YearDays(y - 1) \in Int /\ Offset \in Nat
  BY YearLength, SMT DEF Offset
<1>4. CASE m <= 2
  <2>1. Shifted(t) = [mon |-> m + 10, year |-> y - 1]
    BY <1>2, <1>4 DEF Shifted
  <2>2. DayNumber(t) = YearDays(y - 1) + (367 * (m + 10)) \div 12 + d - Offset
    BY <1>2, <2>1, SMT DEF DayNumber, YearDays, Offset
  <2> QED
    BY <1>1, <1>3, <1>4, <2>2 DEF Parts
<1>5. CASE m > 2
  <2>1. Shifted(t) = [mon |-> m - 2, year |-> y]
    BY <1>2, <1>5 DEF Shifted
  <2>2. DayNumber(t) = YearDays(y) + (367 * (m - 2)) \div 12 + d - Offset
    BY <1>2, <2>1, SMT DEF DayNumber, YearDays, Offset
  <2> QED
    BY <1>1, <1>3, <1>5, <2>2 DEF Parts
<1> QED
  BY <1>4, <1>5

\* The day after is one more, over the ends of months and years.
LEMMA NextDay ==
    ASSUME NEW y \in Nat \ {0}, NEW m \in 1..12, NEW d \in 1..Length(y, m)
    PROVE  /\ DayNumber(Date(y, m, d)) \in Int
           /\ DayNumber(Following(Date(y, m, d))) = DayNumber(Date(y, m, d)) + 1
<1>1. Length(y, m) \in 28..31
  BY DEF Length
<1>2. d \in Nat /\ d + 1 \in Nat /\ y + 1 \in Nat \ {0}
  BY <1>1
<1>3. PICK t : t = Date(y, m, d)
  OBVIOUS
<1>4. t.year = y /\ t.mon = m /\ t.day = d
  BY <1>3 DEF Date
<1>5. YearDays(y) \in Int /\ YearDays(y - 1) \in Int
  BY YearLength
<1>6. Parts(y, m, d, DayNumber(t))
  BY <1>2, <1>3, DayNumberParts
<1>7. CASE d < Length(y, m)
  <2>1. Following(t) = Date(y, m, d + 1)
    BY <1>4, <1>7 DEF Following
  <2>2. Parts(y, m, d + 1, DayNumber(Date(y, m, d + 1)))
    BY <1>2, DayNumberParts
  <2> QED
    BY <1>2, <1>3, <1>5, <1>6, <2>1, <2>2 DEF Parts
<1>8. CASE d = Length(y, m) /\ m < 12
  <2>1. Following(t) = Date(y, m + 1, 1)
    BY <1>1, <1>4, <1>8 DEF Following
  <2>2. Parts(y, m + 1, 1, DayNumber(Date(y, m + 1, 1)))
    <3>1. m + 1 \in 1..12 /\ 1 \in Nat
      BY <1>8
    <3> QED
      BY <3>1, DayNumberParts
  <2>3. CASE m = 1
    <3>1. d = 31
      BY <1>8, <2>3 DEF Length
    <3> QED
      BY <1>3, <1>5, <1>6, <2>1, <2>2, <2>3, <3>1 DEF Parts
  <2>4. CASE m = 2
    <3>1. YearDays(y) = YearDays(y - 1) + (IF Leap(y) THEN 366 ELSE 365)
      BY YearLength
    <3>2. d = IF Leap(y) THEN 29 ELSE 28
      BY <1>8, <2>4 DEF Length
    <3> QED
      BY <1>3, <1>5, <1>6, <2>1, <2>2, <2>4, <3>1, <3>2 DEF Parts
  <2>5. CASE m \in 3..11
    <3>1. d = IF m \in {4, 6, 9, 11} THEN 30 ELSE 31
      BY <1>8, <2>5 DEF Length
    <3>2. (367 * (m + 1 - 2)) \div 12 = (367 * (m - 2)) \div 12 + d
      BY <2>5, <3>1
    <3> QED
      BY <1>2, <1>3, <1>5, <1>6, <2>1, <2>2, <2>5, <3>2 DEF Parts
  <2> QED
    BY <1>8, <2>3, <2>4, <2>5
<1>9. CASE d = Length(y, m) /\ m = 12
  <2>1. Following(t) = Date(y + 1, 1, 1)
    BY <1>1, <1>4, <1>9 DEF Following
  <2>2. Parts(y + 1, 1, 1, DayNumber(Date(y + 1, 1, 1)))
    BY <1>2, DayNumberParts
  <2>3. (y + 1) - 1 = y
    OBVIOUS
  <2>4. d = 31
    BY <1>9 DEF Length
  <2> QED
    BY <1>3, <1>5, <1>6, <1>9, <2>1, <2>2, <2>3, <2>4 DEF Parts
<1>10. d < Length(y, m) \/ d = Length(y, m)
  BY <1>1
<1> QED
  BY <1>3, <1>6, <1>7, <1>8, <1>9, <1>10 DEF Parts

\* The epoch.
LEMMA Epoch == DayNumber(Date(1970, 1, 1)) = 0
<1>1. Parts(1970, 1, 1, DayNumber(Date(1970, 1, 1)))
  BY DayNumberParts
<1>2. DayNumber(Date(1970, 1, 1)) =
          YearDays(1970 - 1) + (367 * (1 + 10)) \div 12 + 1 - Offset
  BY <1>1 DEF Parts
<1>3. 1969 \div 4 = 492 /\ 1969 \div 100 = 19 /\ 1969 \div 400 = 4
  BY SMT
<1>4. YearDays(1969) + 337 = Offset
  BY <1>3, SMT DEF YearDays, Offset
<1>5. 1970 - 1 = 1969 /\ (367 * (1 + 10)) \div 12 = 336
  BY SMT
<1>6. YearDays(1969) \in Int
  BY SMT DEF YearDays
<1> QED
  BY <1>2, <1>4, <1>5, <1>6, SMT

\* A date of the calendar.
CalendarDate(t) ==
    \E y \in FIRST..LAST, m \in 1..12 : \E d \in 1..Length(y, m) : t = Date(y, m, d)

\* What is called, and what it gave.
CalendarIInv ==
    \/ call = Idle
    \/ \E t : /\ CalendarDate(t)
              /\ \/ call = [fn |-> "days", args |-> t, result |-> DayNumber(t)]
                 \/ call = [fn |-> "begin", args |-> t,
                            result |-> mktime64(t, 0, 0, 0)]
                 \/ call = [fn |-> "end", args |-> t,
                            result |-> mktime64(t, 24, 0, 0)]
                 \/ call = [fn |-> "end", args |-> t,
                            result |-> mktime64(t, 23, 59, 60)]

\* mktime64 counts the days of the calendar and the seconds of a day, for
\* every date from year 1 on.
THEOREM CalendarFollowed == CalendarSpec => []FollowsCalendar
<1>1. CalendarInit => CalendarIInv
  BY DEF CalendarInit, CalendarIInv
<1>2. CalendarIInv /\ [CalendarNext]_call => CalendarIInv'
  <2> SUFFICES ASSUME CalendarIInv, [CalendarNext]_call
               PROVE  CalendarIInv'
    OBVIOUS
  <2>1. CASE MakeTime
    <3>1. PICK y \in FIRST..LAST, m \in 1..12 : \E d \in 1..Length(y, m) :
              LET t == Date(y, m, d)
              IN  \/ Call("days", t, DayNumber(t))
                  \/ /\ y \in 1902..2037
                     /\ \/ Call("begin", t, mktime64(t, 0, 0, 0))
                        \/ Call("end", t, mktime64(t, 24, 0, 0))
                        \/ Call("end", t, mktime64(t, 23, 59, 60))
      BY <2>1 DEF MakeTime
    <3>2. PICK d \in 1..Length(y, m) :
              LET t == Date(y, m, d)
              IN  \/ Call("days", t, DayNumber(t))
                  \/ /\ y \in 1902..2037
                     /\ \/ Call("begin", t, mktime64(t, 0, 0, 0))
                        \/ Call("end", t, mktime64(t, 24, 0, 0))
                        \/ Call("end", t, mktime64(t, 23, 59, 60))
      BY <3>1
    <3>3. CalendarDate(Date(y, m, d))
      BY DEF CalendarDate
    <3> QED
      BY <3>2, <3>3 DEF Call, CalendarIInv
  <2>2. CASE Return
    BY <2>2 DEF Return, CalendarIInv
  <2>3. CASE UNCHANGED call
    BY <2>3 DEF CalendarIInv
  <2> QED
    BY <2>1, <2>2, <2>3 DEF CalendarNext
<1>3. CalendarIInv => FollowsCalendar
  <2> SUFFICES ASSUME CalendarIInv
               PROVE  FollowsCalendar
    OBVIOUS
  <2>1. CASE call = Idle
    BY <2>1 DEF Idle, FollowsCalendar, CountsDays, DayEnds, Called
  <2>2. CASE call # Idle
    <3>1. PICK t : /\ CalendarDate(t)
                   /\ \/ call = [fn |-> "days", args |-> t, result |-> DayNumber(t)]
                      \/ call = [fn |-> "begin", args |-> t,
                                 result |-> mktime64(t, 0, 0, 0)]
                      \/ call = [fn |-> "end", args |-> t,
                                 result |-> mktime64(t, 24, 0, 0)]
                      \/ call = [fn |-> "end", args |-> t,
                                 result |-> mktime64(t, 23, 59, 60)]
      BY <2>2 DEF CalendarIInv
    <3>2. DayNumber(t) \in Int /\ DayNumber(Following(t)) = DayNumber(t) + 1
      <4>1. PICK y \in FIRST..LAST, m \in 1..12 :
                \E d \in 1..Length(y, m) : t = Date(y, m, d)
        BY <3>1 DEF CalendarDate
      <4>2. PICK d \in 1..Length(y, m) : t = Date(y, m, d)
        BY <4>1
      <4>3. y \in Nat \ {0}
        BY YearsAssumption
      <4> QED
        BY <4>2, <4>3, NextDay
    <3>3. /\ mktime64(t, 0, 0, 0) = DayNumber(t) * 86400
          /\ mktime64(t, 24, 0, 0) = (DayNumber(t) + 1) * 86400
          /\ mktime64(t, 23, 59, 60) = (DayNumber(t) + 1) * 86400
      BY <3>2 DEF mktime64
    <3>4. CountsDays
      <4>1. Called("days") => call.args = t /\ call.result = DayNumber(t)
        BY <3>1 DEF Called
      <4> QED
        BY <3>2, <4>1, Epoch DEF CountsDays
    <3>5. DayEnds
      <4>1. Called("begin") => call.args = t /\ call.result = mktime64(t, 0, 0, 0)
        BY <3>1 DEF Called
      <4>2. Called("end") => /\ call.args = t
                             /\ \/ call.result = mktime64(t, 24, 0, 0)
                                \/ call.result = mktime64(t, 23, 59, 60)
        BY <3>1 DEF Called
      <4> QED
        BY <3>2, <3>3, <4>1, <4>2 DEF DayEnds
    <3> QED
      BY <3>4, <3>5 DEF FollowsCalendar
  <2> QED
    BY <2>1, <2>2
<1> QED
  BY <1>1, <1>2, <1>3, PTL DEF CalendarSpec

-----------------------------------------------------------------------------
(***************************************************************************)
(* Comparing times.                                                        *)
(***************************************************************************)
\* The widths are positive, and half a range is more than a second.
LEMMA Widths ==
    /\ IntBits \in Nat \ {0} /\ LongBits \in Nat \ {0} /\ 2 * IntBits \in Nat \ {0}
    /\ HZ \in Nat \ {0}
    /\ HZ < 2^(LongBits - 1) /\ HZ < 2^(2 * IntBits - 1)
    /\ MAX_JIFFY_OFFSET \in Nat /\ MAX_JIFFY_OFFSET < 2^(LongBits - 1)
<1>1. /\ IntBits \in Nat /\ IntBits > 2 /\ LongBits \in {IntBits, 2 * IntBits}
      /\ HZ \in Nat \ {0} /\ HZ < 2^(IntBits - 1)
  BY UnitsAssumption, WidthsAssumption
<1>2. /\ IntBits - 1 \in Nat /\ LongBits - 1 \in Nat /\ 2 * IntBits - 1 \in Nat
      /\ IntBits - 1 <= LongBits - 1 /\ IntBits - 1 <= 2 * IntBits - 1
      /\ 2 <= LongBits - 1
  BY <1>1
<1>3. /\ 2^(IntBits - 1) \in Nat /\ 2^(LongBits - 1) \in Nat
      /\ 2^(2 * IntBits - 1) \in Nat
  BY <1>2, PowerType
<1>4. /\ 2^(IntBits - 1) <= 2^(LongBits - 1)
      /\ 2^(IntBits - 1) <= 2^(2 * IntBits - 1)
  BY <1>2, PowerDivides
<1>5. 4 <= 2^(LongBits - 1)
  <2>1. 2^2 = 4
    OBVIOUS
  <2>2. 2 \in Nat
    OBVIOUS
  <2>3. 2^2 <= 2^(LongBits - 1)
    BY <1>2, <2>2, PowerDivides
  <2> QED
    BY <2>1, <2>3
<1>6. MAX_JIFFY_OFFSET \in Nat /\ MAX_JIFFY_OFFSET < 2^(LongBits - 1)
  <2>1. PICK p \in Nat : p = 2^(LongBits - 1)
    BY <1>3
  <2>2. MAX_JIFFY_OFFSET = (p - 1) \div 2 - 1
    BY <2>1 DEF MAX_JIFFY_OFFSET
  <2> QED
    BY <1>5, <2>1, <2>2
<1> QED
  BY <1>1, <1>3, <1>4, <1>6

\* Times that are the same modulo the range of an unsigned long as two
\* numbers less than half of it apart compare as those do.
LEMMA LongOrder ==
    ASSUME NEW a \in Int, NEW b \in Int, NEW x \in Int, NEW y \in Int,
           Same(x, a, 2^LongBits), Same(y, b, 2^LongBits),
           -2^(LongBits - 1) < a - b, a - b < 2^(LongBits - 1)
    PROVE  /\ time_after(x, y) <=> (a > b)
           /\ time_after_eq(x, y) <=> (a >= b)
<1>1. LongBits \in Nat \ {0}
  BY Widths
<1>2. 2^(LongBits - 1) \in Nat /\ 2^LongBits \in Nat \ {0}
  BY <1>1, SignHalves
<1>3. Ulong(x - y) = (a - b) % 2^LongBits /\ Ulong(y - x) = (b - a) % 2^LongBits
  <2>1. PICK m \in Nat \ {0} : m = 2^LongBits
    BY <1>2
  <2>2. Same(x, a, m) /\ Same(y, b, m)
    BY <2>1
  <2>3. Same(x - y, a - b, m)
    BY <2>2, DifferenceModulo
  <2>4. Same(y - x, b - a, m)
    BY <2>2, DifferenceModulo
  <2> QED
    BY <2>1, <2>3, <2>4 DEF Same, Ulong
<1>4. a - b \in Int /\ -2^(LongBits - 1) <= a - b /\ a - b < 2^(LongBits - 1)
  BY <1>2
<1>5. b - a \in Int /\ -2^(LongBits - 1) <= b - a /\ b - a < 2^(LongBits - 1)
  BY <1>2
<1>6. (Signed((a - b) % 2^LongBits, LongBits) >= 0) <=> (a - b >= 0)
  BY <1>1, <1>4, SignOfDifference
<1>7. (Signed((b - a) % 2^LongBits, LongBits) < 0) <=> (b - a < 0)
  BY <1>1, <1>5, SignOfDifference
<1> QED
  BY <1>3, <1>6, <1>7 DEF time_after, time_after_eq

\* The same for u64 counts.
LEMMA LongLongOrder ==
    ASSUME NEW a \in Int, NEW b \in Int, NEW x \in Int, NEW y \in Int,
           Same(x, a, 2^(2 * IntBits)), Same(y, b, 2^(2 * IntBits)),
           -2^(2 * IntBits - 1) < a - b, a - b < 2^(2 * IntBits - 1)
    PROVE  /\ time_after64(x, y) <=> (a > b)
           /\ time_after_eq64(x, y) <=> (a >= b)
<1>1. 2 * IntBits \in Nat \ {0}
  BY Widths
<1>2. 2^(2 * IntBits - 1) \in Nat /\ 2^(2 * IntBits) \in Nat \ {0}
  BY <1>1, SignHalves
<1>3. Ullong(x - y) = (a - b) % 2^(2 * IntBits) /\ Ullong(y - x) = (b - a) % 2^(2 * IntBits)
  <2>1. PICK m \in Nat \ {0} : m = 2^(2 * IntBits)
    BY <1>2
  <2>2. Same(x, a, m) /\ Same(y, b, m)
    BY <2>1
  <2>3. Same(x - y, a - b, m)
    BY <2>2, DifferenceModulo
  <2>4. Same(y - x, b - a, m)
    BY <2>2, DifferenceModulo
  <2> QED
    BY <2>1, <2>3, <2>4 DEF Same, Ullong
<1>4. a - b \in Int /\ -2^(2 * IntBits - 1) <= a - b /\ a - b < 2^(2 * IntBits - 1)
  BY <1>2
<1>5. b - a \in Int /\ -2^(2 * IntBits - 1) <= b - a /\ b - a < 2^(2 * IntBits - 1)
  BY <1>2
<1>6. (Signed((a - b) % 2^(2 * IntBits), 2 * IntBits) >= 0) <=> (a - b >= 0)
  BY <1>1, <1>4, SignOfDifference
<1>7. (Signed((b - a) % 2^(2 * IntBits), 2 * IntBits) < 0) <=> (b - a < 0)
  BY <1>1, <1>5, SignOfDifference
<1> QED
  BY <1>3, <1>6, <1>7 DEF time_after64, time_after_eq64

\* A stamp of d jiffies after j against j: it is after it for d > 0, and so on.
LEMMA StampAgainstClock ==
    ASSUME NEW j \in Int, NEW d \in Int,
           -2^(LongBits - 1) < d, d < 2^(LongBits - 1)
    PROVE  /\ time_is_after_jiffies(j, Ulong(j + d)) = (d > 0)
           /\ time_is_after_eq_jiffies(j, Ulong(j + d)) = (d >= 0)
           /\ time_is_before_jiffies(j, Ulong(j + d)) = (d < 0)
           /\ time_is_before_eq_jiffies(j, Ulong(j + d)) = (d <= 0)
<1>1. PICK m \in Nat \ {0} : m = 2^LongBits
  BY Widths, SignHalves
<1>2. PICK a \in Int : a = j + d
  OBVIOUS
<1>3. PICK x \in Int : x = Ulong(a)
  BY <1>1, DivModExist DEF Ulong
<1>4. Same(x, a, m) /\ Same(j, j, m)
  BY <1>1, <1>3, SameAsReduced DEF Same, Ulong
<1>5. PICK p \in Nat \ {0} : p = 2^(LongBits - 1)
  BY Widths, SignHalves
<1>6. /\ -2^(LongBits - 1) < a - j /\ a - j < 2^(LongBits - 1)
      /\ -2^(LongBits - 1) < j - a /\ j - a < 2^(LongBits - 1)
  BY <1>2, <1>5
<1>7. Same(x, a, 2^LongBits) /\ Same(j, j, 2^LongBits)
  BY <1>1, <1>4
<1>8. time_after(x, j) <=> (a > j)
  BY <1>6, <1>7, LongOrder
<1>9. time_after_eq(x, j) <=> (a >= j)
  BY <1>6, <1>7, LongOrder
<1>10. time_after(j, x) <=> (j > a)
  BY <1>6, <1>7, LongOrder
<1>11. time_after_eq(j, x) <=> (j >= a)
  BY <1>6, <1>7, LongOrder
<1> QED
  BY <1>2, <1>3, <1>8, <1>9, <1>10, <1>11
     DEF time_is_after_jiffies, time_is_after_eq_jiffies, time_is_before_jiffies,
         time_is_before_eq_jiffies, time_before, time_before_eq,
         time_after, time_after_eq

\* The interval of r jiffies from j on has the stamps of 0 to r after j, and,
\* open, of 0 to r - 1.
LEMMA StampInRange ==
    ASSUME NEW j \in Int, NEW d \in Int,
           -2^(LongBits - 1) < d, d < 2^(LongBits - 1),
           NEW r \in Nat, r < 2^(LongBits - 1)
    PROVE  /\ time_in_range(Ulong(j + d), j, Ulong(j + r)) = (d \in 0..r)
           /\ time_in_range_open(Ulong(j + d), j, Ulong(j + r)) = (d \in 0..(r - 1))
<1>1. PICK m \in Nat \ {0} : m = 2^LongBits
  BY Widths, SignHalves
<1>2. PICK a \in Int, c \in Int : a = j + d /\ c = j + r
  OBVIOUS
<1>3. PICK x \in Int, z \in Int : x = Ulong(a) /\ z = Ulong(c)
  <2>1. Ulong(a) = a % m /\ Ulong(c) = c % m
    BY <1>1 DEF Ulong
  <2>2. a % m \in Int
    BY DivModExist
  <2>3. c % m \in Int
    BY DivModExist
  <2> QED
    BY <2>1, <2>2, <2>3
<1>4. Same(x, a, m) /\ Same(j, j, m) /\ Same(z, c, m)
  BY <1>1, <1>3, SameAsReduced DEF Same, Ulong
<1>5. PICK p \in Nat \ {0} : p = 2^(LongBits - 1)
  BY Widths, SignHalves
<1>6. Same(x, a, 2^LongBits) /\ Same(j, j, 2^LongBits) /\ Same(z, c, 2^LongBits)
  BY <1>1, <1>4
<1>7. time_after_eq(x, j) <=> (d >= 0)
  <2>1. -2^(LongBits - 1) < a - j /\ a - j < 2^(LongBits - 1)
    BY <1>2
  <2>2. time_after_eq(x, j) <=> (a >= j)
    BY <1>6, <2>1, LongOrder
  <2> QED
    BY <1>2, <2>2
<1>8. ASSUME d >= 0
      PROVE  (time_after_eq(z, x) <=> (d <= r)) /\ (time_after(z, x) <=> (d < r))
  <2>1. -2^(LongBits - 1) < c - a /\ c - a < 2^(LongBits - 1)
    BY <1>2, <1>5, <1>8
  <2>2. time_after_eq(z, x) <=> (c >= a)
    BY <1>6, <2>1, LongOrder
  <2>3. time_after(z, x) <=> (c > a)
    BY <1>6, <2>1, LongOrder
  <2> QED
    BY <1>2, <2>2, <2>3
<1>9. time_in_range(x, j, z) <=> (d >= 0 /\ d <= r)
  BY <1>7, <1>8 DEF time_in_range, time_before_eq
<1>10. time_in_range_open(x, j, z) <=> (d >= 0 /\ d < r)
  BY <1>7, <1>8 DEF time_in_range_open, time_before
<1> QED
  BY <1>2, <1>3, <1>9, <1>10 DEF time_in_range, time_in_range_open

\* The same for a stamp and a clock of 64 bits.
LEMMA StampAgainstClock64 ==
    ASSUME NEW j \in Int, NEW d \in Int,
           -2^(2 * IntBits - 1) < d, d < 2^(2 * IntBits - 1)
    PROVE  /\ time_after64(Ullong(j + d), j) = (d > 0)
           /\ time_after_eq64(Ullong(j + d), j) = (d >= 0)
           /\ time_before64(Ullong(j + d), j) = (d < 0)
           /\ time_before_eq64(Ullong(j + d), j) = (d <= 0)
<1>1. PICK m \in Nat \ {0} : m = 2^(2 * IntBits)
  BY Widths, SignHalves
<1>2. PICK a \in Int : a = j + d
  OBVIOUS
<1>3. PICK x \in Int : x = Ullong(a)
  BY <1>1, DivModExist DEF Ullong
<1>4. Same(x, a, m) /\ Same(j, j, m)
  BY <1>1, <1>3, SameAsReduced DEF Same, Ullong
<1>5. PICK p \in Nat \ {0} : p = 2^(2 * IntBits - 1)
  BY Widths, SignHalves
<1>6. /\ -2^(2 * IntBits - 1) < a - j /\ a - j < 2^(2 * IntBits - 1)
      /\ -2^(2 * IntBits - 1) < j - a /\ j - a < 2^(2 * IntBits - 1)
  BY <1>2, <1>5
<1>7. Same(x, a, 2^(2 * IntBits)) /\ Same(j, j, 2^(2 * IntBits))
  BY <1>1, <1>4
<1>8. time_after64(x, j) <=> (a > j)
  BY <1>6, <1>7, LongLongOrder
<1>9. time_after_eq64(x, j) <=> (a >= j)
  BY <1>6, <1>7, LongLongOrder
<1>10. time_after64(j, x) <=> (j > a)
  BY <1>6, <1>7, LongLongOrder
<1>11. time_after_eq64(j, x) <=> (j >= a)
  BY <1>6, <1>7, LongLongOrder
<1> QED
  BY <1>2, <1>3, <1>8, <1>9, <1>10, <1>11
     DEF time_before64, time_before_eq64, time_after64, time_after_eq64

\* And an interval of them.
LEMMA StampInRange64 ==
    ASSUME NEW j \in Int, NEW d \in Int,
           -2^(2 * IntBits - 1) < d, d < 2^(2 * IntBits - 1),
           NEW r \in Nat, r < 2^(2 * IntBits - 1)
    PROVE  time_in_range64(Ullong(j + d), j, Ullong(j + r)) = (d \in 0..r)
<1>1. PICK m \in Nat \ {0} : m = 2^(2 * IntBits)
  BY Widths, SignHalves
<1>2. PICK a \in Int, c \in Int : a = j + d /\ c = j + r
  OBVIOUS
<1>3. PICK x \in Int, z \in Int : x = Ullong(a) /\ z = Ullong(c)
  <2>1. Ullong(a) = a % m /\ Ullong(c) = c % m
    BY <1>1 DEF Ullong
  <2>2. a % m \in Int
    BY DivModExist
  <2>3. c % m \in Int
    BY DivModExist
  <2> QED
    BY <2>1, <2>2, <2>3
<1>4. Same(x, a, m) /\ Same(j, j, m) /\ Same(z, c, m)
  BY <1>1, <1>3, SameAsReduced DEF Same, Ullong
<1>5. PICK p \in Nat \ {0} : p = 2^(2 * IntBits - 1)
  BY Widths, SignHalves
<1>6. Same(x, a, 2^(2 * IntBits)) /\ Same(j, j, 2^(2 * IntBits)) /\ Same(z, c, 2^(2 * IntBits))
  BY <1>1, <1>4
<1>7. time_after_eq64(x, j) <=> (d >= 0)
  <2>1. -2^(2 * IntBits - 1) < a - j /\ a - j < 2^(2 * IntBits - 1)
    BY <1>2
  <2>2. time_after_eq64(x, j) <=> (a >= j)
    BY <1>6, <2>1, LongLongOrder
  <2> QED
    BY <1>2, <2>2
<1>8. ASSUME d >= 0
      PROVE  time_after_eq64(z, x) <=> (d <= r)
  <2>1. -2^(2 * IntBits - 1) < c - a /\ c - a < 2^(2 * IntBits - 1)
    BY <1>2, <1>5, <1>8
  <2>2. time_after_eq64(z, x) <=> (c >= a)
    BY <1>6, <2>1, LongLongOrder
  <2> QED
    BY <1>2, <2>2
<1>9. time_in_range64(x, j, z) <=> (d >= 0 /\ d <= r)
  BY <1>7, <1>8 DEF time_in_range64, time_before_eq64
<1> QED
  BY <1>2, <1>3, <1>9 DEF time_in_range64

\* The names of the calls of each kind.
ToCalls == {"msecs", "usecs", "timespec", "timeval", "nsecs64", "nsecs"}
BackCalls == {"via msecs", "via usecs", "via timespec", "via timeval",
              "via clock_t", "via nsecs"}
UnitCalls == {"to nsecs", "to clock_t", "to clock64", "delta"}
Comparisons == {"after", "after_eq", "before", "before_eq", "in range"}

\* The calls of ToJiffies.
LEMMA ToJiffiesNamed == ASSUME ToJiffies PROVE call'.fn \in ToCalls
BY DEF ToJiffies, Call, ToCalls

\* The calls of FromJiffies.
LEMMA FromJiffiesNamed == ASSUME FromJiffies PROVE call'.fn \in BackCalls
<1>1. PICK fn \in BackCalls : \E args, result : Call(fn, args, result)
  BY Zenon DEF FromJiffies, BackCalls
<1>2. PICK args, result : Call(fn, args, result)
  BY <1>1
<1> QED
  BY <1>2 DEF Call

\* The calls of Others.
LEMMA OthersNamed == ASSUME Others PROVE call'.fn \in UnitCalls
<1>1. PICK fn \in UnitCalls : \E args, result : Call(fn, args, result)
  BY Zenon DEF Others, UnitCalls
<1>2. PICK args, result : Call(fn, args, result)
  BY <1>1
<1> QED
  BY <1>2 DEF Call

\* The calls of Compare.
LEMMA CompareNamed == ASSUME Compare PROVE call'.fn \in Comparisons
<1>1. PICK fn \in Comparisons : \E args, result : Call(fn, args, result)
  BY Zenon DEF Compare, Comparisons
<1>2. PICK args, result : Call(fn, args, result)
  BY <1>1
<1> QED
  BY <1>2 DEF Call

\* The calls of Compare64.
LEMMA Compare64Named == ASSUME Compare64 PROVE call'.fn \in Comparisons
<1>1. PICK fn \in Comparisons : \E args, result : Call(fn, args, result)
  BY Zenon DEF Compare64, Comparisons
<1>2. PICK args, result : Call(fn, args, result)
  BY <1>1
<1> QED
  BY <1>2 DEF Call

\* Comparing is asked for a stamp less than half the range away from the clock.
LEMMA CompareOrders == ASSUME Compare PROVE Ordered'
<1>1. PICK j \in {0, HZ, 2^(LongBits - 1) - 1, 2^LongBits - 1},
           d \in (-2^(LongBits - 1) + 1)..(2^(LongBits - 1) - 1) :
          LET a == Ulong(j + d)
          IN  \/ Call("after", <<j, d>>, time_is_after_jiffies(j, a))
              \/ Call("after_eq", <<j, d>>, time_is_after_eq_jiffies(j, a))
              \/ Call("before", <<j, d>>, time_is_before_jiffies(j, a))
              \/ Call("before_eq", <<j, d>>, time_is_before_eq_jiffies(j, a))
              \/ \E r \in {1, HZ, MAX_JIFFY_OFFSET} :
                    Call("in range", <<j, d, r>>,
                         <<time_in_range(a, j, Ulong(j + r)),
                           time_in_range_open(a, j, Ulong(j + r))>>)
  BY DEF Compare
<1>2. /\ 2^(LongBits - 1) \in Nat /\ 2^LongBits \in Nat /\ HZ \in Nat \ {0}
      /\ HZ < 2^(LongBits - 1)
  BY Widths, SignHalves
<1>3. j \in Int /\ d \in Int /\ -2^(LongBits - 1) < d /\ d < 2^(LongBits - 1)
  BY <1>2
<1>4. PICK a : a = Ulong(j + d)
  OBVIOUS
<1>5. /\ time_is_after_jiffies(j, a) = (d > 0)
      /\ time_is_after_eq_jiffies(j, a) = (d >= 0)
      /\ time_is_before_jiffies(j, a) = (d < 0)
      /\ time_is_before_eq_jiffies(j, a) = (d <= 0)
  BY <1>3, <1>4, StampAgainstClock
<1>6. CASE \E r \in {1, HZ, MAX_JIFFY_OFFSET} :
              Call("in range", <<j, d, r>>,
                   <<time_in_range(a, j, Ulong(j + r)),
                     time_in_range_open(a, j, Ulong(j + r))>>)
  <2>1. PICK r \in {1, HZ, MAX_JIFFY_OFFSET} :
              Call("in range", <<j, d, r>>,
                   <<time_in_range(a, j, Ulong(j + r)),
                     time_in_range_open(a, j, Ulong(j + r))>>)
    BY <1>6
  <2>2. r \in Nat /\ r < 2^(LongBits - 1)
    BY <1>2, Widths
  <2>3. /\ time_in_range(a, j, Ulong(j + r)) = (d \in 0..r)
        /\ time_in_range_open(a, j, Ulong(j + r)) = (d \in 0..(r - 1))
    BY <1>3, <1>4, <2>2, StampInRange
  <2>4. /\ call'.fn = "in range" /\ call'.args[2] = d /\ call'.args[3] = r
        /\ call'.result = <<d \in 0..r, d \in 0..(r - 1)>>
    BY <2>1, <2>3 DEF Call
  <2> QED
    BY <2>4 DEF Ordered, Called
<1>7. CASE Call("after", <<j, d>>, time_is_after_jiffies(j, a))
  <2>1. call'.fn = "after" /\ call'.args[2] = d /\ call'.result = time_is_after_jiffies(j, a)
    BY <1>7 DEF Call
  <2> QED
    BY <1>5, <2>1 DEF Ordered, Called
<1>8. CASE Call("after_eq", <<j, d>>, time_is_after_eq_jiffies(j, a))
  <2>1. call'.fn = "after_eq" /\ call'.args[2] = d /\ call'.result = time_is_after_eq_jiffies(j, a)
    BY <1>8 DEF Call
  <2> QED
    BY <1>5, <2>1 DEF Ordered, Called
<1>9. CASE Call("before", <<j, d>>, time_is_before_jiffies(j, a))
  <2>1. call'.fn = "before" /\ call'.args[2] = d /\ call'.result = time_is_before_jiffies(j, a)
    BY <1>9 DEF Call
  <2> QED
    BY <1>5, <2>1 DEF Ordered, Called
<1>10. CASE Call("before_eq", <<j, d>>, time_is_before_eq_jiffies(j, a))
  <2>1. call'.fn = "before_eq" /\ call'.args[2] = d /\ call'.result = time_is_before_eq_jiffies(j, a)
    BY <1>10 DEF Call
  <2> QED
    BY <1>5, <2>1 DEF Ordered, Called
<1> QED
  BY <1>1, <1>4, <1>6, <1>7, <1>8, <1>9, <1>10

\* The same for 64 bits.
LEMMA Compare64Orders == ASSUME Compare64 PROVE Ordered'
<1>1. PICK j \in {0, 2^(2 * IntBits) - 1},
           d \in {e \in (-2^(2 * IntBits - 1) + 1)..(2^(2 * IntBits - 1) - 1) :
                   (e + HZ) % 2^(2 * IntBits - 1) < 3 * HZ} :
          LET a == Ullong(j + d)
          IN  \/ Call("after", <<j, d>>, time_after64(a, j))
              \/ Call("after_eq", <<j, d>>, time_after_eq64(a, j))
              \/ Call("before", <<j, d>>, time_before64(a, j))
              \/ Call("before_eq", <<j, d>>, time_before_eq64(a, j))
              \/ Call("in range", <<j, d, HZ>>,
                      <<time_in_range64(a, j, Ullong(j + HZ)),
                        time_in_range64(a, j, Ullong(j + HZ - 1))>>)
  BY DEF Compare64
<1>2. /\ 2^(2 * IntBits - 1) \in Nat /\ 2^(2 * IntBits) \in Nat
      /\ HZ \in Nat \ {0} /\ HZ < 2^(2 * IntBits - 1)
  BY Widths, SignHalves
<1>3. /\ j \in Int /\ d \in Int
      /\ -2^(2 * IntBits - 1) < d /\ d < 2^(2 * IntBits - 1)
  BY <1>2
<1>4. PICK a : a = Ullong(j + d)
  OBVIOUS
<1>5. /\ time_after64(a, j) = (d > 0)
      /\ time_after_eq64(a, j) = (d >= 0)
      /\ time_before64(a, j) = (d < 0)
      /\ time_before_eq64(a, j) = (d <= 0)
  BY <1>3, <1>4, StampAgainstClock64
<1>6. CASE Call("in range", <<j, d, HZ>>,
                <<time_in_range64(a, j, Ullong(j + HZ)),
                  time_in_range64(a, j, Ullong(j + HZ - 1))>>)
  <2>1. /\ HZ \in Nat /\ HZ - 1 \in Nat /\ HZ - 1 < 2^(2 * IntBits - 1)
        /\ j + (HZ - 1) = j + HZ - 1
    BY <1>2, <1>3
  <2>2. time_in_range64(a, j, Ullong(j + HZ)) = (d \in 0..HZ)
    BY <1>2, <1>3, <1>4, <2>1, StampInRange64
  <2>3. time_in_range64(a, j, Ullong(j + (HZ - 1))) = (d \in 0..(HZ - 1))
    BY <1>2, <1>3, <1>4, <2>1, StampInRange64
  <2>4. /\ call'.fn = "in range" /\ call'.args[2] = d /\ call'.args[3] = HZ
        /\ call'.result = <<d \in 0..HZ, d \in 0..(HZ - 1)>>
    BY <1>6, <2>1, <2>2, <2>3 DEF Call
  <2> QED
    BY <2>4 DEF Ordered, Called
<1>7. CASE Call("after", <<j, d>>, time_after64(a, j))
  <2>1. call'.fn = "after" /\ call'.args[2] = d /\ call'.result = time_after64(a, j)
    BY <1>7 DEF Call
  <2> QED
    BY <1>5, <2>1 DEF Ordered, Called
<1>8. CASE Call("after_eq", <<j, d>>, time_after_eq64(a, j))
  <2>1. call'.fn = "after_eq" /\ call'.args[2] = d /\ call'.result = time_after_eq64(a, j)
    BY <1>8 DEF Call
  <2> QED
    BY <1>5, <2>1 DEF Ordered, Called
<1>9. CASE Call("before", <<j, d>>, time_before64(a, j))
  <2>1. call'.fn = "before" /\ call'.args[2] = d /\ call'.result = time_before64(a, j)
    BY <1>9 DEF Call
  <2> QED
    BY <1>5, <2>1 DEF Ordered, Called
<1>10. CASE Call("before_eq", <<j, d>>, time_before_eq64(a, j))
  <2>1. call'.fn = "before_eq" /\ call'.args[2] = d /\ call'.result = time_before_eq64(a, j)
    BY <1>10 DEF Call
  <2> QED
    BY <1>5, <2>1 DEF Ordered, Called
<1> QED
  BY <1>1, <1>4, <1>6, <1>7, <1>8, <1>9, <1>10

\* Comparisons of times are right for stamps less than half the range of their
\* word from the clock, also over the wrap: jiffies.h's time_after and the
\* others, for words of every width.
THEOREM TimesOrdered == ConvSpec => []Ordered
<1>1. ConvInit => Ordered
  BY DEF ConvInit, Idle, Ordered, Called
<1>2. Ordered /\ [ConvNext]_call => Ordered'
  <2> SUFFICES ASSUME Ordered, [ConvNext]_call
               PROVE  Ordered'
    OBVIOUS
  <2>1. ASSUME call'.fn \notin Comparisons
        PROVE  Ordered'
    BY <2>1 DEF Comparisons, Ordered, Called
  <2>2. CASE ToJiffies
    BY <2>1, <2>2, ToJiffiesNamed DEF ToCalls, Comparisons
  <2>3. CASE FromJiffies
    BY <2>1, <2>3, FromJiffiesNamed DEF BackCalls, Comparisons
  <2>4. CASE Others
    BY <2>1, <2>4, OthersNamed DEF UnitCalls, Comparisons
  <2>5. CASE Compare
    BY <2>5, CompareOrders
  <2>6. CASE Compare64
    BY <2>6, Compare64Orders
  <2>7. CASE Return
    BY <2>1, <2>7 DEF Return, Idle, Comparisons
  <2>8. CASE UNCHANGED call
    BY <2>8 DEF Ordered, Called
  <2> QED
    BY <2>2, <2>3, <2>4, <2>5, <2>6, <2>7, <2>8 DEF ConvNext
<1> QED
  BY <1>1, <1>2, PTL DEF ConvSpec

-----------------------------------------------------------------------------
(***************************************************************************)
(* Delays.                                                                 *)
(***************************************************************************)
\* Rounding up to a multiple of the unit goes up by less than one unit.
LEMMA CeilBounds ==
    ASSUME NEW u \in Nat \ {0}, NEW x \in Nat
    PROVE  /\ (x + u - 1) \div u \in Nat
           /\ x <= u * ((x + u - 1) \div u) /\ u * ((x + u - 1) \div u) < x + u
<1>1. PICK y \in Nat : y = x + u - 1
  OBVIOUS
<1>2. PICK q \in Int, r \in 0 .. u - 1 : q = y \div u /\ y = q * u + r
  BY <1>1, DivModExist
<1>3. q * u = u * q /\ u * q \in Int
  BY <1>2
<1>4. q >= 0
  <2>1. q <= -1 => q * u <= -u
    BY <1>2
  <2> QED
    BY <1>1, <1>2, <2>1
<1> QED
  BY <1>1, <1>2, <1>3, <1>4

\* The units and the sizes of the words; an unsigned int is no wider than a
\* long, and a tick is a whole number of milliseconds.
LEMMA DelayUnits ==
    /\ MSEC_PER_SEC \in Nat \ {0} /\ USEC_PER_MSEC \in Nat /\ NSEC_PER_USEC \in Nat \ {0}
    /\ MSEC_PER_SEC \div HZ \in Nat \ {0}
    /\ 2^IntBits \in Nat \ {0} /\ 2^LongBits \in Nat \ {0} /\ 2^IntBits <= 2^LongBits
    /\ 2^(IntBits - 1) \in Nat \ {0} /\ 2^IntBits = 2 * 2^(IntBits - 1)
<1>1. /\ HZ \in Nat \ {0} /\ MSEC_PER_SEC \in Nat \ {0} /\ USEC_PER_SEC \in Nat \ {0}
      /\ NSEC_PER_SEC \in Nat \ {0}
      /\ MSEC_PER_SEC % HZ = 0 /\ NSEC_PER_SEC % USEC_PER_SEC = 0
  BY UnitsAssumption
<1>2. ASSUME NEW a \in Nat \ {0}, NEW b \in Nat \ {0}
      PROVE  a \div b \in Nat /\ (a % b = 0 => a \div b \in Nat \ {0})
  <2>1. PICK q \in Int, r \in 0 .. b - 1 : q = a \div b /\ r = a % b /\ a = q * b + r
    BY DivModExist
  <2>2. q >= 0
    <3>1. q <= -1 => q * b <= -b
      BY <2>1
    <3> QED
      BY <2>1, <3>1
  <2>3. q = 0 => a = r
    BY <2>1
  <2> QED
    BY <2>1, <2>2, <2>3
<1>3. MSEC_PER_SEC \div HZ \in Nat \ {0}
  BY <1>1, <1>2
<1>4. NSEC_PER_USEC \in Nat \ {0}
  BY <1>1, <1>2 DEF NSEC_PER_USEC
<1>5. USEC_PER_MSEC \in Nat
  BY <1>1, <1>2 DEF USEC_PER_MSEC
<1>6. IntBits \in Nat \ {0} /\ LongBits \in Nat /\ IntBits <= LongBits
  BY WidthsAssumption
<1>7. 2^IntBits <= 2^LongBits
  BY <1>6, PowerDivides
<1>8. 2^IntBits \in Nat \ {0} /\ 2^LongBits \in Nat \ {0}
  BY <1>6, PowerType
<1>9. 2^(IntBits - 1) \in Nat \ {0} /\ 2^IntBits = 2 * 2^(IntBits - 1)
  BY <1>6, SignHalves
<1> QED
  BY <1>1, <1>3, <1>4, <1>5, <1>7, <1>8, <1>9

\* What fits into the argument of usleep reaches it as it was meant.
LEMMA WholeDelay ==
    ASSUME NEW f \in DelayFunctions, NEW x \in uint,
           Wanted(f, x) < 2^IntBits,
           ~ (f = "ndelay" /\ x + NSEC_PER_USEC - 1 >= 2^LongBits)
    PROVE  uki_usleep(Microseconds(f, x)) = Wanted(f, x) /\ Wanted(f, x) \in Nat
<1>1. PICK m \in Nat \ {0}, l \in Nat \ {0} :
          m = 2^IntBits /\ l = 2^LongBits /\ m <= l
  BY DelayUnits
<1>2. x \in Nat /\ x < m
  BY <1>1 DEF uint
<1>3. ASSUME NEW y \in Nat, y < m
      PROVE  Uint(y) = y /\ Ulong(y) = y
  <2>1. y % m = y
    BY <1>3, NotCut
  <2>2. y % l = y
    BY <1>1, <1>3, NotCut
  <2> QED
    BY <1>1, <2>1, <2>2 DEF Uint, Ulong
<1>4. CASE f = "ndelay"
  <2>1. PICK u \in Nat \ {0} : u = NSEC_PER_USEC
    BY DelayUnits
  <2>2. PICK y \in Nat : y = x + u - 1
    BY <1>2
  <2>3. y < l
    BY <1>1, <1>4, <2>1, <2>2
  <2>4. Ulong(y) = y
    BY <1>1, <2>3, NotCut DEF Ulong
  <2>5. y \div u \in Nat
    BY <1>2, <2>2, CeilBounds
  <2>6. Wanted(f, x) = y \div u
    BY <1>4, <2>1, <2>2 DEF Wanted
  <2>7. Microseconds(f, x) = y \div u
    BY <1>4, <2>1, <2>2, <2>4 DEF Microseconds
  <2> QED
    BY <1>1, <1>3, <2>5, <2>6, <2>7 DEF uki_usleep
<1>5. CASE f = "ssleep"
  <2>1. PICK a \in Nat \ {0}, b \in Nat : a = MSEC_PER_SEC /\ b = USEC_PER_MSEC
    BY DelayUnits
  <2>2. PICK y \in Nat : y = x * a
    BY <1>2
  <2>3. PICK z \in Nat : z = y * b
    OBVIOUS
  <2>4. Wanted(f, x) = z /\ z < m
    BY <1>1, <1>5, <2>1, <2>2, <2>3 DEF Wanted
  <2>5. Microseconds(f, x) = Ulong(Uint(y) * b)
    BY <1>5, <2>1, <2>2 DEF Microseconds
  <2>6. CASE b = 0
    <3>1. Uint(y) \in Int
      BY <1>1, DivModExist DEF Uint
    <3>2. Uint(y) * b = 0 /\ z = 0
      BY <2>3, <2>6, <3>1
    <3>3. Uint(0) = 0 /\ Ulong(0) = 0
      BY <1>3
    <3> QED
      BY <2>4, <2>5, <3>2, <3>3 DEF uki_usleep
  <2>7. CASE b > 0
    <3>1. y <= z
      BY <2>3, <2>7
    <3>2. Uint(y) = y
      BY <1>1, <1>3, <2>4, <3>1
    <3>3. Ulong(z) = z /\ Uint(z) = z
      BY <1>3, <2>4
    <3> QED
      BY <2>3, <2>4, <2>5, <3>2, <3>3 DEF uki_usleep
  <2> QED
    BY <2>1, <2>6, <2>7
<1>6. CASE f \in {"msleep", "msleep_interruptible"}
  <2>1. PICK b \in Nat : b = USEC_PER_MSEC
    BY DelayUnits
  <2>2. PICK z \in Nat : z = x * b
    BY <1>2
  <2>3. Wanted(f, x) = z /\ z < m
    BY <1>1, <1>6, <2>1, <2>2 DEF Wanted
  <2>4. Microseconds(f, x) = Ulong(z)
    BY <1>6, <2>1, <2>2 DEF Microseconds
  <2>5. Ulong(z) = z /\ Uint(z) = z
    BY <1>3, <2>3
  <2> QED
    BY <2>3, <2>4, <2>5 DEF uki_usleep
<1> QED
  BY <1>4, <1>5, <1>6 DEF DelayFunctions

\* msleep_interruptible's result is one to two ticks more than was asked for.
LEMMA InterruptibleResult ==
    ASSUME NEW x \in uint, NEW tick, tick = MSEC_PER_SEC \div HZ,
           x < 2^(IntBits - 1) - 2 * tick
    PROVE  LET r == SleepResult("msleep_interruptible", x)
           IN  x + tick <= r /\ r < x + 2 * tick
<1>1. PICK m \in Nat \ {0}, l \in Nat \ {0}, h \in Nat \ {0} :
          m = 2^IntBits /\ l = 2^LongBits /\ h = 2^(IntBits - 1) /\ m <= l /\ m = 2 * h
  BY DelayUnits
<1>2. tick \in Nat \ {0} /\ x \in Nat /\ x < h - 2 * tick
  BY <1>1, DelayUnits DEF uint
<1>3. PICK y \in Nat : y = x + tick - 1
  BY <1>2
<1>4. Ulong(y) = y
  <2>1. y < l
    BY <1>1, <1>2, <1>3
  <2> QED
    BY <1>1, <2>1, NotCut DEF Ulong
<1>5. PICK c \in Nat : c = y \div tick /\ x <= tick * c /\ tick * c < x + tick
  BY <1>2, <1>3, CeilBounds
<1>6. msecs_to_jiffies(x) = c
  <2>1. ~ (x >= 2^(IntBits - 1))
    BY <1>1, <1>2
  <2>2. RoundedMsecs(x) = Ulong(y) \div tick
    BY <1>3 DEF RoundedMsecs
  <2> QED
    BY <1>4, <1>5, <2>1, <2>2 DEF msecs_to_jiffies
<1>7. PICK z \in Nat : z = tick * (c + 1) /\ z = tick * c + tick
  BY <1>2, <1>5
<1>8. x + tick <= z /\ z < x + 2 * tick /\ z < m
  <2>1. tick * c \in Nat
    BY <1>2, <1>5
  <2> QED
    BY <1>1, <1>2, <1>5, <1>7, <2>1
<1>9. Uint(z) = z
  BY <1>1, <1>8, NotCut DEF Uint
<1>10. SleepResult("msleep_interruptible", x) = z
  BY <1>6, <1>7, <1>9 DEF SleepResult, jiffies_to_msecs
<1> QED
  BY <1>8, <1>10

\* A delay that fits into the argument of usleep is slept to its end unless a
\* signal comes, and msleep_interruptible returns more than it was given,
\* whatever the time slept (timer.c:784-801, delay.h), for words of every width.
THEOREM DelaysAsAsked == DelaySpec => []DelaysLast
<1>1. DelayInit => DelaysLast
  BY DEF DelayInit, Idle, DelaysLast, SleepsEnough, TellsNoRest, Called, DelayFunctions
<1>2. DelaysLast /\ [DelayNext]_call => DelaysLast'
  <2> SUFFICES ASSUME DelaysLast, [DelayNext]_call
               PROVE  DelaysLast'
    OBVIOUS
  <2>1. CASE Delay
    <3>1. PICK f \in DelayFunctions, x \in uint :
              LET whole == uki_usleep(Microseconds(f, x))
              IN  \E slept \in {whole} \cup (IF Signals THEN 0..whole ELSE {}) :
                     Call(f, <<x, slept, slept < whole>>, SleepResult(f, x))
      BY <2>1 DEF Delay
    <3>2. PICK whole : whole = uki_usleep(Microseconds(f, x))
      OBVIOUS
    <3>3. PICK slept \in {whole} \cup (IF Signals THEN 0..whole ELSE {}) :
              Call(f, <<x, slept, slept < whole>>, SleepResult(f, x))
      BY <3>1, <3>2
    <3>4. /\ call'.fn = f /\ call'.args[1] = x /\ call'.args[2] = slept
          /\ call'.args[3] = (slept < whole) /\ call'.result = SleepResult(f, x)
      BY <3>3 DEF Call
    <3>5. ASSUME Wanted(f, x) < 2^IntBits,
                 ~ (f = "ndelay" /\ x + NSEC_PER_USEC - 1 >= 2^LongBits),
                 ~ (slept < whole)
          PROVE  slept >= Wanted(f, x)
      <4>1. whole = Wanted(f, x) /\ whole \in Nat
        BY <3>2, <3>5, WholeDelay
      <4>2. slept = whole
        BY <3>5, <4>1
      <4> QED
        BY <4>1, <4>2
    <3>6. SleepsEnough'
      BY <3>4, <3>5 DEF SleepsEnough
    <3>7. TellsNoRest'
      <4>1. PICK tick : tick = MSEC_PER_SEC \div HZ
        OBVIOUS
      <4>2. ASSUME f = "msleep_interruptible", x < 2^(IntBits - 1) - 2 * tick
            PROVE  /\ x + tick <= SleepResult(f, x)
                   /\ SleepResult(f, x) < x + 2 * tick
        BY <4>1, <4>2, InterruptibleResult
      <4> QED
        BY <3>4, <4>1, <4>2 DEF TellsNoRest, Called
    <3> QED
      BY <3>6, <3>7 DEF DelaysLast
  <2>2. CASE Return
    BY <2>2 DEF Return, Idle, DelaysLast, SleepsEnough, TellsNoRest, Called,
                DelayFunctions
  <2>3. CASE UNCHANGED call
    BY <2>3 DEF DelaysLast, SleepsEnough, TellsNoRest, Called
  <2> QED
    BY <2>1, <2>2, <2>3 DEF DelayNext
<1> QED
  BY <1>1, <1>2, PTL DEF DelaySpec

-----------------------------------------------------------------------------
(***************************************************************************)
(* Division by parts.                                                      *)
(***************************************************************************)
\* Quotients of naturals are naturals, no greater than the dividend.
LEMMA DivNat ==
    ASSUME NEW m \in Nat \ {0}, NEW x \in Nat
    PROVE  /\ x \div m \in Nat /\ x % m \in 0 .. m - 1
           /\ x = (x \div m) * m + (x % m) /\ x \div m <= x
<1>1. PICK q \in Int, r \in 0 .. m - 1 : q = x \div m /\ r = x % m /\ x = q * m + r
  BY DivModExist
<1>2. q >= 0
  <2>1. q <= -1 => q * m <= -m
    BY <1>1
  <2> QED
    BY <1>1, <2>1
<1>3. q <= q * m
  BY <1>2
<1> QED
  BY <1>1, <1>2, <1>3

\* Multiples of the divisor come out of the division.
LEMMA DivOfSum ==
    ASSUME NEW m \in Nat \ {0}, NEW h \in Int, NEW x \in Int
    PROVE  (h * m + x) \div m = h + (x \div m) /\ (h * m + x) % m = x % m
<1>1. PICK q \in Int, r \in 0 .. m - 1 : q = x \div m /\ r = x % m /\ x = q * m + r
  BY DivModExist
<1>2. h * m + x = (h + q) * m + r
  <2>1. (h + q) * m = h * m + q * m
    BY <1>1
  <2> QED
    BY <1>1, <2>1
<1>3. ((h + q) * m + r) \div m = h + q /\ ((h + q) * m + r) % m = r
  <2>1. h + q \in Int
    BY <1>1
  <2> QED
    BY <2>1, DivModUnique
<1> QED
  BY <1>1, <1>2, <1>3

\* Dividing twice is dividing by the product.
LEMMA DivOfDiv ==
    ASSUME NEW m \in Nat \ {0}, NEW k \in Nat \ {0}, NEW x \in Int
    PROVE  (x \div m) \div k = x \div (m * k)
<1>1. PICK q \in Int, r \in 0 .. m - 1 : q = x \div m /\ x = q * m + r
  BY DivModExist
<1>2. PICK p \in Int, t \in 0 .. k - 1 : p = q \div k /\ q = p * k + t
  BY DivModExist
<1>3. PICK n \in Nat \ {0} : n = m * k
  OBVIOUS
<1>4. x = p * n + (t * m + r)
  <2>1. q * m = (p * k) * m + t * m
    BY <1>2
  <2>2. (p * k) * m = p * n
    BY <1>2, <1>3
  <2> QED
    BY <1>1, <2>1, <2>2
<1>5. t * m + r \in 0 .. n - 1
  <2>1. (k - 1 - t) * m >= 0 /\ t * m >= 0 /\ t * m \in Int
    BY <1>2
  <2>2. (k - 1 - t) * m = k * m - m - t * m
    BY <1>2
  <2>3. k * m = n
    BY <1>3
  <2> QED
    BY <1>1, <1>3, <2>1, <2>2, <2>3
<1>6. PICK u \in 0 .. n - 1 : u = t * m + r
  BY <1>5
<1>7. (p * n + u) \div n = p
  BY DivModUnique
<1> QED
  BY <1>1, <1>2, <1>3, <1>4, <1>6, <1>7

\* A factor comes out of the remainder.
LEMMA ModOfProduct ==
    ASSUME NEW p \in Nat \ {0}, NEW s \in Nat \ {0}, NEW h \in Nat
    PROVE  (h * p) % (p * s) = p * (h % s)
<1>1. PICK q \in Nat, r \in 0 .. s - 1 : r = h % s /\ h = q * s + r
  BY DivNat
<1>2. PICK n \in Nat \ {0} : n = p * s
  OBVIOUS
<1>3. h * p = q * n + p * r
  <2>1. h * p = (q * s) * p + r * p
    BY <1>1
  <2>2. (q * s) * p = q * n /\ r * p = p * r
    BY <1>1, <1>2
  <2> QED
    BY <2>1, <2>2
<1>4. p * r \in 0 .. n - 1
  <2>1. p * (s - 1 - r) >= 0 /\ p * r >= 0 /\ p * r \in Int
    BY <1>1
  <2>2. p * (s - 1 - r) = p * s - p - p * r
    BY <1>1
  <2> QED
    BY <1>1, <1>2, <2>1, <2>2
<1>5. PICK u \in 0 .. n - 1 : u = p * r
  BY <1>4
<1>6. (q * n + u) % n = u
  BY DivModUnique
<1> QED
  BY <1>1, <1>2, <1>3, <1>5, <1>6

\* Less than a multiple of the divisor, the quotient is less than the factor.
LEMMA DivBelow ==
    ASSUME NEW m \in Nat \ {0}, NEW k \in Nat, NEW x \in Nat, x < k * m
    PROVE  x \div m < k
<1>1. PICK q \in Nat, r \in 0 .. m - 1 : q = x \div m /\ x = q * m + r
  BY DivNat
<1>2. q >= k => q * m >= k * m
  BY <1>1
<1>3. k * m \in Int /\ q * m \in Int
  BY <1>1
<1> QED
  BY <1>1, <1>2, <1>3

-----------------------------------------------------------------------------
(***************************************************************************)
(* Words and double words.                                                 *)
(***************************************************************************)
\* A word has at least four values, and an even number of them.
LEMMA WordSizes ==
    /\ Half \in Nat /\ 4 <= Half /\ Full \in Nat \ {0} /\ Full = Half * Half
    /\ 4 * Half <= Full
    /\ Half \div 2 \in Nat \ {0} /\ Half = 2 * (Half \div 2)
    /\ Full \div 2 \in Nat \ {0} /\ Full = 2 * (Full \div 2)
    /\ Half <= Full \div 2
<1>1. W \in Nat /\ 2 <= W /\ W - 1 \in Nat
  BY WidthAssumption
<1>2. PICK k \in Nat \ {0} : k = 2^(W - 1) /\ 2^W = 2 * k
  BY <1>1, SignHalves
<1>3. Half = 2 * k
  BY <1>2 DEF Half
<1>4. 2 <= k
  <2>1. 1 \in Nat /\ 1 <= W - 1
    BY <1>1
  <2>2. 2^1 <= 2^(W - 1)
    BY <1>1, <2>1, PowerDivides
  <2>3. 2^1 = 2
    OBVIOUS
  <2> QED
    BY <1>2, <2>2, <2>3
<1>5. PICK h \in Nat : h = Half /\ h = 2 * k /\ 4 <= h
  BY <1>3, <1>4
<1>6. PICK f \in Nat : f = h * h /\ f = 2 * (k * h)
  BY <1>5
<1>7. Full = f
  BY <1>5, <1>6 DEF Full
<1>8. 4 * h <= f /\ k * h \in Nat /\ 2 * h <= k * h
  BY <1>4, <1>5, <1>6
<1>9. Half \div 2 = k
  BY <1>5
<1>10. Full \div 2 = k * h
  BY <1>6, <1>7, <1>8
<1> QED
  BY <1>2, <1>5, <1>6, <1>7, <1>8, <1>9, <1>10

\* The two words of a number, and the word of a number that is one.
LEMMA TwoWords ==
    ASSUME NEW x \in Nat
    PROVE  /\ High(x) \in Nat /\ Low(x) \in u32 /\ Low(x) \in Nat /\ Low(x) < Half
           /\ x = High(x) * Half + Low(x)
           /\ x < Half => Low(x) = x /\ High(x) = 0
           /\ x < Full => U64(x) = x /\ High(x) \in u32 /\ High(x) < Half
<1>1. PICK h \in Nat \ {0} : h = Half
  BY WordSizes
<1>2. PICK q \in Nat, r \in 0 .. h - 1 : q = x \div h /\ r = x % h /\ x = q * h + r
  BY DivNat
<1>3. High(x) = q /\ Low(x) = r
  BY <1>1, <1>2 DEF High, Low
<1>4. x < h => x % h = x
  BY NotCut
<1>5. x < h => q = 0
  <2>1. q >= 1 => q * h >= h
    BY <1>2
  <2> QED
    BY <1>2, <2>1
<1>6. PICK f \in Nat \ {0} : f = Full /\ f = h * h
  BY <1>1, WordSizes
<1>7. x < f => x % f = x
  BY NotCut
<1>8. x < f => q < h
  BY <1>2, <1>6, DivBelow
<1> QED
  BY <1>1, <1>2, <1>3, <1>4, <1>5, <1>6, <1>7, <1>8 DEF u32, U64

\* Numbers of at most two words.
LEMMA WordTypes ==
    /\ \A x \in u32 : x \in Nat /\ x < Half /\ x < Full
    /\ \A x \in u64 : x \in Nat /\ x < Full
    /\ \A x \in Nat : (x < Half <=> x \in u32) /\ (x < Full <=> x \in u64)
    /\ \A x \in s32 : x \in Int /\ -(Half \div 2) <= x /\ x < Half \div 2
    /\ \A x \in s64 : x \in Int /\ -(Full \div 2) <= x /\ x < Full \div 2
<1>1. Half \in Nat /\ Full \in Nat /\ Half <= Full
  BY WordSizes
<1>2. PICK a \in Nat, b \in Nat : a = Half \div 2 /\ b = Full \div 2
  BY WordSizes
<1> QED
  BY <1>1, <1>2 DEF u32, u64, s32, s64

\* The high word h is divided by y first, and then x: the remainder of that
\* and the low word l.
FirstStep(h, l, y, high, upper, x) ==
    h = high * y + upper /\ x = upper * Half + l /\ l < Half

SecondStep(h, l, y, high, x) ==
    /\ x \in Nat /\ x < y * Half
    /\ x \div y \in Nat /\ x \div y < Half /\ x % y \in 0 .. y - 1
    /\ (h * Half + l) \div y = high * Half + (x \div y)
    /\ (h * Half + l) % y = x % y

\* The second quotient is a word and the two make up the whole.
LEMMA LongDivision ==
    ASSUME NEW h \in Nat, NEW l \in Nat, NEW y \in Nat \ {0},
           NEW high \in Nat, NEW upper \in 0 .. y - 1, NEW x,
           FirstStep(h, l, y, high, upper, x)
    PROVE  SecondStep(h, l, y, high, x)
<1>1. PICK n \in Nat \ {0} : n = Half
  BY WordSizes
<1>2. x \in Nat /\ x = upper * n + l /\ l < n /\ h = high * y + upper
  BY <1>1 DEF FirstStep
<1>3. x < y * n
  <2>1. (y - 1 - upper) * n >= 0 /\ upper * n \in Int /\ y * n \in Int
    OBVIOUS
  <2>2. (y - 1 - upper) * n = y * n - n - upper * n
    OBVIOUS
  <2> QED
    BY <1>1, <1>2, <2>1, <2>2
<1>4. x < n * y
  BY <1>3
<1>5. x \div y < n
  BY <1>2, <1>4, DivBelow
<1>6. x \div y \in Nat /\ x % y \in 0 .. y - 1
  BY <1>2, DivNat
<1>7. PICK m \in Nat : m = high * n
  OBVIOUS
<1>8. h * n + l = m * y + x
  <2>1. h * n = (high * y) * n + upper * n
    BY <1>2
  <2>2. (high * y) * n = m * y
    BY <1>7
  <2> QED
    BY <1>2, <2>1, <2>2
<1>9. (m * y + x) \div y = m + (x \div y) /\ (m * y + x) % y = x % y
  BY <1>2, DivOfSum
<1> QED
  BY <1>1, <1>2, <1>3, <1>5, <1>6, <1>7, <1>8, <1>9 DEF SecondStep

\* The remainder of the high word, or the whole of it, as div_u64_rem does.
LEMMA DividesByWord ==
    ASSUME NEW x \in Nat, x < Full, NEW y \in Nat \ {0}, y < Half
    PROVE  /\ div_u64_rem(x, y) = QuotRem(x \div y, x % y)
           /\ do_div(x, y) = QuotRem(x \div y, x % y)
           /\ do_div_const(x, y) = QuotRem(x \div y, x % y)
<1>1. PICK h \in Nat, l \in Nat :
          h = High(x) /\ l = Low(x) /\ l < Half /\ x = h * Half + l
  BY TwoWords
<1>2. PICK q \in Nat, r \in 0 .. y - 1 : q = h \div y /\ r = h % y /\ h = q * y + r
  BY DivNat
<1>3. ASSUME NEW high \in Nat, NEW upper \in 0 .. y - 1, h = high * y + upper
      PROVE  QuotRem(high * Half + Divl(upper, l, y).quot, Divl(upper, l, y).rem)
                = QuotRem(x \div y, x % y)
  <2>1. PICK z : z = upper * Half + l
    OBVIOUS
  <2>2. FirstStep(h, l, y, high, upper, z)
    BY <1>1, <1>3, <2>1 DEF FirstStep
  <2>3. SecondStep(h, l, y, high, z)
    BY <2>2, LongDivision
  <2>4. /\ z \div y < Half
        /\ x \div y = high * Half + (z \div y) /\ x % y = z % y
    BY <1>1, <2>3 DEF SecondStep
  <2>5. Divl(upper, l, y) = QuotRem(z \div y, z % y)
    BY <2>1, <2>4 DEF Divl
  <2> QED
    BY <2>4, <2>5 DEF QuotRem
<1>4. h < y => h = 0 * y + h /\ h \in 0 .. y - 1
  OBVIOUS
<1>5. div_u64_rem(x, y) = QuotRem(x \div y, x % y)
  <2>1. CASE h >= y
    <3>1. div_u64_rem(x, y) =
              QuotRem(q * Half + Divl(r, l, y).quot, Divl(r, l, y).rem)
      BY <1>1, <1>2, <2>1 DEF div_u64_rem
    <3> QED
      BY <1>2, <1>3, <3>1
  <2>2. CASE h < y
    <3>1. div_u64_rem(x, y) =
              QuotRem(0 * Half + Divl(h, l, y).quot, Divl(h, l, y).rem)
      BY <1>1, <2>2 DEF div_u64_rem
    <3> QED
      BY <1>3, <1>4, <2>2, <3>1
  <2> QED
    BY <2>1, <2>2
<1>6. do_div(x, y) = QuotRem(x \div y, x % y)
  <2>1. CASE h # 0
    <3>1. do_div(x, y) = QuotRem(q * Half + Divl(r, l, y).quot, Divl(r, l, y).rem)
      BY <1>1, <1>2, <2>1 DEF do_div
    <3> QED
      BY <1>2, <1>3, <3>1
  <2>2. CASE h = 0
    <3>1. do_div(x, y) = QuotRem(0 * Half + Divl(0, l, y).quot, Divl(0, l, y).rem)
      BY <1>1, <2>2 DEF do_div
    <3>2. h = 0 * y + 0 /\ 0 \in 0 .. y - 1
      BY <2>2
    <3> QED
      BY <1>3, <3>1, <3>2
  <2> QED
    BY <2>1, <2>2
<1> QED
  BY <1>5, <1>6 DEF do_div_const

-----------------------------------------------------------------------------
(***************************************************************************)
(* Signed division.                                                        *)
(***************************************************************************)
\* A number that is a signed word is read as itself, and numbers that are the
\* same modulo the range are read as one.
LEMMA SignedWords ==
    /\ \A x \in s64 : S64(x) = x
    /\ \A x \in Int : S64(U64(x)) = S64(x)
    /\ \A x \in s32 : S32(x) = x
<1>1. PICK h \in Nat \ {0} : h = Half \div 2 /\ Half = 2 * h
  BY WordSizes
<1>2. PICK f \in Nat \ {0} : f = Full \div 2 /\ Full = 2 * f
  BY WordSizes
<1>3. ASSUME NEW x \in s64
      PROVE  S64(x) = x
  <2>1. x \in Int /\ -f <= x /\ x < f
    BY <1>2, WordTypes
  <2>2. PICK y \in Nat, m \in Nat \ {0} : y = x + f /\ m = 2 * f /\ y < m
    BY <2>1
  <2>3. y % m = y
    BY <2>2, NotCut
  <2> QED
    BY <1>2, <2>1, <2>2, <2>3 DEF S64
<1>4. ASSUME NEW x \in s32
      PROVE  S32(x) = x
  <2>1. x \in Int /\ -h <= x /\ x < h
    BY <1>1, WordTypes
  <2>2. PICK y \in Nat, m \in Nat \ {0} : y = x + h /\ m = 2 * h /\ y < m
    BY <2>1
  <2>3. y % m = y
    BY <2>2, NotCut
  <2> QED
    BY <1>1, <2>1, <2>2, <2>3 DEF S32
<1>5. ASSUME NEW x \in Int
      PROVE  S64(U64(x)) = S64(x)
  <2>1. PICK m \in Nat \ {0} : m = Full
    BY WordSizes
  <2>2. PICK y \in Int : y = x % m
    BY DivModExist
  <2>3. Same(y, x, m)
    BY <2>2, SameAsReduced
  <2>4. PICK e \in Int : e = -f
    OBVIOUS
  <2>5. Same(e, e, m)
    BY DEF Same
  <2>6. Same(y - e, x - e, m)
    BY <2>3, <2>5, DifferenceModulo
  <2>7. (y + f) % m = (x + f) % m
    <3>1. y - e = y + f /\ x - e = x + f
      BY <2>4
    <3> QED
      BY <2>6, <3>1 DEF Same
  <2> QED
    BY <1>2, <2>1, <2>2, <2>7 DEF S64, U64
<1> QED
  BY <1>3, <1>4, <1>5

\* Magnitudes of signed words are words.
LEMMA Magnitudes ==
    /\ \A x \in s64 : abs(x) \in Nat /\ abs(x) < Full /\ U64(abs(x)) = abs(x)
    /\ \A y \in s32 \ {0} : /\ abs(y) \in Nat \ {0} /\ abs(y) < Half
                            /\ abs(y) <= Half \div 2 /\ Low(abs(y)) = abs(y)
<1>1. PICK h \in Nat \ {0} : h = Half \div 2 /\ Half = 2 * h
  BY WordSizes
<1>2. PICK f \in Nat \ {0} : f = Full \div 2 /\ Full = 2 * f
  BY WordSizes
<1>3. ASSUME NEW x \in s64
      PROVE  abs(x) \in Nat /\ abs(x) < Full
  <2>1. x \in Int /\ -f <= x /\ x < f
    BY <1>2, WordTypes
  <2> QED
    BY <1>2, <2>1 DEF abs
<1>4. ASSUME NEW y \in s32 \ {0}
      PROVE  abs(y) \in Nat \ {0} /\ abs(y) < Half /\ abs(y) <= Half \div 2
  <2>1. y \in Int /\ y # 0 /\ -h <= y /\ y < h
    BY <1>1, WordTypes
  <2> QED
    BY <1>1, <2>1 DEF abs
<1> QED
  BY <1>3, <1>4, TwoWords

\* div_s64_rem divides the magnitudes and puts the signs back.
LEMMA DividesSigned ==
    ASSUME NEW x \in s64, NEW y \in s32 \ {0}
    PROVE  div_s64_rem(x, y) = QuotRem(S64(Quotient(x, y)), x - y * Quotient(x, y))
<1>1. PICK a \in Nat, b \in Nat \ {0} :
          a = abs(x) /\ b = abs(y) /\ a < Full /\ b < Half /\ b <= Half \div 2
          /\ U64(a) = a /\ Low(b) = b
  BY Magnitudes
<1>2. PICK q \in Nat, r \in 0 .. b - 1 : q = a \div b /\ r = a % b /\ a = q * b + r
  BY DivNat
<1>3. div_u64_rem(a, b) = QuotRem(q, r)
  BY <1>1, <1>2, DividesByWord
<1>4. x \in Int /\ y \in Int
  BY WordTypes
<1>5. Quotient(x, y) = IF (x < 0) # (y < 0) THEN -q ELSE q
  BY <1>1, <1>2 DEF Quotient
<1>6. S32(r) = r /\ S32(-r) = -r
  <2>1. r \in s32 /\ -r \in s32
    <3>1. PICK h \in Nat \ {0} : h = Half \div 2
      BY WordSizes
    <3>2. r \in Int /\ 0 <= r /\ r <= h - 1
      BY <1>1, <1>2, <3>1
    <3>3. s32 = (-h) .. (h - 1)
      BY <3>1 DEF s32
    <3>4. r \in (-h) .. (h - 1)
      BY <3>2
    <3>5. -r \in (-h) .. (h - 1)
      BY <3>2
    <3> QED
      BY <3>3, <3>4, <3>5
  <2> QED
    BY <2>1, SignedWords
<1>7. div_s64_rem(x, y) =
          QuotRem(S64(IF (x < 0) # (y < 0) THEN U64(-q) ELSE q),
                  S32(IF x < 0 THEN -S32(r) ELSE r))
  BY <1>1, <1>3 DEF div_s64_rem, QuotRem
<1>8. S64(IF (x < 0) # (y < 0) THEN U64(-q) ELSE q) = S64(Quotient(x, y))
  <2>1. S64(U64(-q)) = S64(-q)
    BY <1>2, SignedWords
  <2> QED
    BY <1>5, <2>1
<1>9. S32(IF x < 0 THEN -S32(r) ELSE r) = IF x < 0 THEN -r ELSE r
  BY <1>6
<1>10. x - y * Quotient(x, y) = IF x < 0 THEN -r ELSE r
  <2>1. PICK p \in Int : p = q * b /\ a = p + r
    BY <1>2
  <2>2. CASE x < 0 /\ y < 0
    <3>1. y = -b /\ x = -a /\ Quotient(x, y) = q
      BY <1>1, <1>4, <1>5, <2>2 DEF abs
    <3>2. y * q = -p
      BY <2>1, <3>1
    <3> QED
      BY <1>2, <2>1, <2>2, <3>1, <3>2
  <2>3. CASE x < 0 /\ ~ (y < 0)
    <3>1. y = b /\ x = -a /\ Quotient(x, y) = -q
      BY <1>1, <1>4, <1>5, <2>3 DEF abs
    <3>2. y * (-q) = -p
      BY <2>1, <3>1
    <3> QED
      BY <1>2, <2>1, <2>3, <3>1, <3>2
  <2>4. CASE ~ (x < 0) /\ y < 0
    <3>1. y = -b /\ x = a /\ Quotient(x, y) = -q
      BY <1>1, <1>4, <1>5, <2>4 DEF abs
    <3>2. y * (-q) = p
      BY <2>1, <3>1
    <3> QED
      BY <1>2, <2>1, <2>4, <3>1, <3>2
  <2>5. CASE ~ (x < 0) /\ ~ (y < 0)
    <3>1. y = b /\ x = a /\ Quotient(x, y) = q
      BY <1>1, <1>4, <1>5, <2>5 DEF abs
    <3>2. y * q = p
      BY <2>1, <3>1
    <3>3. ~ (x < 0) /\ y * q \in Int
      BY <2>1, <2>5, <3>2
    <3>4. x - y * q = r
      BY <1>2, <2>1, <3>1, <3>2
    <3> QED
      BY <3>1, <3>3, <3>4
  <2> QED
    BY <2>2, <2>3, <2>4, <2>5
<1> QED
  BY <1>7, <1>8, <1>9, <1>10

-----------------------------------------------------------------------------
(***************************************************************************)
(* Division of double words by double words.                               *)
(***************************************************************************)
\* The last bit of a word: the power of two below it is the last one that is
\* not above.
LEMMA LastBit ==
    ASSUME NEW x \in Nat \ {0}, x < Half
    PROVE  /\ last_bit(x) \in 1 .. W
           /\ 2^(last_bit(x) - 1) <= x /\ x < 2^last_bit(x)
<1>1. W \in Nat /\ Half = 2^W
  BY WidthAssumption DEF Half
<1>2. PICK T \in SUBSET Nat : T = {k \in Nat : x < 2^k}
  OBVIOUS
<1>3. W \in T
  BY <1>1, <1>2
<1>4. PICK k \in T : \A n \in T : k <= n
  BY <1>3, LeastNatural
<1>5. 2^0 = 1
  OBVIOUS
<1>6. k \in Nat /\ k # 0 /\ k <= W /\ x < 2^k
  <2>1. k \in Nat /\ x < 2^k
    BY <1>2
  <2>2. k <= W
    BY <1>3, <1>4
  <2>3. k = 0 => x < 1
    BY <1>5, <2>1
  <2> QED
    BY <2>1, <2>2, <2>3
<1>7. k - 1 \in Nat /\ ~ (k <= k - 1)
  BY <1>6
<1>8. ~ (x < 2^(k - 1))
  BY <1>2, <1>4, <1>7
<1>9. 2^(k - 1) \in Nat
  BY <1>7, PowerType
<1>10. 2^(k - 1) <= x
  BY <1>8, <1>9
<1>11. k \in 1 .. W
  BY <1>1, <1>6
<1>12. \E n \in 1 .. W : 2^(n - 1) <= x /\ x < 2^n
  BY <1>6, <1>10, <1>11
<1>13. x # 0
  OBVIOUS
<1> QED
  BY <1>12, <1>13, Zenon DEF last_bit

\* A number of times that the divisor fits is at most the quotient.
LEMMA DivAtLeast ==
    ASSUME NEW m \in Nat \ {0}, NEW x \in Nat, NEW q \in Nat, q * m <= x
    PROVE  q <= x \div m
<1>1. PICK p \in Nat, r \in 0 .. m - 1 : p = x \div m /\ x = p * m + r
  BY DivNat
<1>2. p + 1 <= q => (p + 1) * m <= q * m
  BY <1>1
<1>3. (p + 1) * m = p * m + m /\ p * m \in Int /\ q * m \in Int
  BY <1>1
<1> QED
  BY <1>1, <1>2, <1>3

\* Without their last digits, dividend and divisor have no smaller quotient.
LEMMA Estimated ==
    ASSUME NEW x \in Nat, NEW y \in Nat \ {0}, NEW p \in Nat \ {0}, 1 <= y \div p
    PROVE  /\ x \div y <= (x \div p) \div (y \div p)
           /\ y % p = 0 => x \div y = (x \div p) \div (y \div p)
<1>1. PICK q \in Nat, r \in 0 .. y - 1 : q = x \div y /\ x = q * y + r
  BY DivNat
<1>2. PICK b \in Nat \ {0}, t \in 0 .. p - 1 : b = y \div p /\ t = y % p /\ y = b * p + t
  BY DivNat
<1>3. PICK a \in Nat : a = x \div p
  BY DivNat
<1>4. q * b <= a
  <2>1. PICK c \in Nat : c = q * b
    BY <1>1, <1>2
  <2>2. q * y = q * (b * p) + q * t /\ q * t >= 0 /\ q * t \in Int
    BY <1>1, <1>2
  <2>3. q * (b * p) = c * p /\ c * p \in Int
    <3>1. q * (b * p) = (q * b) * p
      OBVIOUS
    <3> QED
      BY <2>1, <3>1
  <2>4. c * p <= x
    BY <1>1, <2>2, <2>3
  <2> QED
    BY <1>3, <2>1, <2>4, DivAtLeast
<1>5. q <= a \div b
  BY <1>1, <1>2, <1>3, <1>4, DivAtLeast
<1>6. ASSUME t = 0
      PROVE  x \div y = a \div b
  <2>1. y = p * b
    BY <1>2, <1>6
  <2>2. (x \div p) \div b = x \div (p * b)
    <3>1. x \in Int
      OBVIOUS
    <3> QED
      BY <3>1, DivOfDiv, Zenon
  <2> QED
    BY <1>3, <2>1, <2>2
<1> QED
  BY <1>1, <1>2, <1>3, <1>5, <1>6

\* The last step of div64_u64, from the estimate e of the quotient.
Correction(x, y, e, result) ==
    LET quot == IF e # 0 THEN e - 1 ELSE 0
    IN  result = IF U64(x - quot * y) >= y THEN quot + 1 ELSE quot

\* An estimate that is not too small is corrected if it is right, and does not
\* become too small if it is not.
LEMMA Corrected ==
    ASSUME NEW x \in Nat, x < Full, NEW y \in Nat \ {0}, NEW e \in Nat,
           x \div y <= e, NEW result, Correction(x, y, e, result)
    PROVE  result >= x \div y /\ (e = x \div y => result = x \div y)
<1>1. PICK q \in Nat, r \in 0 .. y - 1 : q = x \div y /\ x = q * y + r
  BY DivNat
<1>2. PICK quot \in Nat : quot = IF e # 0 THEN e - 1 ELSE 0
  OBVIOUS
<1>3. result = IF U64(x - quot * y) >= y THEN quot + 1 ELSE quot
  BY <1>2 DEF Correction
<1>4. CASE e # q
  <2>1. quot >= q
    BY <1>1, <1>2, <1>4
  <2> QED
    BY <1>1, <1>2, <1>3, <1>4, <2>1
<1>5. CASE e = q /\ q = 0
  <2>1. quot = 0 /\ x - quot * y = x /\ x < y
    BY <1>1, <1>2, <1>5
  <2>2. U64(x) = x
    BY TwoWords
  <2> QED
    BY <1>1, <1>3, <1>5, <2>1, <2>2
<1>6. CASE e = q /\ q # 0
  <2>1. quot = q - 1
    BY <1>1, <1>2, <1>6
  <2>2. (q - 1) * y = q * y - y /\ q * y \in Int
    BY <1>1
  <2>3. (q - 1) * y >= 0
    BY <1>1, <1>6
  <2>4. PICK z \in Nat : z = x - quot * y /\ y <= z /\ z < Full
    <3>1. PICK f \in Nat : f = Full
      BY WordSizes
    <3>2. x - quot * y = r + y
      BY <1>1, <2>1, <2>2
    <3>3. r + y <= x
      BY <1>1, <2>2, <2>3
    <3>4. r + y \in Nat
      BY <1>1
    <3>5. x < f
      BY <3>1
    <3>6. r + y < f /\ y <= r + y
      BY <1>1, <3>1, <3>3, <3>4, <3>5
    <3> QED
      BY <3>1, <3>2, <3>4, <3>6
  <2>5. U64(z) = z
    BY <2>4, TwoWords
  <2> QED
    BY <1>1, <1>3, <1>6, <2>1, <2>4, <2>5
<1> QED
  BY <1>4, <1>5, <1>6

\* The divisor keeps its first bits, less than a word of them, and a one.
LEMMA Shortened ==
    ASSUME NEW y \in Nat, y < Full, High(y) # 0
    PROVE  /\ 2^(1 + last_bit(High(y))) \in Nat \ {0}
           /\ 1 <= y \div 2^(1 + last_bit(High(y)))
           /\ y \div 2^(1 + last_bit(High(y))) < Half
           /\ y \div 2^(1 + last_bit(High(y))) \in Nat
<1>1. PICK h \in Nat \ {0}, l \in Nat : h = High(y) /\ h < Half /\ l < Half /\ y = h * Half + l
  BY TwoWords
<1>2. PICK k \in 1 .. W : k = last_bit(h) /\ 2^(k - 1) <= h /\ h < 2^k
  BY <1>1, LastBit
<1>3. W \in Nat /\ 2 <= W /\ Half = 2^W
  BY WidthAssumption DEF Half
<1>4. k \in Nat /\ k - 1 \in Nat /\ W - 1 \in Nat /\ W - 2 \in Nat
  BY <1>2, <1>3
<1>5. PICK a \in Nat \ {0}, g \in Nat \ {0} : a = 2^(k - 1) /\ g = 2^(W - 2)
  BY <1>4, PowerType
<1>6. 2^k = 2 * a /\ 2^(1 + k) = 4 * a
  <2>1. (k - 1) + 1 = k /\ k + 1 = 1 + k
    BY <1>4
  <2>2. 2^((k - 1) + 1) = 2 * 2^(k - 1) /\ 2^(k + 1) = 2 * 2^k
    BY <1>4, PowerNext
  <2> QED
    BY <1>5, <2>1, <2>2
<1>7. Half = 4 * g
  <2>1. (W - 2) + 1 = W - 1 /\ (W - 1) + 1 = W
    BY <1>3
  <2>2. 2^((W - 2) + 1) = 2 * 2^(W - 2) /\ 2^((W - 1) + 1) = 2 * 2^(W - 1)
    BY <1>4, PowerNext
  <2> QED
    BY <1>3, <1>5, <2>1, <2>2
<1>8. PICK p \in Nat \ {0}, f \in Nat : p = 4 * a /\ f = 4 * g
  BY <1>5
<1>9. 1 * p <= y
  <2>1. a <= h
    BY <1>2, <1>5
  <2>2. 1 <= g /\ a * g >= a
    BY <1>5
  <2>3. h * f >= a * f /\ a * f = 4 * (a * g) /\ h * f \in Int /\ a * g \in Int
    BY <1>5, <1>8, <2>1
  <2>4. y = h * f + l
    BY <1>1, <1>7, <1>8
  <2> QED
    BY <1>1, <1>8, <2>2, <2>3, <2>4
<1>10. 1 <= y \div p
  BY <1>8, <1>9, DivAtLeast
<1>11. y < (2 * g) * p
  <2>1. h < 2 * a
    BY <1>2, <1>6
  <2>2. h + 1 <= 2 * a
    BY <1>5, <2>1
  <2>3. (h + 1) * f <= (2 * a) * f /\ (h + 1) * f = h * f + f
    BY <1>8, <2>2
  <2>4. (2 * a) * f = (2 * g) * p
    BY <1>5, <1>8
  <2>5. y = h * f + l /\ l < f
    BY <1>1, <1>7, <1>8
  <2>6. h * f \in Int /\ (2 * a) * f \in Int
    BY <1>5, <1>8
  <2> QED
    BY <1>1, <1>8, <2>3, <2>4, <2>5, <2>6
<1>12. y \div p < 2 * g
  <2>1. PICK n \in Nat : n = 2 * g
    BY <1>5
  <2> QED
    BY <1>8, <1>11, <2>1, DivBelow
<1>13. y \div p \in Nat
  BY <1>8, DivNat
<1>14. y \div p < Half
  BY <1>5, <1>7, <1>12, <1>13
<1>15. p = 2^(1 + last_bit(High(y)))
  BY <1>1, <1>2, <1>6, <1>8
<1> QED
  BY <1>8, <1>10, <1>13, <1>14, <1>15

\* What is left of div64_u64 of a comment that says more.
LEMMA DividesByDouble ==
    ASSUME NEW x \in Nat, x < Full, NEW y \in Nat \ {0}, y < Full
    PROVE  /\ div64_u64(x, y) >= x \div y
           /\ \/ High(y) = 0
              \/ y % 2^(1 + last_bit(High(y))) = 0
              => div64_u64(x, y) = x \div y
<1>1. CASE High(y) = 0
  <2>1. High(y) \in Nat /\ Low(y) \in Nat /\ Low(y) < Half /\ y = High(y) * Half + Low(y)
    BY TwoWords
  <2>2. Half \in Nat
    BY WordSizes
  <2>3. Low(y) = y
    BY <1>1, <2>1, <2>2
  <2>4. div64_u64(x, y) = div_u64(x, y)
    BY <1>1, <2>3 DEF div64_u64
  <2>5. div_u64_rem(x, y) = QuotRem(x \div y, x % y)
    BY <2>1, <2>3, DividesByWord
  <2>6. div64_u64(x, y) = x \div y
    BY <2>4, <2>5 DEF div_u64, QuotRem
  <2>7. x \div y \in Nat
    BY DivNat
  <2> QED
    BY <2>6, <2>7
<1>2. CASE High(y) # 0
  <2>1. PICK p \in Nat \ {0}, b \in Nat \ {0} :
            p = 2^(1 + last_bit(High(y))) /\ b = y \div p /\ b < Half /\ 1 <= b
    BY <1>2, Shortened
  <2>2. PICK a \in Nat : a = x \div p /\ a <= x
    BY DivNat
  <2>3. a < Full
    BY <2>2, WordSizes
  <2>4. Low(b) = b
    BY <2>1, TwoWords
  <2>5. PICK e \in Nat : e = a \div b
    BY DivNat
  <2>6. div_u64(a, b) = e
    BY <2>1, <2>3, <2>5, DividesByWord DEF div_u64, QuotRem
  <2>7. x \div y <= e /\ (y % p = 0 => x \div y = e)
    <3>1. 1 <= y \div p
      BY <2>1
    <3>2. /\ x \div y <= (x \div p) \div (y \div p)
          /\ y % p = 0 => x \div y = (x \div p) \div (y \div p)
      BY <3>1, Estimated
    <3>3. (x \div p) \div (y \div p) = e
      BY <2>1, <2>2, <2>5
    <3> QED
      BY <3>2, <3>3
  <2>8. Correction(x, y, e, div64_u64(x, y))
    BY <1>2, <2>1, <2>2, <2>4, <2>6 DEF div64_u64, Correction
  <2>9. div64_u64(x, y) >= x \div y /\ (e = x \div y => div64_u64(x, y) = x \div y)
    BY <2>7, <2>8, Corrected
  <2> QED
    BY <1>2, <2>1, <2>7, <2>9
<1> QED
  BY <1>1, <1>2

-----------------------------------------------------------------------------
\* The multiplications are other calls.
LEMMA MulShrElsewhere ==
    ASSUME MulShr
    PROVE  call'.fn = "mul_shr"
<1>1. PICK x, y, z, result : MathCall("mul_shr", x, y, z, result)
  BY Zenon DEF MulShr
<1> QED
  BY <1>1 DEF MathCall

\* And so is the one that divides.
LEMMA MulDivElsewhere ==
    ASSUME MulDiv
    PROVE  call'.fn = "mul_div"
<1>1. PICK x, y, z, result : MathCall("mul_div", x, y, z, result)
  BY Zenon DEF MulDiv
<1> QED
  BY <1>1 DEF MathCall

\* The divisions by a word.
LEMMA DivUStep == ASSUME DivU PROVE Divides'
<1>1. PICK x \in u64, y \in u32 \ {0} :
          \/ MathCall("div_u64_rem", x, y, 0, div_u64_rem(x, y))
          \/ MathCall("do_div", x, y, 0, do_div(x, y))
          \/ MathCall("do_div", x, y, 0, do_div_const(x, y))
  BY DEF DivU
<1>2. x \in Nat /\ x < Full /\ y \in Nat \ {0} /\ y < Half
  BY WordTypes
<1>3. PICK fn \in {"div_u64_rem", "do_div"} :
          MathCall(fn, x, y, 0, QuotRem(x \div y, x % y))
  BY <1>1, <1>2, DividesByWord
<1>4. /\ call'.fn = fn /\ call'.x = x /\ call'.y = y
      /\ call'.result = QuotRem(x \div y, x % y)
  BY <1>3 DEF MathCall
<1> QED
  BY <1>4 DEF Divides, DivideUnsigned, DivideSigned, Divide64Bounded, Called

\* The divisions of signed numbers by a word.
LEMMA DivSStep == ASSUME DivS PROVE Divides'
<1>1. PICK x \in s64, y \in s32 \ {0} :
          \/ MathCall("div_s64_rem", x, y, 0, div_s64_rem(x, y))
          \/ MathCall("div_s64", x, y, 0, div_s64(x, y))
  BY DEF DivS
<1>2. div_s64_rem(x, y) = QuotRem(S64(Quotient(x, y)), x - y * Quotient(x, y))
  BY DividesSigned
<1>3. div_s64(x, y) = S64(Quotient(x, y))
  BY <1>2 DEF div_s64, QuotRem
<1>4. CASE MathCall("div_s64_rem", x, y, 0, div_s64_rem(x, y))
  <2>1. /\ call'.fn = "div_s64_rem" /\ call'.x = x /\ call'.y = y
        /\ call'.result = div_s64_rem(x, y)
    BY <1>4 DEF MathCall
  <2> QED
    BY <1>2, <2>1 DEF Divides, DivideUnsigned, DivideSigned, Divide64Bounded, Called
<1>5. CASE MathCall("div_s64", x, y, 0, div_s64(x, y))
  <2>1. /\ call'.fn = "div_s64" /\ call'.x = x /\ call'.y = y
        /\ call'.result = div_s64(x, y)
    BY <1>5 DEF MathCall
  <2> QED
    BY <1>3, <2>1 DEF Divides, DivideUnsigned, DivideSigned, Divide64Bounded, Called
<1> QED
  BY <1>1, <1>4, <1>5

\* The divisions by a double word.
LEMMA Div64Step == ASSUME Div64by64 PROVE Divides'
<1>1. CASE \E x \in u64, y \in u64 \ {0} : MathCall("div64_u64", x, y, 0, div64_u64(x, y))
  <2>1. PICK x \in u64, y \in u64 \ {0} : MathCall("div64_u64", x, y, 0, div64_u64(x, y))
    BY <1>1
  <2>2. x \in Nat /\ x < Full /\ y \in Nat \ {0} /\ y < Full
    BY WordTypes
  <2>3. /\ call'.fn = "div64_u64" /\ call'.x = x /\ call'.y = y
        /\ call'.result = div64_u64(x, y)
    BY <2>1 DEF MathCall
  <2>4. Divide64Bounded'
    BY <2>2, <2>3, DividesByDouble DEF Divide64Bounded
  <2> QED
    BY <2>3, <2>4 DEF Divides, DivideUnsigned, DivideSigned, Called
<1>2. CASE \E x \in s64, y \in s64 \ {0} : MathCall("div64_s64", x, y, 0, div64_s64(x, y))
  <2>1. PICK x, y : MathCall("div64_s64", x, y, 0, div64_s64(x, y))
    BY <1>2
  <2>2. call'.fn = "div64_s64"
    BY <2>1 DEF MathCall
  <2> QED
    BY <2>2 DEF Divides, DivideUnsigned, DivideSigned, Divide64Bounded, Called
<1> QED
  BY <1>1, <1>2 DEF Div64by64

\* Divides in every state: whatever the width of a word, the functions of
\* math64.h and div64.h divide the whole numbers, divl does not trap, and
\* div64_u64 is never below the quotient.
THEOREM DivisionsRight == MathSpec => []Divides
<1>1. MathInit => Divides
  BY DEF MathInit, Divides, DivideUnsigned, DivideSigned, Divide64Bounded, Called, Idle
<1>2. Divides /\ [MathNext]_call => Divides'
  <2> SUFFICES ASSUME Divides, [MathNext]_call PROVE Divides'
    OBVIOUS
  <2>1. CASE MathNext
    <3>1. ASSUME MulShr \/ MulDiv PROVE Divides'
      <4>1. call'.fn \in {"mul_shr", "mul_div"}
        BY <3>1, MulShrElsewhere, MulDivElsewhere
      <4> QED
        BY <4>1 DEF Divides, DivideUnsigned, DivideSigned, Divide64Bounded, Called
    <3>2. ASSUME Return PROVE Divides'
      BY <3>2 DEF Return, Idle, Divides, DivideUnsigned, DivideSigned,
                  Divide64Bounded, Called
    <3> QED
      BY <2>1, <3>1, <3>2, DivUStep, DivSStep, Div64Step DEF MathNext
  <2>2. CASE UNCHANGED call
    BY <2>2 DEF Divides, DivideUnsigned, DivideSigned, Divide64Bounded, Called
  <2> QED
    BY <2>1, <2>2
<1> QED
  BY <1>1, <1>2, PTL DEF MathSpec

-----------------------------------------------------------------------------
(***************************************************************************)
(* Products.                                                               *)
(***************************************************************************)
\* A term may be cut before it is added.
LEMMA CutTerm ==
    ASSUME NEW x \in Int, NEW y \in Int
    PROVE  U64(x + U64(y)) = U64(x + y)
<1>1. PICK f \in Nat \ {0} : f = Full
  BY WordSizes
<1>2. PICK q \in Int, r \in 0 .. f - 1 : r = y % f /\ y = q * f + r
  BY DivModExist
<1>3. PICK z \in Int : z = x + r
  BY <1>2
<1>4. x + y = q * f + z
  <2>1. PICK p \in Int : p = q * f
    BY <1>2
  <2>2. r \in Int /\ y = p + r
    BY <1>2, <2>1
  <2>3. x + y = p + z
    BY <1>3, <2>2
  <2> QED
    BY <2>1, <2>3
<1>5. (q * f + z) % f = z % f
  BY DivOfSum
<1> QED
  BY <1>1, <1>2, <1>3, <1>4, <1>5 DEF U64

\* A product of words, and what two factors of a power leave of a shift.
LEMMA ProductOfWords ==
    ASSUME NEW n \in Nat \ {0}, NEW a \in Nat, NEW b \in Nat, a < n, b < n
    PROVE  /\ a * b \in Nat /\ a * b <= (n - 1) * (n - 1)
           /\ (n - 1) * (n - 1) = n * n - 2 * n + 1 /\ a * b < n * n
<1>1. a * b \in Nat
  OBVIOUS
<1>2. a * b <= (n - 1) * b
  OBVIOUS
<1>3. (n - 1) * b <= (n - 1) * (n - 1)
  OBVIOUS
<1>4. (n - 1) * (n - 1) = n * n - 2 * n + 1 /\ n * n \in Int
  OBVIOUS
<1>5. (n - 1) * b \in Int /\ (n - 1) * (n - 1) \in Int
  OBVIOUS
<1> QED
  BY <1>1, <1>2, <1>3, <1>4, <1>5

\* The shifts of a factor.
LEMMA ShiftedSum ==
    ASSUME NEW p \in Nat \ {0}, NEW g \in Nat \ {0}, NEW h \in Int, NEW l \in Int
    PROVE  (h * (p * g) + l) \div p = h * g + (l \div p)
<1>1. PICK k \in Int : k = h * g
  OBVIOUS
<1>2. h * (p * g) = (h * g) * p
  OBVIOUS
<1>3. (k * p + l) \div p = k + (l \div p)
  BY DivOfSum
<1>4. h * (p * g) = k * p
  BY <1>1, <1>2
<1> QED
  BY <1>1, <1>3, <1>4

\* mul_u64_u32_shr shifts the two partial products and adds them.
LEMMA ShiftsWordProduct ==
    ASSUME NEW a \in u64, NEW mul \in u32, NEW shift \in 0 .. W
    PROVE  mul_u64_u32_shr(a, mul, shift) = U64((a * mul) \div 2^shift)
<1>1. a \in Nat /\ mul \in Nat /\ W \in Nat /\ Half = 2^W
  BY WordTypes, WidthAssumption DEF Half
<1>2. PICK n \in Nat \ {0} : n = Half
  BY WordSizes
<1>3. PICK h \in Nat, l \in Nat : h = High(a) /\ l = Low(a) /\ a = h * n + l
  <2>1. High(a) \in Nat /\ Low(a) \in Nat /\ a = High(a) * Half + Low(a)
    BY <1>1, TwoWords
  <2> QED
    BY <1>2, <2>1
<1>4. shift \in Nat /\ shift <= W /\ W - shift \in Nat
  BY <1>1
<1>5. PICK p \in Nat \ {0}, g \in Nat \ {0} : p = 2^shift /\ g = 2^(W - shift)
  BY <1>4, PowerType
<1>6. n = p * g
  BY <1>1, <1>2, <1>4, <1>5, PowerDivides
<1>7. PICK u \in Nat, v \in Nat : u = h * mul /\ v = l * mul
  BY <1>1
<1>8. a * mul = u * (p * g) + v
  <2>1. a * mul = (h * n) * mul + l * mul
    BY <1>1, <1>3
  <2>2. (h * n) * mul = (h * mul) * n
    BY <1>1
  <2> QED
    BY <1>6, <1>7, <2>1, <2>2
<1>9. (a * mul) \div p = u * g + (v \div p)
  BY <1>8, ShiftedSum
<1>10. PICK x \in Int, y \in Int : x = v \div p /\ y = u * g
  BY DivNat
<1>11. mul_u64_u32_shr(a, mul, shift) = U64(x + U64(y))
  BY <1>3, <1>5, <1>7, <1>10 DEF mul_u64_u32_shr
<1>12. U64(x + U64(y)) = U64(x + y)
  BY CutTerm
<1>13. u * g + (v \div p) = x + y
  BY <1>10
<1> QED
  BY <1>5, <1>9, <1>11, <1>12, <1>13

\* The four partial products and the carries of mul_u64_u64_shr.
Products(al, ah, bl, bh, rl, rm, rn, rh) ==
    /\ rl = al * bl /\ rm = al * bh /\ rn = ah * bl /\ rh = ah * bh

Carries(rl, rm, rn, rh, c1, c2) ==
    /\ c1 = High(rl) + Low(rm) + Low(rn)
    /\ c2 = High(c1) + High(rm) + High(rn) + Low(rh)

\* The digits of the partial products add up to the product.
LEMMA DigitsOfProduct ==
    ASSUME NEW n \in Nat \ {0},
           NEW al \in Nat, NEW ah \in Nat, NEW bl \in Nat, NEW bh \in Nat,
           NEW hl \in Nat, NEW ll \in Nat, NEW hm \in Nat, NEW lm \in Nat,
           NEW hn \in Nat, NEW ln \in Nat, NEW hh \in Nat, NEW lh \in Nat,
           al * bl = hl * n + ll, al * bh = hm * n + lm,
           ah * bl = hn * n + ln, ah * bh = hh * n + lh,
           NEW k1 \in Nat, NEW d1 \in Nat, hl + lm + ln = k1 * n + d1,
           NEW k2 \in Nat, NEW d2 \in Nat, k1 + hm + hn + lh = k2 * n + d2
    PROVE  (ah * n + al) * (bh * n + bl) =
              ((k2 + hh) * n + d2) * (n * n) + (d1 * n + ll)
<1>1. (ah * n + al) * (bh * n + bl) =
          (ah * n) * (bh * n) + (ah * n) * bl + al * (bh * n) + al * bl
  <2>1. PICK x \in Nat, y \in Nat : x = ah * n /\ y = bh * n
    OBVIOUS
  <2>2. (x + al) * (y + bl) = x * y + x * bl + al * y + al * bl
    OBVIOUS
  <2> QED
    BY <2>1, <2>2
<1>2. /\ (ah * n) * (bh * n) = (ah * bh) * (n * n)
      /\ (ah * n) * bl = (ah * bl) * n
      /\ al * (bh * n) = (al * bh) * n
  OBVIOUS
<1>3. PICK N \in Nat : N = n * n
  OBVIOUS
<1>4. (hh * n + lh) * N = (hh * n) * N + lh * N
  BY <1>3
<1>5. (hn * n + ln) * n = hn * N + ln * n /\ (hm * n + lm) * n = hm * N + lm * n
  BY <1>3
<1>6. (ah * n + al) * (bh * n + bl) =
          (hh * n) * N + lh * N + hn * N + ln * n + hm * N + lm * n + hl * n + ll
  <2>1. PICK z \in Nat : z = (ah * n + al) * (bh * n + bl)
    OBVIOUS
  <2>2. z = (hh * n + lh) * N + (hn * n + ln) * n + (hm * n + lm) * n + (hl * n + ll)
    BY <1>1, <1>2, <1>3, <2>1
  <2>3. /\ (hh * n) * N \in Int /\ lh * N \in Int /\ hn * N \in Int
        /\ ln * n \in Int /\ hm * N \in Int /\ lm * n \in Int /\ hl * n \in Int
    BY <1>3
  <2> QED
    BY <1>4, <1>5, <2>1, <2>2, <2>3
<1>7. ln * n + lm * n + hl * n = k1 * N + d1 * n
  <2>1. ln * n + lm * n + hl * n = (hl + lm + ln) * n
    OBVIOUS
  <2>2. (k1 * n + d1) * n = k1 * N + d1 * n
    BY <1>3
  <2> QED
    BY <2>1, <2>2
<1>8. k1 * N + hm * N + hn * N + lh * N = (k2 * n) * N + d2 * N
  <2>1. k1 * N + hm * N + hn * N + lh * N = (k1 + hm + hn + lh) * N
    OBVIOUS
  <2>2. PICK m \in Nat : m = k2 * n
    OBVIOUS
  <2>3. (m + d2) * N = m * N + d2 * N
    OBVIOUS
  <2> QED
    BY <2>1, <2>2, <2>3
<1>9. ((k2 + hh) * n + d2) * N = (k2 * n) * N + (hh * n) * N + d2 * N
  <2>1. PICK m \in Nat, i \in Nat : m = k2 * n /\ i = hh * n
    OBVIOUS
  <2>2. (k2 + hh) * n = m + i
    BY <2>1
  <2>3. (m + i + d2) * N = m * N + i * N + d2 * N
    OBVIOUS
  <2> QED
    BY <2>1, <2>2, <2>3
<1>10. /\ (hh * n) * N \in Int /\ lh * N \in Int /\ hn * N \in Int
       /\ ln * n \in Int /\ hm * N \in Int /\ lm * n \in Int /\ hl * n \in Int
       /\ k1 * N \in Int /\ d1 * n \in Int /\ (k2 * n) * N \in Int /\ d2 * N \in Int
  BY <1>3
<1> QED
  BY <1>3, <1>6, <1>7, <1>8, <1>9, <1>10

\* The product of two double words has four words, the two lower ones in low
\* and the two upper ones in high, and no sum of the digits is cut.
LEMMA FullProduct ==
    ASSUME NEW a \in u64, NEW b \in u64, NEW rl, NEW rm, NEW rn, NEW rh, NEW c1, NEW c2,
           Products(Low(a), High(a), Low(b), High(b), rl, rm, rn, rh),
           Carries(rl, rm, rn, rh, c1, c2)
    PROVE  /\ c1 \in Nat /\ c1 < Full /\ c2 \in Nat /\ c2 < Full
           /\ Low(c1) * Half + Low(rl) \in Nat /\ Low(c1) * Half + Low(rl) < Full
           /\ Low(High(c2) + High(rh)) * Half + Low(c2) \in Nat
           /\ Low(High(c2) + High(rh)) * Half + Low(c2) < Full
           /\ a * b = (Low(High(c2) + High(rh)) * Half + Low(c2)) * Full
                        + (Low(c1) * Half + Low(rl))
<1>1. PICK n \in Nat \ {0} : n = Half /\ 4 <= n
  BY WordSizes
<1>2. PICK f \in Nat \ {0} : f = Full /\ f = n * n /\ 4 * n <= f
  BY <1>1, WordSizes
<1>3. a \in Nat /\ b \in Nat /\ a < f /\ b < f
  BY <1>2, WordTypes
<1>4. PICK ah \in Nat, al \in Nat, bh \in Nat, bl \in Nat :
          ah = High(a) /\ al = Low(a) /\ bh = High(b) /\ bl = Low(b)
  BY <1>3, TwoWords
<1>5. /\ a = ah * n + al /\ b = bh * n + bl
      /\ ah < n /\ al < n /\ bh < n /\ bl < n
  BY <1>1, <1>2, <1>3, <1>4, TwoWords
<1>6. /\ rl \in Nat /\ rm \in Nat /\ rn \in Nat /\ rh \in Nat
      /\ rl < f /\ rm < f /\ rn < f /\ rh < f
      /\ rl = al * bl /\ rm = al * bh /\ rn = ah * bl /\ rh = ah * bh
  <2>1. rl = al * bl /\ rm = al * bh /\ rn = ah * bl /\ rh = ah * bh
    BY <1>4 DEF Products
  <2>2. al * bl \in Nat /\ al * bl < n * n
    BY <1>5, ProductOfWords
  <2>3. al * bh \in Nat /\ al * bh < n * n
    BY <1>5, ProductOfWords
  <2>4. ah * bl \in Nat /\ ah * bl < n * n
    BY <1>5, ProductOfWords
  <2>5. ah * bh \in Nat /\ ah * bh < n * n
    BY <1>5, ProductOfWords
  <2> QED
    BY <1>2, <2>1, <2>2, <2>3, <2>4, <2>5
<1>7. PICK hl \in Nat, ll \in Nat, hm \in Nat, lm \in Nat :
          hl = High(rl) /\ ll = Low(rl) /\ hm = High(rm) /\ lm = Low(rm)
  BY <1>6, TwoWords
<1>8. PICK hn \in Nat, ln \in Nat, hh \in Nat, lh \in Nat :
          hn = High(rn) /\ ln = Low(rn) /\ hh = High(rh) /\ lh = Low(rh)
  BY <1>6, TwoWords
<1>9. /\ rl = hl * n + ll /\ rm = hm * n + lm /\ rn = hn * n + ln /\ rh = hh * n + lh
      /\ hl < n /\ ll < n /\ hm < n /\ lm < n /\ hn < n /\ ln < n /\ lh < n
  BY <1>1, <1>2, <1>6, <1>7, <1>8, TwoWords
<1>10. c1 = hl + lm + ln /\ c1 \in Nat /\ c1 < f
  BY <1>2, <1>7, <1>8, <1>9 DEF Carries
<1>11. PICK k1 \in Nat, d1 \in Nat : k1 = High(c1) /\ d1 = Low(c1)
  BY <1>10, TwoWords
<1>12. c1 = k1 * n + d1 /\ k1 < n /\ d1 < n
  BY <1>1, <1>2, <1>10, <1>11, TwoWords
<1>13. c2 = k1 + hm + hn + lh /\ c2 \in Nat /\ c2 < f
  <2>1. c2 = k1 + hm + hn + lh
    BY <1>7, <1>8, <1>11 DEF Carries
  <2>2. k1 < n /\ hm < n /\ hn < n /\ lh < n /\ 4 * n <= f
    BY <1>2, <1>9, <1>12
  <2> QED
    BY <2>1, <2>2
<1>14. PICK k2 \in Nat, d2 \in Nat : k2 = High(c2) /\ d2 = Low(c2)
  BY <1>13, TwoWords
<1>15. c2 = k2 * n + d2 /\ d2 < n
  BY <1>1, <1>2, <1>13, <1>14, TwoWords
<1>16. PICK top \in Nat : top = k2 + hh
  OBVIOUS
<1>17. PICK high \in Nat : high = top * n + d2
  OBVIOUS
<1>18. PICK low \in Nat : low = d1 * n + ll
  OBVIOUS
<1>19. a * b = high * f + low
  <2>1. /\ al * bl = hl * n + ll /\ al * bh = hm * n + lm
        /\ ah * bl = hn * n + ln /\ ah * bh = hh * n + lh
    BY <1>6, <1>9
  <2>2. hl + lm + ln = k1 * n + d1
    BY <1>10, <1>12
  <2>3. k1 + hm + hn + lh = k2 * n + d2
    BY <1>13, <1>15
  <2>4. (ah * n + al) * (bh * n + bl) =
            ((k2 + hh) * n + d2) * (n * n) + (d1 * n + ll)
    BY <2>1, <2>2, <2>3, DigitsOfProduct
  <2> QED
    BY <1>2, <1>5, <1>16, <1>17, <1>18, <2>4
<1>20. low < f
  <2>1. (n - 1 - d1) * n >= 0 /\ (n - 1 - d1) * n = n * n - n - d1 * n
    BY <1>12
  <2>2. d1 * n \in Int /\ n * n \in Int
    OBVIOUS
  <2> QED
    BY <1>2, <1>9, <1>18, <2>1, <2>2
<1>21. high < f
  <2>1. a * b < f * f /\ a * b \in Nat
    BY <1>3, ProductOfWords
  <2>2. (a * b) \div f < f
    BY <2>1, DivBelow
  <2>3. low \in 0 .. f - 1
    BY <1>20
  <2>4. (high * f + low) \div f = high
    BY <2>3, DivModUnique
  <2> QED
    BY <1>19, <2>2, <2>4
<1>22. top < n
  <2>1. top >= n => top * n >= n * n
    OBVIOUS
  <2>2. top * n \in Int /\ n * n \in Int
    OBVIOUS
  <2> QED
    BY <1>2, <1>17, <1>21, <2>1, <2>2
<1>23. Low(top) = top
  BY <1>1, <1>22, TwoWords
<1>24. Low(High(c2) + High(rh)) * Half + Low(c2) = high
  BY <1>1, <1>8, <1>14, <1>16, <1>17, <1>23
<1>25. Low(c1) * Half + Low(rl) = low
  BY <1>1, <1>7, <1>11, <1>18
<1> QED
  BY <1>2, <1>10, <1>13, <1>19, <1>20, <1>21, <1>24, <1>25

\* A shift of the two double words.
ShiftedDouble(high, low, shift) ==
    IF shift = 0 THEN low
    ELSE IF shift < 2 * W THEN low \div 2^shift + U64(high * 2^(2 * W - shift))
    ELSE high \div 2^(shift % (2 * W))

\* It is that of the whole number, cut to a double word.
LEMMA ShiftsDouble ==
    ASSUME NEW high \in Nat, high < Full, NEW low \in Nat, low < Full,
           NEW shift \in 0 .. 4 * W - 1
    PROVE  ShiftedDouble(high, low, shift) = U64((high * Full + low) \div 2^shift)
<1>1. W \in Nat /\ 2 <= W /\ shift \in Nat /\ shift < 4 * W
  BY WidthAssumption
<1>2. PICK f \in Nat \ {0} : f = Full /\ f = 2^(2 * W)
  <2>1. 2^(W + W) = 2^W * 2^W
    BY <1>1, PowerSum
  <2>2. W + W = 2 * W
    BY <1>1
  <2> QED
    BY <2>1, <2>2, WordSizes DEF Full, Half
<1>3. CASE shift = 0
  <2>1. 2^0 = 1
    OBVIOUS
  <2>2. PICK z \in Nat : z = high * f + low
    BY <1>2
  <2>3. z \div 1 = z
    OBVIOUS
  <2>4. low \in 0 .. f - 1 /\ high \in Int
    BY <1>2
  <2>5. (high * f + low) % f = low
    BY <2>4, DivModUnique, Zenon
  <2> QED
    BY <1>2, <1>3, <2>1, <2>2, <2>3, <2>5 DEF ShiftedDouble, U64
<1>4. CASE shift # 0 /\ shift < 2 * W
  <2>1. 2 * W \in Nat /\ 2 * W - shift \in Nat
    BY <1>1, <1>4
  <2>2. PICK p \in Nat \ {0}, g \in Nat \ {0} : p = 2^shift /\ g = 2^(2 * W - shift)
    BY <1>1, <2>1, PowerType
  <2>3. f = p * g
    <3>1. shift <= 2 * W
      BY <1>1, <1>4
    <3> QED
      BY <1>1, <1>2, <2>1, <2>2, <3>1, PowerDivides
  <2>4. (high * (p * g) + low) \div p = high * g + (low \div p)
    <3>1. high \in Int /\ low \in Int
      OBVIOUS
    <3> QED
      BY <3>1, ShiftedSum, Zenon
  <2>5. PICK x \in Nat : x = low \div p
    BY DivNat
  <2>6. x < g
    <3>1. f = g * p
      BY <2>3
    <3>2. low < g * p
      BY <1>2, <3>1
    <3> QED
      BY <2>5, <3>2, DivBelow
  <2>7. PICK y \in Nat : y = high * g
    OBVIOUS
  <2>8. PICK s \in 0 .. p - 1 : s = high % p
    BY DivNat
  <2>9. U64(y) = g * s
    <3>1. (high * g) % (g * p) = g * (high % p)
      BY ModOfProduct
    <3>2. f = g * p
      BY <2>3
    <3> QED
      BY <1>2, <2>7, <2>8, <3>1, <3>2 DEF U64
  <2>10. x + g * s < f /\ x + g * s \in Nat
    <3>1. g * (p - 1 - s) >= 0 /\ g * (p - 1 - s) = g * p - g - g * s
      BY <2>8
    <3>2. g * s \in Nat /\ g * p \in Nat
      BY <2>8
    <3>3. f = g * p
      BY <2>3
    <3> QED
      BY <2>6, <3>1, <3>2, <3>3
  <2>11. U64(x + U64(y)) = x + U64(y)
    BY <1>2, <2>9, <2>10, TwoWords
  <2>12. U64(x + U64(y)) = U64(x + y)
    BY CutTerm
  <2>13. ShiftedDouble(high, low, shift) = x + U64(y)
    BY <1>4, <2>2, <2>5, <2>7 DEF ShiftedDouble
  <2>14. (high * f + low) \div p = x + y
    BY <2>3, <2>4, <2>5, <2>7
  <2> QED
    BY <1>2, <2>2, <2>11, <2>12, <2>13, <2>14
<1>5. CASE ~ (shift < 2 * W)
  <2>1. PICK t \in Nat : t = shift - 2 * W
    BY <1>1, <1>5
  <2>2. shift % (2 * W) = t
    <3>1. PICK m \in Nat \ {0} : m = 2 * W
      BY <1>1
    <3>2. t \in 0 .. m - 1 /\ shift = 1 * m + t
      BY <1>1, <2>1, <3>1
    <3>3. (1 * m + t) % m = t
      <4>1. 1 \in Int
        OBVIOUS
      <4> QED
        BY <3>2, <4>1, DivModUnique, Zenon
    <3> QED
      BY <3>1, <3>2, <3>3
  <2>3. PICK p \in Nat \ {0} : p = 2^t
    BY PowerType
  <2>4. 2^shift = f * p
    <3>1. 2 * W \in Nat /\ 2 * W + t = shift
      BY <1>1, <2>1
    <3>2. 2^(2 * W + t) = 2^(2 * W) * 2^t
      BY <3>1, PowerSum
    <3> QED
      BY <1>2, <2>3, <3>1, <3>2
  <2>5. PICK z \in Int : z = high * f + low
    BY <1>2
  <2>6. (z \div f) \div p = z \div (f * p)
    BY DivOfDiv
  <2>7. z \div f = high
    <3>1. low \in 0 .. f - 1 /\ high \in Int
      BY <1>2
    <3>2. (high * f + low) \div f = high
      BY <3>1, DivModUnique, Zenon
    <3> QED
      BY <2>5, <3>2
  <2>8. high \div p \in Nat /\ high \div p < Full
    <3>1. high \div p \in Nat /\ high \div p <= high
      BY DivNat
    <3> QED
      BY <1>2, <3>1
  <2>9. U64(high \div p) = high \div p
    BY <2>8, TwoWords
  <2>10. shift # 0
    BY <1>1, <1>5
  <2>11. ShiftedDouble(high, low, shift) = high \div p
    BY <1>5, <2>2, <2>3, <2>10 DEF ShiftedDouble
  <2>12. (high * f + low) \div 2^shift = high \div p
    BY <2>4, <2>5, <2>6, <2>7
  <2> QED
    BY <1>2, <2>9, <2>11, <2>12
<1> QED
  BY <1>3, <1>4, <1>5

\* mul_u64_u64_shr loses no carry.
LEMMA ShiftsDoubleProduct ==
    ASSUME NEW a \in u64, NEW b \in u64, NEW shift \in 0 .. 4 * W - 1
    PROVE  mul_u64_u64_shr(a, b, shift) = U64((a * b) \div 2^shift)
<1>1. PICK rl, rm, rn, rh : Products(Low(a), High(a), Low(b), High(b), rl, rm, rn, rh)
  BY DEF Products
<1>2. PICK c1, c2 : Carries(rl, rm, rn, rh, c1, c2)
  BY DEF Carries
<1>3. PICK high, low : /\ high = Low(High(c2) + High(rh)) * Half + Low(c2)
                       /\ low = Low(c1) * Half + Low(rl)
  OBVIOUS
<1>4. /\ c1 \in Nat /\ c1 < Full /\ c2 \in Nat /\ c2 < Full
      /\ low \in Nat /\ low < Full /\ high \in Nat /\ high < Full
      /\ a * b = high * Full + low
  BY <1>1, <1>2, <1>3, FullProduct
<1>5. U64(c1) = c1 /\ U64(c2) = c2
  BY <1>4, TwoWords
<1>6. mul_u64_u64_shr(a, b, shift) = ShiftedDouble(high, low, shift)
  BY <1>1, <1>2, <1>3, <1>5 DEF mul_u64_u64_shr, ShiftedDouble, Products, Carries
<1> QED
  BY <1>4, <1>6, ShiftsDouble

-----------------------------------------------------------------------------
\* mul_u64_u32_div divides the upper word of the product and then, with what
\* remains of it, the lower one.
LEMMA DividesProduct ==
    ASSUME NEW a \in u64, NEW mul \in u32, NEW d \in u32 \ {0}
    PROVE  mul_u64_u32_div(a, mul, d) = U64((a * mul) \div d)
<1>1. PICK n \in Nat \ {0} : n = Half /\ 4 <= n
  BY WordSizes
<1>2. PICK f \in Nat \ {0} : f = Full /\ f = n * n
  BY <1>1, WordSizes
<1>3. a \in Nat /\ a < f /\ mul \in Nat /\ mul < n /\ d \in Nat \ {0} /\ d < n
  BY <1>1, <1>2, WordTypes
<1>4. PICK h \in Nat, l \in Nat : h = High(a) /\ l = Low(a)
  BY <1>3, TwoWords
<1>5. a = h * n + l /\ h < n /\ l < n
  BY <1>1, <1>2, <1>3, <1>4, TwoWords
<1>6. PICK v \in Nat : v = l * mul /\ v < n * n
  BY <1>3, <1>5, ProductOfWords
<1>7. PICK vh \in Nat, vl \in Nat : vh = High(v) /\ vl = Low(v)
  BY TwoWords
<1>8. v = vh * n + vl /\ vh < n /\ vl < n
  BY <1>1, <1>2, <1>6, <1>7, TwoWords
<1>9. PICK u \in Nat : u = h * mul /\ u <= n * n - 2 * n + 1
  <2>1. h * mul \in Nat /\ h * mul <= (n - 1) * (n - 1)
        /\ (n - 1) * (n - 1) = n * n - 2 * n + 1
    BY <1>3, <1>5, ProductOfWords
  <2> QED
    BY <2>1
<1>10. PICK t \in Nat : t = u + vh /\ t < f
  <2>1. n * n \in Int
    OBVIOUS
  <2> QED
    BY <1>1, <1>2, <1>8, <1>9, <2>1
<1>11. U64(t) = t
  BY <1>2, <1>10, TwoWords
<1>12. PICK q \in Nat, r \in 0 .. d - 1 : q = t \div d /\ r = t % d /\ t = q * d + r
  <2>1. d \in Nat \ {0}
    BY <1>3
  <2>2. t \div d \in Nat /\ t % d \in 0 .. d - 1 /\ t = (t \div d) * d + (t % d)
    BY <2>1, DivNat, Zenon
  <2> QED
    BY <2>2, Zenon
<1>13. do_div(t, d) = QuotRem(q, r)
  BY <1>1, <1>2, <1>3, <1>10, <1>12, DividesByWord
<1>14. PICK z : z = r * n + vl
  OBVIOUS
<1>15. FirstStep(t, vl, d, q, r, z)
  BY <1>1, <1>8, <1>12, <1>14 DEF FirstStep
<1>16. SecondStep(t, vl, d, q, z)
  BY <1>3, <1>15, LongDivision
<1>17. PICK w \in Nat :
           /\ w = z \div d /\ w < n /\ z \in Nat /\ z < d * n
           /\ (t * n + vl) \div d = q * n + w
  BY <1>1, <1>16 DEF SecondStep
<1>18. z < f
  <2>1. (n - 1 - d) * n >= 0 /\ (n - 1 - d) * n = n * n - n - d * n
    BY <1>3
  <2>2. d * n \in Int /\ n * n \in Int
    BY <1>3
  <2> QED
    BY <1>2, <1>17, <2>1, <2>2
<1>19. do_div(z, d) = QuotRem(w, z % d)
  BY <1>1, <1>2, <1>3, <1>17, <1>18, DividesByWord
<1>20. Low(w) = w
  BY <1>1, <1>17, TwoWords
<1>21. PICK qh \in Nat, ql \in Nat : qh = High(q) /\ ql = Low(q)
  BY TwoWords
<1>22. q = qh * n + ql /\ ql < n
  BY <1>1, <1>21, TwoWords
<1>23. mul_u64_u32_div(a, mul, d) = ql * n + w
  <2>1. do_div(U64(h * mul + High(v)), d) = QuotRem(q, r)
    BY <1>7, <1>9, <1>10, <1>11, <1>13
  <2>2. do_div(r * Half + Low(v), d) = QuotRem(w, z % d)
    BY <1>1, <1>7, <1>14, <1>19
  <2>3. mul_u64_u32_div(a, mul, d) = Low(q) * Half + Low(w)
    BY <1>4, <1>6, <2>1, <2>2 DEF mul_u64_u32_div, QuotRem
  <2> QED
    BY <1>1, <1>20, <1>21, <2>3
<1>24. a * mul = t * n + vl
  <2>1. a * mul = (h * n) * mul + l * mul
    BY <1>3, <1>5
  <2>2. (h * n) * mul = (h * mul) * n
    BY <1>3
  <2>3. (u + vh) * n = u * n + vh * n
    OBVIOUS
  <2>4. u * n \in Int /\ vh * n \in Int
    OBVIOUS
  <2> QED
    <3>1. a * mul = u * n + v
      BY <1>6, <1>9, <2>1, <2>2
    <3>2. t * n = u * n + vh * n
      BY <1>10, <2>3
    <3> QED
      BY <1>8, <2>4, <3>1, <3>2
<1>25. PICK low \in Nat : low = ql * n + w /\ low < f
  <2>1. (n - 1 - ql) * n >= 0 /\ (n - 1 - ql) * n = n * n - n - ql * n
    BY <1>22
  <2>2. ql * n \in Nat /\ n * n \in Int
    OBVIOUS
  <2> QED
    BY <1>2, <1>17, <2>1, <2>2
<1>26. q * n + w = qh * f + low
  <2>1. q * n = (qh * n) * n + ql * n
    BY <1>22
  <2>2. (qh * n) * n = qh * f
    BY <1>2
  <2>3. qh * f \in Int /\ ql * n \in Int
    OBVIOUS
  <2> QED
    BY <1>25, <2>1, <2>2, <2>3
<1>27. (qh * f + low) % f = low
  <2>1. qh \in Int /\ low \in 0 .. f - 1
    BY <1>25
  <2> QED
    BY <2>1, DivModUnique, Zenon
<1> QED
  BY <1>2, <1>17, <1>23, <1>24, <1>25, <1>26, <1>27 DEF U64

\* The divisions are other calls than the multiplications.
LEMMA DivisionsElsewhere ==
    ASSUME DivU \/ DivS \/ Div64by64
    PROVE  call'.fn \notin {"mul_shr", "mul_div"}
<1>1. ASSUME DivU
      PROVE  call'.fn \in {"div_u64_rem", "do_div"}
  <2>1. PICK fn \in {"div_u64_rem", "do_div"} :
            \E x, y, z, result : MathCall(fn, x, y, z, result)
    BY <1>1, Zenon DEF DivU
  <2> QED
    BY <2>1 DEF MathCall
<1>2. ASSUME DivS
      PROVE  call'.fn \in {"div_s64_rem", "div_s64"}
  <2>1. PICK fn \in {"div_s64_rem", "div_s64"} :
            \E x, y, z, result : MathCall(fn, x, y, z, result)
    BY <1>2, Zenon DEF DivS
  <2> QED
    BY <2>1 DEF MathCall
<1>3. ASSUME Div64by64
      PROVE  call'.fn \in {"div64_u64", "div64_s64"}
  <2>1. PICK fn \in {"div64_u64", "div64_s64"} :
            \E x, y, z, result : MathCall(fn, x, y, z, result)
    BY <1>3, Zenon DEF Div64by64
  <2> QED
    BY <2>1 DEF MathCall
<1> QED
  BY <1>1, <1>2, <1>3

\* The multiplications that shift.
LEMMA MulShrStep == ASSUME MulShr PROVE Multiplies'
<1>1. PICK x \in u64 :
          \/ \E y \in u32, shift \in 0..W :
                MathCall("mul_shr", x, y, shift, mul_u64_u32_shr(x, y, shift))
          \/ \E y \in u64, shift \in 0..(4 * W - 1) :
                MathCall("mul_shr", x, y, shift, mul_u64_u64_shr(x, y, shift))
  BY DEF MulShr
<1>2. PICK y, shift : MathCall("mul_shr", x, y, shift, U64((x * y) \div 2^shift))
  BY <1>1, ShiftsWordProduct, ShiftsDoubleProduct
<1>3. /\ call'.fn = "mul_shr" /\ call'.x = x /\ call'.y = y /\ call'.z = shift
      /\ call'.result = U64((x * y) \div 2^shift)
  BY <1>2 DEF MathCall
<1> QED
  BY <1>3 DEF Multiplies, ProductShifted, ProductDivided, Called

\* The one that divides.
LEMMA MulDivStep == ASSUME MulDiv PROVE Multiplies'
<1>1. PICK x \in u64, y \in u32, z \in u32 \ {0} :
          MathCall("mul_div", x, y, z, mul_u64_u32_div(x, y, z))
  BY DEF MulDiv
<1>2. mul_u64_u32_div(x, y, z) = U64((x * y) \div z)
  BY DividesProduct
<1>3. /\ call'.fn = "mul_div" /\ call'.x = x /\ call'.y = y /\ call'.z = z
      /\ call'.result = U64((x * y) \div z)
  BY <1>1, <1>2 DEF MathCall
<1> QED
  BY <1>3 DEF Multiplies, ProductShifted, ProductDivided, Called

\* Multiplies in every state: whatever the width of a word, no carry between
\* the partial products and no bit above the 64th is lost before the shift or
\* the division.
THEOREM ProductsRight == MathSpec => []Multiplies
<1>1. MathInit => Multiplies
  BY DEF MathInit, Multiplies, ProductShifted, ProductDivided, Called, Idle
<1>2. Multiplies /\ [MathNext]_call => Multiplies'
  <2> SUFFICES ASSUME Multiplies, [MathNext]_call PROVE Multiplies'
    OBVIOUS
  <2>1. CASE MathNext
    <3>1. ASSUME DivU \/ DivS \/ Div64by64 PROVE Multiplies'
      BY <3>1, DivisionsElsewhere DEF Multiplies, ProductShifted, ProductDivided, Called
    <3>2. ASSUME Return PROVE Multiplies'
      BY <3>2 DEF Return, Idle, Multiplies, ProductShifted, ProductDivided, Called
    <3> QED
      BY <2>1, <3>1, <3>2, MulShrStep, MulDivStep DEF MathNext
  <2>2. CASE UNCHANGED call
    BY <2>2 DEF Multiplies, ProductShifted, ProductDivided, Called
  <2> QED
    BY <2>1, <2>2
<1> QED
  BY <1>1, <1>2, PTL DEF MathSpec

-----------------------------------------------------------------------------
(***************************************************************************)
(* The conversions to jiffies and back with the values of the build.  A    *)
(* u64 is too long for a numeral here and is written as a product, and     *)
(* ranges are written as bounds.                                           *)
(***************************************************************************)
\* The values of the build, of which the scaled constants are made: ticks of a
\* hundredth of a second, an int and a long of 32 bits.
BuildValues ==
    /\ HZ = 100 /\ MSEC_PER_SEC = 1000 /\ USEC_PER_SEC = 1000000
    /\ NSEC_PER_SEC = 1000000000
    /\ IntBits = 32 /\ LongBits = 32 /\ NSEC_SHIFT = 29

\* The sizes of the words; a u64 is two of them.
LEMMA BuildSizes ==
    ASSUME BuildValues
    PROVE  /\ 2^IntBits = 4294967296 /\ 2^(IntBits - 1) = 2147483648
           /\ 2^LongBits = 4294967296 /\ 2^(LongBits - 1) = 2147483648
           /\ 2^(2 * IntBits) = 4294967296 * 4294967296
<1>1. IntBits = 32 /\ LongBits = 32
  BY SMT DEF BuildValues
<1>2. 2^32 = 4294967296 /\ 2^31 = 2147483648
  BY SMT
<1>3. 2^(32 + 32) = 2^32 * 2^32
  <2>1. 32 \in Nat
    OBVIOUS
  <2> QED
    BY <2>1, PowerSum, Zenon
<1>4. 2 * IntBits = 32 + 32 /\ IntBits - 1 = 31 /\ LongBits - 1 = 31
  BY <1>1, SMT
<1> QED
  BY <1>1, <1>2, <1>3, <1>4, SMT

\* The range of a u64 by a name.
LEMMA BuildDouble ==
    ASSUME BuildValues
    PROVE  \E D \in Nat \ {0} : D = 2^(2 * IntBits) /\ D = 4294967296 * 4294967296
<1>1. PICK D : D = 2^(2 * IntBits)
  BY SMT
<1>2. D = 4294967296 * 4294967296
  BY <1>1, BuildSizes, SMT
<1>3. D \in Nat \ {0}
  BY <1>1, Widths, PowerType, SMT
<1> QED
  BY <1>1, <1>2, <1>3, SMT

\* The units, and the longest timeout.
LEMMA BuildWords ==
    ASSUME BuildValues
    PROVE  /\ 2^IntBits = 4294967296 /\ 2^(IntBits - 1) = 2147483648
           /\ 2^LongBits = 4294967296 /\ 2^(LongBits - 1) = 2147483648
           /\ 2^(2 * IntBits) = 4294967296 * 4294967296
           /\ NSEC_PER_USEC = 1000 /\ TICK_NSEC = 10000000
           /\ MSEC_PER_SEC \div HZ = 10 /\ USEC_PER_SEC \div HZ = 10000
           /\ NSEC_PER_SEC \div HZ = 10000000
           /\ MAX_JIFFY_OFFSET = 1073741822 /\ Limit = 10737418
           /\ MAX_SEC_IN_JIFFIES = 10737418
<1>1. /\ 2^IntBits = 4294967296 /\ 2^(IntBits - 1) = 2147483648
      /\ 2^LongBits = 4294967296 /\ 2^(LongBits - 1) = 2147483648
      /\ 2^(2 * IntBits) = 4294967296 * 4294967296
  BY BuildSizes, SMT
<1>2. /\ NSEC_PER_USEC = 1000 /\ TICK_NSEC = 10000000
      /\ MSEC_PER_SEC \div HZ = 10 /\ USEC_PER_SEC \div HZ = 10000
      /\ NSEC_PER_SEC \div HZ = 10000000
  BY SMT DEF BuildValues, NSEC_PER_USEC, TICK_NSEC
<1>3. MAX_JIFFY_OFFSET = 1073741822
  BY <1>1, SMT DEF MAX_JIFFY_OFFSET
<1>4. Limit = 10737418
  BY <1>3, SMT DEF Limit, BuildValues
<1>5. MAX_SEC_IN_JIFFIES = 10737418
  <2>1. MAX_JIFFY_OFFSET * TICK_NSEC = 10737418220000000
    BY <1>2, <1>3, SMT
  <2>2. Ullong(MAX_JIFFY_OFFSET * TICK_NSEC) = 10737418220000000
    <3>1. PICK D \in Nat \ {0} : D = 2^(2 * IntBits) /\ D = 4294967296 * 4294967296
      BY BuildDouble, SMT
    <3>2. 10737418220000000 \in Nat /\ 10737418220000000 < D
      BY <3>1, SMT
    <3>3. 10737418220000000 % D = 10737418220000000
      BY <3>2, NotCut, SMT
    <3> QED
      BY <2>1, <3>1, <3>3, SMT DEF Ullong
  <2> QED
    BY <2>2, SMT DEF MAX_SEC_IN_JIFFIES, BuildValues
<1> QED
  BY <1>1, <1>2, <1>3, <1>4, <1>5, SMT

\* 128 is the power of two nearest to HZ.
LEMMA NearestPower == ASSUME BuildValues PROVE SHIFT_HZ = 7
<1> DEFINE P(s) == 3 * 2^s <= 4 * HZ /\ 4 * HZ < 3 * 2^(s + 1)
<1>1. 2^7 = 128 /\ 2^8 = 256
  BY SMT
<1>2. HZ = 100 /\ IntBits = 32
  BY SMT DEF BuildValues
<1>3. 7 \in 0..IntBits /\ P(7)
  BY <1>1, <1>2, SMT
<1>4. ASSUME NEW s \in 0..IntBits, P(s)
      PROVE  s = 7
  <2>1. s \in Nat /\ s + 1 \in Nat /\ 2^s \in Nat /\ 2^(s + 1) \in Nat
    BY <1>2, PowerType, SMT
  <2>2. CASE s < 7
    <3>1. 7 \in Nat /\ s + 1 <= 7
      BY <2>1, <2>2, SMT
    <3>2. 2^(s + 1) <= 2^7
      BY <2>1, <3>1, PowerDivides, Zenon
    <3> QED
      BY <1>1, <1>2, <1>4, <2>1, <3>2, SMT
  <2>3. CASE s > 7
    <3>1. 8 \in Nat /\ 8 <= s
      BY <2>1, <2>3, SMT
    <3>2. 2^8 <= 2^s
      BY <2>1, <3>1, PowerDivides, Zenon
    <3> QED
      BY <1>1, <1>2, <1>4, <2>1, <3>2, SMT
  <2> QED
    BY <2>1, <2>2, <2>3, SMT
<1> HIDE DEF P
<1>5. (CHOOSE s \in 0..IntBits : P(s)) = 7
  BY <1>3, <1>4, SMT
<1> QED
  BY <1>5, SMT DEF SHIFT_HZ, P

\* The scaled constants: that of a second is exact, as a second is a whole
\* number of ticks, that of a nanosecond is rounded up.
LEMMA BuildScales ==
    ASSUME BuildValues
    PROVE  /\ SEC_JIFFIE_SC = 25 /\ NSEC_JIFFIE_SC = 54
           /\ 2^SEC_JIFFIE_SC = 33554432
           /\ 2^(NSEC_JIFFIE_SC - SEC_JIFFIE_SC) = 536870912
           /\ SEC_CONVERSION = 3355443200 /\ NSEC_CONVERSION = 1801439851
<1>1. SEC_JIFFIE_SC = 25
  <2>1. PICK s \in Nat : s = 24 /\ s = IntBits - 1 - SHIFT_HZ
    BY NearestPower, SMT DEF BuildValues
  <2>2. 2^(s - 2) = 4194304
    <3>1. PICK p : p = 2^22
      BY SMT
    <3>2. s - 2 = 22
      BY <2>1, SMT
    <3>3. 2^(s - 2) = p
      BY <3>1, <3>2, Zenon
    <3> QED
      BY <3>1, <3>3, SMT
  <2>3. (NSEC_PER_SEC * 4) \div TICK_NSEC = 400
    BY BuildWords, SMT DEF BuildValues
  <2>4. PICK top : top = ((NSEC_PER_SEC * 4) \div TICK_NSEC) * 2^(s - 2)
    BY SMT
  <2>5. (top \div 2^(IntBits - 1)) % 2 = 0
    <3>1. top = 1677721600
      BY <2>2, <2>3, <2>4, SMT
    <3> QED
      BY <3>1, BuildWords, SMT
  <2>6. SEC_JIFFIE_SC = IF (top \div 2^(IntBits - 1)) % 2 = 1 THEN s ELSE s + 1
    BY <2>1, <2>4, Zenon DEF SEC_JIFFIE_SC
  <2> QED
    BY <2>1, <2>5, <2>6, SMT
<1>2. NSEC_JIFFIE_SC = 54
  BY <1>1, SMT DEF NSEC_JIFFIE_SC, BuildValues
<1>3. 2^SEC_JIFFIE_SC = 33554432
  <2>1. 2^25 = 33554432
    BY SMT
  <2> QED
    BY <1>1, <2>1, SMT
<1>4. 2^(NSEC_JIFFIE_SC - SEC_JIFFIE_SC) = 536870912
  <2>1. PICK p : p = 2^29
    BY SMT
  <2>2. NSEC_JIFFIE_SC - SEC_JIFFIE_SC = 29
    BY <1>1, <1>2, SMT
  <2>3. 2^(NSEC_JIFFIE_SC - SEC_JIFFIE_SC) = p
    BY <2>1, <2>2, Zenon
  <2> QED
    BY <2>1, <2>3, SMT
<1>5. SEC_CONVERSION = 3355443200
  <2>1. (NSEC_PER_SEC * 2^SEC_JIFFIE_SC + TICK_NSEC - 1) \div TICK_NSEC = 3355443200
    BY <1>3, BuildWords, SMT DEF BuildValues
  <2>2. 3355443200 % 4294967296 = 3355443200
    BY SMT
  <2> QED
    BY <2>1, <2>2, BuildWords, SMT DEF SEC_CONVERSION, Ulong
<1>6. NSEC_CONVERSION = 1801439851
  <2>1. 2^NSEC_JIFFIE_SC = 33554432 * 536870912
    <3>1. PICK a \in Nat, b \in Nat :
              a = SEC_JIFFIE_SC /\ b = NSEC_JIFFIE_SC - SEC_JIFFIE_SC
      BY <1>1, <1>2, SMT
    <3>2. 2^(a + b) = 2^a * 2^b
      BY PowerSum, Zenon
    <3>3. a + b = NSEC_JIFFIE_SC
      BY <1>1, <1>2, <3>1, SMT
    <3>4. 2^NSEC_JIFFIE_SC = 2^SEC_JIFFIE_SC * 2^(NSEC_JIFFIE_SC - SEC_JIFFIE_SC)
      BY <3>1, <3>2, <3>3, Zenon
    <3> QED
      BY <1>3, <1>4, <3>4, SMT
  <2>2. (2^NSEC_JIFFIE_SC + TICK_NSEC - 1) \div TICK_NSEC = 1801439851
    BY <2>1, BuildWords, SMT
  <2>3. 1801439851 % 4294967296 = 1801439851
    BY SMT
  <2> QED
    BY <2>2, <2>3, BuildWords, SMT DEF NSEC_CONVERSION, Ulong
<1> QED
  BY <1>1, <1>2, <1>3, <1>4, <1>5, <1>6, SMT

\* msecs_to_jiffies rounds up, and a negative int is the longest timeout.
LEMMA MsecsUp ==
    ASSUME BuildValues, NEW m \in uint
    PROVE  msecs_to_jiffies(m) =
              IF m < 2^(IntBits - 1) THEN Ceil(m * HZ, MSEC_PER_SEC)
                                     ELSE MAX_JIFFY_OFFSET
<1>1. m \in Nat /\ m <= 4294967295 /\ 2^(IntBits - 1) = 2147483648 /\ MSEC_PER_SEC \div HZ = 10
      /\ 2^LongBits = 4294967296
  BY BuildWords, SMT DEF uint
<1>2. CASE m < 2147483648
  <2>1. (m + 10 - 1) % 4294967296 = m + 9
    BY <1>1, <1>2, SMT
  <2>2. RoundedMsecs(m) = (m + 9) \div 10
    BY <1>1, <2>1, SMT DEF RoundedMsecs, Ulong
  <2>3. (m * 100 + 1000 - 1) \div 1000 = (m + 9) \div 10
    BY <1>1, SMT
  <2>4. Ceil(m * HZ, MSEC_PER_SEC) = (m * 100 + 1000 - 1) \div 1000
    BY SMT DEF Ceil, BuildValues
  <2> QED
    BY <1>1, <1>2, <2>2, <2>3, <2>4, SMT DEF msecs_to_jiffies
<1>3. CASE ~ (m < 2147483648)
  BY <1>1, <1>3, SMT DEF msecs_to_jiffies
<1> QED
  BY <1>2, <1>3, SMT

\* usecs_to_jiffies never gives less than was asked for: it is exact up to the
\* last two ticks an unsigned int has room for.
LEMMA UsecsUp ==
    ASSUME BuildValues, NEW u \in uint
    PROVE  /\ usecs_to_jiffies(u) >= Ceil(u, USEC_PER_SEC \div HZ)
           /\ u <= 2^IntBits - 2 * (USEC_PER_SEC \div HZ)
                 => usecs_to_jiffies(u) = Ceil(u, USEC_PER_SEC \div HZ)
<1>1. u \in Nat /\ u <= 4294967295 /\ 2^IntBits = 4294967296 /\ USEC_PER_SEC \div HZ = 10000
      /\ 2^LongBits = 4294967296 /\ MAX_JIFFY_OFFSET = 1073741822
  BY BuildWords, SMT DEF uint
<1>2. jiffies_to_usecs(MAX_JIFFY_OFFSET) = 4294947296
  <2>1. 10000 * 1073741822 = 10737418220000
    BY SMT
  <2>2. 10737418220000 % 4294967296 = 4294947296
    BY SMT
  <2> QED
    BY <1>1, <2>1, <2>2, SMT DEF jiffies_to_usecs, Uint
<1>3. Ceil(u, USEC_PER_SEC \div HZ) = (u + 9999) \div 10000
  BY <1>1, SMT DEF Ceil
<1>4. CASE u <= 4294947296
  <2>1. (u + 10000 - 1) % 4294967296 = u + 9999
    BY <1>1, <1>4, SMT
  <2>2. RoundedUsecs(u) = (u + 9999) \div 10000
    BY <1>1, <2>1, SMT DEF RoundedUsecs, Ulong
  <2>3. usecs_to_jiffies(u) = (u + 9999) \div 10000
    BY <1>1, <1>2, <1>4, <2>2, SMT DEF usecs_to_jiffies
  <2>4. (u + 9999) \div 10000 \in Int
    BY <1>1, SMT
  <2> QED
    BY <1>3, <2>3, <2>4, SMT
<1>5. CASE ~ (u <= 4294947296)
  <2>1. usecs_to_jiffies(u) = 1073741822
    BY <1>1, <1>2, <1>5, SMT DEF usecs_to_jiffies
  <2>2. (u + 9999) \div 10000 <= 429497
    BY <1>1, SMT
  <2>3. (u + 9999) \div 10000 \in Int
    BY <1>1, SMT
  <2> QED
    BY <1>1, <1>3, <1>5, <2>1, <2>2, <2>3, SMT
<1> QED
  BY <1>4, <1>5, SMT

\* The scale of a nanosecond is off by so little that the ticks of a second's
\* nanoseconds, rounded up, are as by division.
LEMMA ScaledTicks ==
    ASSUME NEW n \in Nat, n <= 1009999998
    PROVE  ((n * 1801439851) \div 536870912) \div 33554432 = n \div 10000000
<1>1. PICK q \in Nat, r \in Nat : q = n \div 10000000 /\ n = 10000000 * q + r /\ r <= 9999999
  <2>1. 10000000 \in Nat \ {0}
    BY SMT
  <2> QED
    BY <2>1, DivNat, SMT
<1>2. q <= 100
  BY <1>1, SMT
<1>3. PICK c \in Nat \ {0} : c = 536870912 * 33554432
  BY SMT
<1>4. PICK x \in Nat : x = n * 1801439851
  BY SMT
<1>5. 10000000 * 1801439851 = c + 518016
  BY <1>3, SMT
<1>6. q * c <= x /\ x < q * c + c
  <2>1. x = q * c + q * 518016 + r * 1801439851
    BY <1>1, <1>4, <1>5, SMT
  <2>2. 0 <= q * 518016 /\ q * 518016 <= 51801600
    BY <1>1, <1>2, SMT
  <2>3. 0 <= r * 1801439851 /\ r * 1801439851 <= 9999999 * 1801439851
    BY <1>1, SMT
  <2>4. q * c \in Int
    BY <1>1, <1>3, SMT
  <2> QED
    BY <1>3, <1>5, <2>1, <2>2, <2>3, <2>4, SMT
<1>7. x \div c = q
  <2>1. PICK h \in Int : h = q * c
    BY <1>1, <1>3, SMT
  <2>2. PICK z : z = x - h
    BY SMT
  <2>3. z \in 0 .. c - 1 /\ x = q * c + z
    <3>1. h <= x /\ x < h + c
      BY <1>6, <2>1, SMT
    <3> QED
      BY <2>1, <2>2, <3>1, SMT
  <2>4. (q * c + z) \div c = q
    <3>1. q \in Int
      BY <1>1, SMT
    <3> QED
      BY <2>3, <3>1, DivModUnique, SMT
  <2> QED
    BY <2>3, <2>4, SMT
<1>8. PICK p : p = n \div 10000000 /\ p = q
  BY <1>1, SMT
<1>9. (x \div 536870912) \div 33554432 = x \div (536870912 * 33554432)
  <2>1. 536870912 \in Nat \ {0} /\ 33554432 \in Nat \ {0} /\ x \in Int
    BY <1>4, SMT
  <2> QED
    BY <2>1, DivOfDiv, SMT
<1> QED
  <2>1. (x \div 536870912) \div 33554432 = x \div c
    BY <1>3, <1>9, SMT
  <2>2. ((n * 1801439851) \div 536870912) \div 33554432 = x \div c
    BY <1>4, <2>1, SMT
  <2> QED
    BY <1>7, <1>8, <2>2, SMT

\* timespec64_to_jiffies: the ticks of the seconds and those of the rest,
\* rounded up; of more seconds than it has room for, the longest.
LEMMA TimespecIs ==
    ASSUME BuildValues, NEW sec \in Nat, NEW nsec \in Nat, nsec <= 999999999
    PROVE  timespec64_to_jiffies(sec, nsec) =
              IF sec < 10737418 THEN 100 * sec + ((nsec + 9999999) \div 10000000)
                                ELSE 1073741800
<1>1. PICK s \in Nat : s <= 10737418 /\ s = IF sec >= 10737418 THEN 10737418 ELSE sec
  BY SMT
<1>2. PICK n \in Nat : /\ n <= 1009999998
                       /\ n = IF sec >= 10737418 THEN 0 ELSE nsec + 10000000 - 1
  BY SMT
<1>3. PICK D \in Nat \ {0} : D = 2^(2 * IntBits) /\ D = 4294967296 * 4294967296
  BY BuildDouble, SMT
<1>4. PICK a \in Nat : a = s * 3355443200 /\ a <= 36028797018963968
  BY <1>1, SMT
<1>5. PICK b \in Nat : b = n * 1801439851 /\ b <= 2000000000000000000
  BY <1>2, SMT
<1>6. Ullong(a) = a /\ Ullong(b) = b
  <2>1. a < D /\ b < D
    BY <1>3, <1>4, <1>5, SMT
  <2>2. a % D = a /\ b % D = b
    BY <2>1, NotCut, SMT
  <2> QED
    BY <1>3, <2>2, SMT DEF Ullong
<1>7. PICK x \in Nat : x = b \div 536870912 /\ x < 4000000000
  <2>1. b \div 536870912 \in Nat
    BY SMT
  <2>2. b \div 536870912 < 4000000000
    BY <1>5, SMT
  <2> QED
    BY <2>1, <2>2, SMT
<1>8. Ullong(a + x) = a + x
  <2>1. a + x \in Nat /\ a + x < D
    BY <1>3, <1>4, <1>7, SMT
  <2>2. (a + x) % D = a + x
    BY <2>1, NotCut, SMT
  <2> QED
    BY <1>3, <2>2, SMT DEF Ullong
<1>9. PICK t \in Nat : t = n \div 10000000 /\ t <= 100
  BY <1>2, SMT
<1>10. (a + x) \div 33554432 = 100 * s + t
  <2>1. PICK h \in Int : h = 100 * s
    BY SMT
  <2>2. a + x = h * 33554432 + x
    BY <1>4, <2>1, SMT
  <2>3. 33554432 \in Nat \ {0} /\ x \in Int
    BY SMT
  <2>4. (h * 33554432 + x) \div 33554432 = h + (x \div 33554432)
    BY <2>3, DivOfSum, SMT
  <2>5. x \div 33554432 = t
    BY <1>2, <1>5, <1>7, <1>9, ScaledTicks, SMT
  <2> QED
    BY <2>1, <2>2, <2>4, <2>5, SMT
<1>11. Ulong(100 * s + t) = 100 * s + t
  <2>1. PICK D1 \in Nat \ {0} : D1 = 2^LongBits /\ D1 = 4294967296
    BY BuildWords, SMT
  <2>2. 100 * s + t \in Nat /\ 100 * s + t < D1
    BY <1>1, <1>9, <2>1, SMT
  <2>3. (100 * s + t) % D1 = 100 * s + t
    BY <2>2, NotCut, SMT
  <2> QED
    BY <2>1, <2>3, SMT DEF Ulong
<1>12. timespec64_to_jiffies(sec, nsec) = 100 * s + t
  <2>1. s = IF sec >= MAX_SEC_IN_JIFFIES THEN MAX_SEC_IN_JIFFIES ELSE sec
    BY <1>1, BuildWords, SMT
  <2>2. n = IF sec >= MAX_SEC_IN_JIFFIES THEN 0 ELSE nsec + TICK_NSEC - 1
    BY <1>2, BuildWords, SMT
  <2>3. timespec64_to_jiffies(sec, nsec) =
           Ulong(Ullong(Ullong(s * SEC_CONVERSION)
                     + (Ullong(n * NSEC_CONVERSION) \div 2^(NSEC_JIFFIE_SC - SEC_JIFFIE_SC)))
                 \div 2^SEC_JIFFIE_SC)
    BY <2>1, <2>2, SMT DEF timespec64_to_jiffies
  <2>4. s * SEC_CONVERSION = a /\ n * NSEC_CONVERSION = b
    BY <1>4, <1>5, BuildScales, SMT
  <2>5. b \div 2^(NSEC_JIFFIE_SC - SEC_JIFFIE_SC) = x
    BY <1>7, BuildScales, SMT
  <2>6. (a + x) \div 2^SEC_JIFFIE_SC = 100 * s + t
    BY <1>10, BuildScales, SMT
  <2> QED
    BY <1>6, <1>8, <1>11, <2>3, <2>4, <2>5, <2>6, SMT
<1>13. CASE sec >= 10737418
  BY <1>1, <1>2, <1>9, <1>12, <1>13, SMT
<1>14. CASE ~ (sec >= 10737418)
  BY <1>1, <1>2, <1>9, <1>12, <1>14, SMT
<1> QED
  BY <1>13, <1>14, SMT

\* The ticks of seconds and nanoseconds together.
LEMMA TicksTogether ==
    ASSUME NEW sec \in Nat, NEW nsec \in Nat
    PROVE  (sec * 1000000000 + nsec + 10000000 - 1) \div 10000000
              = 100 * sec + ((nsec + 9999999) \div 10000000)
<1>1. PICK h \in Int, x \in Int : h = 100 * sec /\ x = nsec + 9999999
  BY SMT
<1>2. (h * 10000000 + x) \div 10000000 = h + (x \div 10000000)
  BY DivOfSum, SMT
<1>3. sec * 1000000000 + nsec + 10000000 - 1 = h * 10000000 + x
  BY <1>1, SMT
<1> QED
  BY <1>1, <1>2, <1>3, SMT

\* timespec64_to_jiffies rounds up.
LEMMA TimespecUp ==
    ASSUME BuildValues, NEW sec \in Nat, NEW nsec \in Nat, nsec < NSEC_PER_SEC
    PROVE  timespec64_to_jiffies(sec, nsec) =
              IF sec < Limit THEN Ceil(sec * NSEC_PER_SEC + nsec, TICK_NSEC)
                             ELSE Limit * HZ
<1>1. /\ NSEC_PER_SEC = 1000000000 /\ TICK_NSEC = 10000000 /\ Limit = 10737418
      /\ Limit * HZ = 1073741800
  BY BuildWords, SMT DEF BuildValues
<1>2. nsec \in Nat /\ nsec <= 999999999
  BY <1>1, SMT
<1>3. Ceil(sec * NSEC_PER_SEC + nsec, TICK_NSEC)
         = 100 * sec + ((nsec + 9999999) \div 10000000)
  BY <1>1, <1>2, TicksTogether, SMT DEF Ceil
<1> QED
  BY <1>1, <1>2, <1>3, TimespecIs, SMT

\* timeval_to_jiffies rounds up.
LEMMA TimevalUp ==
    ASSUME BuildValues, NEW sec \in ulong, NEW usec \in Nat, usec < USEC_PER_SEC
    PROVE  timeval_to_jiffies(sec, usec) =
              IF sec < Limit
              THEN Ceil(sec * USEC_PER_SEC + usec, USEC_PER_SEC \div HZ)
              ELSE Limit * HZ
<1>1. /\ USEC_PER_SEC = 1000000 /\ USEC_PER_SEC \div HZ = 10000 /\ Limit = 10737418
      /\ NSEC_PER_USEC = 1000 /\ Limit * HZ = 1073741800
  BY BuildWords, SMT DEF BuildValues
<1>2. sec \in Nat /\ Ulong(sec) = sec
  BY BuildWords, SMT DEF Ulong, ulong
<1>3. usec \in Nat /\ usec <= 999999 /\ usec * 1000 \in Nat /\ usec * 1000 <= 999999999
  BY <1>1, SMT
<1>4. timeval_to_jiffies(sec, usec) = timespec64_to_jiffies(sec, usec * 1000)
  BY <1>1, <1>2, SMT DEF timeval_to_jiffies
<1>5. (usec * 1000 + 9999999) \div 10000000 = (usec + 9999) \div 10000
  BY <1>3, SMT
<1>6. Ceil(sec * USEC_PER_SEC + usec, USEC_PER_SEC \div HZ)
         = 100 * sec + ((usec + 9999) \div 10000)
  <2>1. PICK h \in Int, x \in Int : h = 100 * sec /\ x = usec + 9999
    BY <1>2, <1>3, SMT
  <2>2. (h * 10000 + x) \div 10000 = h + (x \div 10000)
    BY DivOfSum, SMT
  <2>3. sec * 1000000 + usec + 10000 - 1 = h * 10000 + x
    BY <1>2, <1>3, <2>1, SMT
  <2> QED
    BY <1>1, <2>1, <2>2, <2>3, SMT DEF Ceil
<1>7. timeval_to_jiffies(sec, usec) =
         IF sec < 10737418 THEN 100 * sec + ((usec * 1000 + 9999999) \div 10000000)
                           ELSE 1073741800
  BY <1>2, <1>3, <1>4, TimespecIs, SMT
<1>8. CASE sec < 10737418
  BY <1>1, <1>5, <1>6, <1>7, <1>8, SMT
<1>9. CASE ~ (sec < 10737418)
  BY <1>1, <1>7, <1>9, SMT
<1> QED
  BY <1>1, <1>8, <1>9, SMT

\* Seconds are counts, negative ones as what a u64 makes of them.
LEMMA SecondsTyped == Seconds \subseteq Nat
<1>1. IntBits + 2 \in Nat /\ 2 * IntBits \in Nat /\ 2 * IntBits >= 3 /\ 3 \in Nat
  BY WidthsAssumption
<1>2. PICK D \in Nat : D = 2^(2 * IntBits)
  BY <1>1, PowerType
<1>3. 2^3 <= 2^(2 * IntBits)
  BY <1>1, PowerDivides, Zenon
<1>4. D >= 8
  <2>1. 2^3 = 8
    OBVIOUS
  <2> QED
    BY <1>2, <1>3, <2>1
<1>5. (D - 8)..(D - 1) \subseteq Nat
  BY <1>4
<1>6. 0..2^(IntBits + 2) \subseteq Nat
  BY <1>1, PowerType
<1> QED
  BY <1>2, <1>5, <1>6, Zenon DEF Seconds

\* A conversion to jiffies gives the least timeout that lasts long enough.
LEMMA ToJiffiesRounds == ASSUME BuildValues, ToJiffies PROVE TimeoutsRoundUp'
<1>1. CASE \E m \in uint : Call("msecs", <<m>>, msecs_to_jiffies(m))
  <2>1. PICK m \in uint : Call("msecs", <<m>>, msecs_to_jiffies(m))
    BY <1>1, Zenon
  <2>2. call'.fn = "msecs" /\ call'.args[1] = m /\ call'.result = msecs_to_jiffies(m)
    BY <2>1 DEF Call
  <2>3. call'.result = IF m < 2^(IntBits - 1) THEN Ceil(m * HZ, MSEC_PER_SEC)
                                              ELSE MAX_JIFFY_OFFSET
    BY <2>2, MsecsUp, Zenon
  <2> QED
    BY <2>2, <2>3 DEF TimeoutsRoundUp, RoundsUp, UsecsNeverEarly, Called, Arg
<1>2. CASE \E u \in uint : Call("usecs", <<u>>, usecs_to_jiffies(u))
  <2>1. PICK u \in uint : Call("usecs", <<u>>, usecs_to_jiffies(u))
    BY <1>2, Zenon
  <2>2. call'.fn = "usecs" /\ call'.args[1] = u /\ call'.result = usecs_to_jiffies(u)
    BY <2>1 DEF Call
  <2>3. /\ call'.result >= Ceil(u, USEC_PER_SEC \div HZ)
        /\ u <= 2^IntBits - 2 * (USEC_PER_SEC \div HZ)
              => call'.result = Ceil(u, USEC_PER_SEC \div HZ)
    BY <2>2, UsecsUp, Zenon
  <2> QED
    BY <2>2, <2>3 DEF TimeoutsRoundUp, RoundsUp, UsecsNeverEarly, Called, Arg
<1>3. CASE \E sec \in Seconds, nsec \in 0..(NSEC_PER_SEC - 1) :
             Call("timespec", <<sec, nsec>>, timespec64_to_jiffies(sec, nsec))
  <2>1. PICK sec \in Seconds, nsec \in 0..(NSEC_PER_SEC - 1) :
             Call("timespec", <<sec, nsec>>, timespec64_to_jiffies(sec, nsec))
    BY <1>3, Zenon
  <2>2. /\ call'.fn = "timespec" /\ call'.args[1] = sec /\ call'.args[2] = nsec
        /\ call'.result = timespec64_to_jiffies(sec, nsec)
    BY <2>1 DEF Call
  <2>3. sec \in Nat /\ nsec \in Nat /\ nsec < NSEC_PER_SEC
    BY SecondsTyped, UnitsAssumption
  <2>4. call'.result = IF sec < Limit THEN Ceil(sec * NSEC_PER_SEC + nsec, TICK_NSEC)
                                      ELSE Limit * HZ
    BY <2>2, <2>3, TimespecUp, Zenon
  <2> QED
    BY <2>2, <2>4 DEF TimeoutsRoundUp, RoundsUp, UsecsNeverEarly, Called, Arg
<1>4. CASE \E sec \in ulong, usec \in 0..(USEC_PER_SEC - 1) :
             Call("timeval", <<sec, usec>>, timeval_to_jiffies(sec, usec))
  <2>1. PICK sec \in ulong, usec \in 0..(USEC_PER_SEC - 1) :
             Call("timeval", <<sec, usec>>, timeval_to_jiffies(sec, usec))
    BY <1>4, Zenon
  <2>2. /\ call'.fn = "timeval" /\ call'.args[1] = sec /\ call'.args[2] = usec
        /\ call'.result = timeval_to_jiffies(sec, usec)
    BY <2>1 DEF Call
  <2>3. usec \in Nat /\ usec < USEC_PER_SEC
    BY UnitsAssumption
  <2>4. call'.result = IF sec < Limit
                       THEN Ceil(sec * USEC_PER_SEC + usec, USEC_PER_SEC \div HZ)
                       ELSE Limit * HZ
    BY <2>2, <2>3, TimevalUp, Zenon
  <2> QED
    BY <2>2, <2>4 DEF TimeoutsRoundUp, RoundsUp, UsecsNeverEarly, Called, Arg
<1>5. CASE \/ \E n \in Counts : Call("nsecs64", <<n>>, nsecs_to_jiffies64(n))
           \/ \E n \in Counts : Call("nsecs", <<n>>, nsecs_to_jiffies(n))
  <2>1. call'.fn \in {"nsecs64", "nsecs"}
    BY <1>5 DEF Call
  <2> QED
    BY <2>1 DEF TimeoutsRoundUp, RoundsUp, UsecsNeverEarly, Called
<1> QED
  BY <1>1, <1>2, <1>3, <1>4, <1>5, Zenon DEF ToJiffies

\* There and back: jiffies that fit into the other unit.
LEMMA BackFromMsecs ==
    ASSUME BuildValues, NEW j \in ulong, (MSEC_PER_SEC \div HZ) * j < 2^(IntBits - 1)
    PROVE  msecs_to_jiffies(jiffies_to_msecs(j)) = j
<1>1. j \in Nat /\ MSEC_PER_SEC \div HZ = 10 /\ 10 * j < 2147483648
  BY BuildWords, SMT DEF ulong
<1>2. PICK D \in Nat \ {0} : D = 2^LongBits /\ D = 2^IntBits /\ D = 4294967296
  BY BuildWords, SMT
<1>3. PICK m \in Nat : m = 10 * j
  BY <1>1, SMT
<1>4. jiffies_to_msecs(j) = m
  <2>1. m < D
    BY <1>1, <1>2, <1>3, SMT
  <2>2. m % D = m
    BY <2>1, NotCut, SMT
  <2> QED
    BY <1>1, <1>2, <1>3, <2>2, SMT DEF jiffies_to_msecs, Uint
<1>5. RoundedMsecs(m) = j
  <2>1. PICK x \in Nat : x = m + 9 /\ x < D
    BY <1>1, <1>2, <1>3, SMT
  <2>2. x % D = x
    BY <2>1, NotCut, SMT
  <2>3. x \div 10 = j
    BY <1>1, <1>3, <2>1, SMT
  <2>4. m + 10 - 1 = x
    BY <2>1, SMT
  <2> QED
    BY <1>1, <1>2, <2>2, <2>3, <2>4, SMT DEF RoundedMsecs, Ulong
<1>6. ~ (m >= 2^(IntBits - 1))
  BY <1>1, <1>3, BuildWords, SMT
<1> QED
  BY <1>4, <1>5, <1>6, SMT DEF msecs_to_jiffies

\* The same of microseconds.
LEMMA BackFromUsecs ==
    ASSUME BuildValues, NEW j \in ulong,
           (USEC_PER_SEC \div HZ) * j <= 2^IntBits - 2 * (USEC_PER_SEC \div HZ)
    PROVE  usecs_to_jiffies(jiffies_to_usecs(j)) = j
<1>1. j \in Nat /\ USEC_PER_SEC \div HZ = 10000 /\ 10000 * j <= 4294947296
  BY BuildWords, SMT DEF ulong
<1>2. PICK D \in Nat \ {0} : D = 2^IntBits /\ D = 4294967296
  BY BuildWords, SMT
<1>3. PICK u \in Nat : u = 10000 * j
  BY <1>1, SMT
<1>4. u < D
  BY <1>1, <1>2, <1>3, SMT
<1>5. jiffies_to_usecs(j) = u
  <2>1. u % D = u
    BY <1>4, NotCut, SMT
  <2> QED
    BY <1>1, <1>2, <1>3, <2>1, SMT DEF jiffies_to_usecs, Uint
<1>6. u \in uint /\ u <= 2^IntBits - 2 * (USEC_PER_SEC \div HZ)
  BY <1>1, <1>2, <1>3, <1>4, SMT DEF uint
<1>7. usecs_to_jiffies(u) = Ceil(u, USEC_PER_SEC \div HZ)
  BY <1>6, UsecsUp, SMT
<1>8. Ceil(u, USEC_PER_SEC \div HZ) = j
  BY <1>1, <1>3, SMT DEF Ceil
<1> QED
  BY <1>5, <1>7, <1>8, SMT

\* A number of jiffies in seconds and nanoseconds, as long as a u64 has room
\* for these.
LEMMA InTimespec ==
    ASSUME BuildValues, NEW j \in Nat, j <= 1073741800
    PROVE  \E sec \in Nat, left \in Nat :
              /\ j = 100 * sec + left /\ left <= 99 /\ sec <= 10737418
              /\ sec = 10737418 => j = 1073741800
              /\ jiffies_to_timespec64(j) = [sec |-> sec, nsec |-> left * 10000000]
<1>1. PICK sec \in Nat, left \in Nat :
              /\ j = 100 * sec + left /\ left <= 99 /\ sec <= 10737418
              /\ sec = 10737418 => j = 1073741800
  <2>1. PICK sec \in Nat : sec = j \div 100
    BY SMT
  <2>2. PICK left \in Nat : left = j - 100 * sec /\ left <= 99
    BY <2>1, SMT
  <2> QED
    BY <2>1, <2>2, SMT
<1>2. PICK D \in Nat \ {0} : D = 2^(2 * IntBits) /\ D = 4294967296 * 4294967296
  BY BuildDouble, SMT
<1>3. PICK ns \in Nat : ns = j * 10000000 /\ ns < D
  BY <1>2, SMT
<1>4. Ullong(j * TICK_NSEC) = ns
  <2>1. ns % D = ns
    BY <1>3, NotCut, SMT
  <2> QED
    BY <1>2, <1>3, <2>1, BuildWords, SMT DEF Ullong
<1>5. ns \div NSEC_PER_SEC = sec /\ ns % NSEC_PER_SEC = left * 10000000
  <2>1. PICK m \in Nat \ {0} : m = 1000000000 /\ m = NSEC_PER_SEC
    BY SMT DEF BuildValues
  <2>2. PICK z : z = left * 10000000
    BY SMT
  <2>3. z \in 0 .. m - 1
    <3>1. z \in Nat /\ z < m
      BY <1>1, <2>1, <2>2, SMT
    <3> QED
      BY <3>1, SMT
  <2>4. (sec * m + z) \div m = sec /\ (sec * m + z) % m = z
    <3>1. sec \in Int
      BY SMT
    <3> QED
      BY <2>3, <3>1, DivModUnique, SMT
  <2>5. ns = sec * m + z
    BY <1>1, <1>3, <2>1, <2>2, SMT
  <2> QED
    BY <2>1, <2>2, <2>4, <2>5, SMT
<1>6. jiffies_to_timespec64(j) = [sec |-> sec, nsec |-> left * 10000000]
  BY <1>4, <1>5, SMT DEF jiffies_to_timespec64
<1> QED
  BY <1>1, <1>6, SMT

\* Back from a timespec.
LEMMA BackFromTimespec ==
    ASSUME BuildValues, NEW j \in ulong, j <= Limit * HZ
    PROVE  timespec64_to_jiffies(jiffies_to_timespec64(j).sec,
                                 jiffies_to_timespec64(j).nsec) = j
<1>1. j \in Nat /\ j <= 1073741800
  BY BuildWords, SMT DEF ulong, BuildValues
<1>2. PICK sec \in Nat, left \in Nat :
              /\ j = 100 * sec + left /\ left <= 99 /\ sec <= 10737418
              /\ sec = 10737418 => j = 1073741800
              /\ jiffies_to_timespec64(j) = [sec |-> sec, nsec |-> left * 10000000]
  BY <1>1, InTimespec, SMT
<1>3. PICK n \in Nat : n = left * 10000000 /\ n <= 990000000
  BY <1>2, SMT
<1>4. (n + 9999999) \div 10000000 = left
  BY <1>3, SMT
<1>5. timespec64_to_jiffies(sec, n) = j
  <2>1. timespec64_to_jiffies(sec, n) =
              IF sec < 10737418 THEN 100 * sec + ((n + 9999999) \div 10000000)
                                ELSE 1073741800
    <3>1. n <= 999999999
      BY <1>3, SMT
    <3> QED
      BY <3>1, TimespecIs, SMT
  <2> QED
    BY <1>2, <1>4, <2>1, SMT
<1>6. jiffies_to_timespec64(j).sec = sec /\ jiffies_to_timespec64(j).nsec = n
  BY <1>2, <1>3, SMT
<1> QED
  BY <1>5, <1>6, SMT

\* Back from a timeval: ticks are whole microseconds.
LEMMA BackFromTimeval ==
    ASSUME BuildValues, NEW j \in ulong, j <= Limit * HZ
    PROVE  timeval_to_jiffies(jiffies_to_timeval(j).sec,
                              jiffies_to_timeval(j).usec) = j
<1>1. j \in Nat /\ j <= 1073741800
  BY BuildWords, SMT DEF ulong, BuildValues
<1>2. PICK sec \in Nat, left \in Nat :
              /\ j = 100 * sec + left /\ left <= 99 /\ sec <= 10737418
              /\ sec = 10737418 => j = 1073741800
              /\ jiffies_to_timespec64(j) = [sec |-> sec, nsec |-> left * 10000000]
  BY <1>1, InTimespec, SMT
<1>3. PICK n \in Nat : n = left * 10000000 /\ n <= 990000000
  BY <1>2, SMT
<1>4. jiffies_to_timespec64(j).sec = sec /\ jiffies_to_timespec64(j).nsec = n
  BY <1>2, <1>3, SMT
<1>5. PICK us \in Nat : us = left * 10000
  BY SMT
<1>6. n \div 1000 = us /\ us * 1000 = n
  BY <1>3, <1>5, SMT
<1>7. jiffies_to_timeval(j).sec = sec /\ jiffies_to_timeval(j).usec = us
  <2>1. NSEC_PER_USEC = 1000
    BY BuildWords, SMT
  <2> QED
    BY <1>4, <1>6, <2>1, SMT DEF jiffies_to_timeval
<1>8. Ulong(sec) = sec
  <2>1. PICK D \in Nat \ {0} : D = 2^LongBits /\ D = 4294967296
    BY BuildWords, SMT
  <2>2. sec % D = sec
    BY <1>2, <2>1, NotCut, SMT
  <2> QED
    BY <2>1, <2>2, SMT DEF Ulong
<1>9. timeval_to_jiffies(sec, us) = timespec64_to_jiffies(sec, n)
  <2>1. us * NSEC_PER_USEC = n
    BY <1>6, BuildWords, SMT
  <2> QED
    BY <1>8, <2>1, SMT DEF timeval_to_jiffies
<1>10. timespec64_to_jiffies(sec, n) = j
  BY <1>1, <1>4, BackFromTimespec, SMT
<1> QED
  BY <1>7, <1>9, <1>10, SMT

\* A second is a whole number of ticks, so that TICK_NSEC rounds nothing.
LEMMA WholeTicks ==
    /\ NSEC_PER_SEC \div HZ \in Nat \ {0} /\ TICK_NSEC = NSEC_PER_SEC \div HZ
<1>1. HZ \in Nat \ {0} /\ NSEC_PER_SEC \in Nat \ {0} /\ NSEC_PER_SEC % HZ = 0
  BY UnitsAssumption
<1>2. PICK q \in Nat : q = NSEC_PER_SEC \div HZ /\ NSEC_PER_SEC = q * HZ + 0
  BY <1>1, DivNat
<1>3. PICK h \in Nat : h = HZ \div 2 /\ h < HZ
  BY <1>1
<1>4. (q * HZ + h) \div HZ = q
  <2>1. q \in Int /\ h \in 0 .. HZ - 1
    BY <1>1, <1>2, <1>3
  <2> QED
    BY <1>1, <2>1, DivModUnique, Zenon
<1>5. q # 0
  BY <1>1, <1>2
<1>6. NSEC_PER_SEC + HZ \div 2 = q * HZ + h
  BY <1>1, <1>2, <1>3
<1> QED
  BY <1>2, <1>4, <1>5, <1>6 DEF TICK_NSEC

\* Back from nanoseconds, and from these to a clock_t, for every HZ and width.
LEMMA BackFromNsecs ==
    ASSUME NEW j \in Nat, TICK_NSEC * j < 2^(2 * IntBits)
    PROVE  nsecs_to_jiffies64(jiffies64_to_nsecs(j)) = j
<1>1. PICK t \in Nat \ {0} : t = NSEC_PER_SEC \div HZ /\ t = TICK_NSEC
  BY WholeTicks
<1>2. PICK D \in Nat \ {0} : D = 2^(2 * IntBits)
  BY Widths, PowerType
<1>3. t * j \in Nat /\ t * j < D
  BY <1>1, <1>2
<1>4. (t * j) % D = t * j
  BY <1>3, NotCut
<1>5. jiffies64_to_nsecs(j) = t * j
  BY <1>1, <1>2, <1>4 DEF jiffies64_to_nsecs, Ullong
<1>6. (t * j) \div t = j
  <2>1. t * j = j * t + 0 /\ 0 \in 0 .. t - 1 /\ j \in Int
    BY <1>1
  <2> QED
    BY <2>1, DivModUnique
<1> QED
  BY <1>1, <1>5, <1>6 DEF nsecs_to_jiffies64

\* jiffies_to_nsecs is short as soon as the microseconds do not fit.
LEMMA NsecsShort ==
    ASSUME BuildValues, NEW j \in ulong
    PROVE  /\ jiffies_to_nsecs(j) <= jiffies64_to_nsecs(j)
           /\ (jiffies_to_nsecs(j) = jiffies64_to_nsecs(j))
                 <=> (j * (USEC_PER_SEC \div HZ) < 2^IntBits)
<1>1. j \in Nat /\ j <= 4294967295
  BY BuildWords, SMT DEF ulong
<1>2. PICK d \in Nat \ {0} : d = 2^IntBits /\ d = 4294967296
  BY BuildWords, SMT
<1>3. PICK D \in Nat \ {0} : D = 2^(2 * IntBits) /\ D = 4294967296 * 4294967296
  BY BuildDouble, SMT
<1>4. PICK w \in Nat : w = 10000 * j
  BY <1>1, SMT
<1>5. PICK q \in Nat, u \in Nat : u = w % d /\ w = q * d + u /\ u < d
  <2>1. /\ w \div d \in Nat /\ w % d \in 0 .. d - 1
        /\ w = (w \div d) * d + (w % d)
    BY DivNat, Zenon
  <2> QED
    BY <2>1, SMT
<1>6. jiffies_to_usecs(j) = u
  BY <1>2, <1>4, <1>5, BuildWords, SMT DEF jiffies_to_usecs, Uint
<1>7. PICK short \in Nat : short = u * 1000 /\ short < D
  BY <1>2, <1>3, <1>5, SMT
<1>8. jiffies_to_nsecs(j) = short
  <2>1. short % D = short
    BY <1>7, NotCut, SMT
  <2> QED
    BY <1>3, <1>6, <1>7, <2>1, BuildWords, SMT DEF jiffies_to_nsecs, Ullong
<1>9. PICK all \in Nat : all = 10000000 * j /\ all < D
  BY <1>1, <1>3, SMT
<1>10. jiffies64_to_nsecs(j) = all
  <2>1. all % D = all
    BY <1>9, NotCut, SMT
  <2> QED
    BY <1>3, <1>9, <2>1, BuildWords, SMT DEF jiffies64_to_nsecs, Ullong
<1>11. all = 1000 * w
  BY <1>1, <1>4, <1>9, SMT
<1>12. PICK c \in Nat : c = q * d
  BY <1>2, <1>5, SMT
<1>13. w = c + u
  BY <1>5, <1>12, SMT
<1>14. c = 0 <=> w < d
  <2>1. q = 0 => c = 0
    BY <1>12, SMT
  <2>2. q >= 1 => c >= d
    BY <1>12, SMT
  <2> QED
    BY <1>5, <1>13, <2>1, <2>2, SMT
<1>15. short <= all /\ (short = all <=> c = 0)
  BY <1>7, <1>11, <1>13, SMT
<1>16. j * (USEC_PER_SEC \div HZ) = w
  BY <1>1, <1>4, BuildWords, SMT
<1> QED
  BY <1>2, <1>8, <1>10, <1>14, <1>15, <1>16, SMT

\* What is asked there and back comes back.
LEMMA FromJiffiesAgree == ASSUME BuildValues, FromJiffies PROVE UnitsAgree'
<1>1. PICK j \in ulong :
          \/ Call("via msecs", <<j>>, msecs_to_jiffies(jiffies_to_msecs(j)))
          \/ Call("via usecs", <<j>>, usecs_to_jiffies(jiffies_to_usecs(j)))
          \/ LET ts == jiffies_to_timespec64(j)
             IN  Call("via timespec", <<j>>, timespec64_to_jiffies(ts.sec, ts.nsec))
          \/ LET tv == jiffies_to_timeval(j)
             IN  Call("via timeval", <<j>>, timeval_to_jiffies(tv.sec, tv.usec))
          \/ Call("via clock_t", <<j>>, clock_t_to_jiffies(jiffies_to_clock_t(j)))
          \/ Call("via nsecs", <<j>>, nsecs_to_jiffies(jiffies64_to_nsecs(j)))
  BY Zenon DEF FromJiffies
<1>2. CASE Call("via msecs", <<j>>, msecs_to_jiffies(jiffies_to_msecs(j)))
  <2>1. /\ call'.fn = "via msecs" /\ call'.args[1] = j
        /\ call'.result = msecs_to_jiffies(jiffies_to_msecs(j))
    BY <1>2 DEF Call
  <2>2. (MSEC_PER_SEC \div HZ) * j < 2^(IntBits - 1) => call'.result = j
    BY <2>1, BackFromMsecs, Zenon
  <2> QED
    BY <2>1, <2>2 DEF UnitsAgree, RoundTrip, NsecsAgree, Called, Arg
<1>3. CASE Call("via usecs", <<j>>, usecs_to_jiffies(jiffies_to_usecs(j)))
  <2>1. /\ call'.fn = "via usecs" /\ call'.args[1] = j
        /\ call'.result = usecs_to_jiffies(jiffies_to_usecs(j))
    BY <1>3 DEF Call
  <2>2. (USEC_PER_SEC \div HZ) * j <= 2^IntBits - 2 * (USEC_PER_SEC \div HZ)
           => call'.result = j
    BY <2>1, BackFromUsecs, Zenon
  <2> QED
    BY <2>1, <2>2 DEF UnitsAgree, RoundTrip, NsecsAgree, Called, Arg
<1>4. CASE LET ts == jiffies_to_timespec64(j)
           IN  Call("via timespec", <<j>>, timespec64_to_jiffies(ts.sec, ts.nsec))
  <2>1. /\ call'.fn = "via timespec" /\ call'.args[1] = j
        /\ call'.result = timespec64_to_jiffies(jiffies_to_timespec64(j).sec,
                                                jiffies_to_timespec64(j).nsec)
    BY <1>4 DEF Call
  <2>2. j <= Limit * HZ => call'.result = j
    BY <2>1, BackFromTimespec, Zenon
  <2> QED
    BY <2>1, <2>2 DEF UnitsAgree, RoundTrip, NsecsAgree, Called, Arg
<1>5. CASE LET tv == jiffies_to_timeval(j)
           IN  Call("via timeval", <<j>>, timeval_to_jiffies(tv.sec, tv.usec))
  <2>1. /\ call'.fn = "via timeval" /\ call'.args[1] = j
        /\ call'.result = timeval_to_jiffies(jiffies_to_timeval(j).sec,
                                             jiffies_to_timeval(j).usec)
    BY <1>5 DEF Call
  <2>2. j <= Limit * HZ => call'.result = j
    BY <2>1, BackFromTimeval, Zenon
  <2> QED
    BY <2>1, <2>2 DEF UnitsAgree, RoundTrip, NsecsAgree, Called, Arg
<1>6. CASE Call("via clock_t", <<j>>, clock_t_to_jiffies(jiffies_to_clock_t(j)))
  <2>1. /\ call'.fn = "via clock_t" /\ call'.args[1] = j
        /\ call'.result = clock_t_to_jiffies(jiffies_to_clock_t(j))
    BY <1>6 DEF Call
  <2>2. clock_t_to_jiffies(jiffies_to_clock_t(j)) = j
    <3>1. PICK d \in Nat : d = 2^LongBits
      BY Widths, PowerType
    <3>2. j \in Nat /\ j <= d - 1
      BY <3>1 DEF ulong
    <3>3. clock_t_to_jiffies(j) = IF j >= d - 1 THEN d - 1 ELSE j
      BY <3>1, Zenon DEF clock_t_to_jiffies
    <3> QED
      BY <3>1, <3>2, <3>3 DEF jiffies_to_clock_t
  <2> QED
    BY <2>1, <2>2 DEF UnitsAgree, RoundTrip, NsecsAgree, Called, Arg
<1>7. CASE Call("via nsecs", <<j>>, nsecs_to_jiffies(jiffies64_to_nsecs(j)))
  <2>1. /\ call'.fn = "via nsecs" /\ call'.args[1] = j
        /\ call'.result = nsecs_to_jiffies(jiffies64_to_nsecs(j))
    BY <1>7 DEF Call
  <2>2. TICK_NSEC * j < 2^(2 * IntBits) => call'.result = j
    <3>1. SUFFICES ASSUME TICK_NSEC * j < 2^(2 * IntBits) PROVE call'.result = j
      OBVIOUS
    <3>2. PICK d \in Nat \ {0} : d = 2^LongBits
      BY Widths, PowerType
    <3>3. j \in Nat /\ j < d
      BY <3>2 DEF ulong
    <3>4. nsecs_to_jiffies64(jiffies64_to_nsecs(j)) = j
      BY <3>1, <3>3, BackFromNsecs, Zenon
    <3>5. j % d = j
      BY <3>3, NotCut
    <3> QED
      BY <2>1, <3>2, <3>4, <3>5, Zenon DEF nsecs_to_jiffies, Ulong
  <2> QED
    BY <2>1, <2>2 DEF UnitsAgree, RoundTrip, NsecsAgree, Called, Arg
<1> QED
  BY <1>1, <1>2, <1>3, <1>4, <1>5, <1>6, <1>7, Zenon

\* Counts are naturals.
LEMMA CountsTyped == Counts \subseteq Nat
<1>1. /\ LongBits + 2 \in Nat /\ 2 * IntBits \in Nat /\ IntBits \in Nat /\ IntBits >= 3
      /\ 2 * IntBits >= 6 /\ 6 \in Nat
  BY WidthsAssumption
<1>2. PICK D \in Nat : D = 2^(2 * IntBits)
  BY <1>1, PowerType
<1>3. 2^6 <= 2^(2 * IntBits)
  BY <1>1, PowerDivides, Zenon
<1>4. D >= 64
  <2>1. 2^6 = 64
    OBVIOUS
  <2> QED
    BY <1>2, <1>3, <2>1
<1>5. (D - 64)..(D - 1) \subseteq Nat
  BY <1>4
<1>6. 0..2^(LongBits + 2) \subseteq Nat
  BY <1>1, PowerType
<1> QED
  BY <1>2, <1>5, <1>6, Zenon DEF Counts

\* The other conversions, which go on to nanoseconds or to a clock_t.
LEMMA OthersAgree == ASSUME BuildValues, Others PROVE UnitsAgree'
<1>1. CASE \E j \in ulong : Call("to nsecs", <<j>>, jiffies_to_nsecs(j))
  <2>1. PICK j \in ulong : Call("to nsecs", <<j>>, jiffies_to_nsecs(j))
    BY <1>1, Zenon
  <2>2. call'.fn = "to nsecs" /\ call'.args[1] = j /\ call'.result = jiffies_to_nsecs(j)
    BY <2>1 DEF Call
  <2>3. /\ call'.result <= jiffies64_to_nsecs(j)
        /\ (call'.result = jiffies64_to_nsecs(j))
              <=> (j * (USEC_PER_SEC \div HZ) < 2^IntBits)
    BY <2>2, NsecsShort, Zenon
  <2> QED
    BY <2>2, <2>3 DEF UnitsAgree, RoundTrip, NsecsAgree, Called, Arg
<1>2. CASE \E j \in Counts :
              \/ Call("to clock_t", <<j>>, nsec_to_clock_t(jiffies64_to_nsecs(j)))
              \/ Call("to clock64", <<j>>, jiffies_64_to_clock_t(j))
  <2>1. PICK j \in Counts :
              \/ Call("to clock_t", <<j>>, nsec_to_clock_t(jiffies64_to_nsecs(j)))
              \/ Call("to clock64", <<j>>, jiffies_64_to_clock_t(j))
    BY <1>2, Zenon
  <2>2. CASE Call("to clock_t", <<j>>, nsec_to_clock_t(jiffies64_to_nsecs(j)))
    <3>1. /\ call'.fn = "to clock_t" /\ call'.args[1] = j
          /\ call'.result = nsec_to_clock_t(jiffies64_to_nsecs(j))
      BY <2>2 DEF Call
    <3>2. nsec_to_clock_t(jiffies64_to_nsecs(j)) = nsecs_to_jiffies64(jiffies64_to_nsecs(j))
      BY Zenon DEF nsec_to_clock_t, nsecs_to_jiffies64
    <3>3. j \in Nat
      BY CountsTyped
    <3>4. TICK_NSEC * j < 2^(2 * IntBits) => call'.result = j
      BY <3>1, <3>2, <3>3, BackFromNsecs, Zenon
    <3> QED
      BY <3>1, <3>4 DEF UnitsAgree, RoundTrip, NsecsAgree, Called, Arg
  <2>3. CASE Call("to clock64", <<j>>, jiffies_64_to_clock_t(j))
    <3>1. call'.fn = "to clock64" /\ call'.args[1] = j /\ call'.result = j
      BY <2>3 DEF Call, jiffies_64_to_clock_t
    <3> QED
      BY <3>1 DEF UnitsAgree, RoundTrip, NsecsAgree, Called, Arg
  <2> QED
    BY <2>1, <2>2, <2>3, Zenon
<1>3. CASE \E j \in ulong : Call("delta", <<Signed(j, LongBits)>>,
                                 jiffies_delta_to_clock_t(Signed(j, LongBits)))
  <2>1. call'.fn = "delta"
    BY <1>3 DEF Call
  <2> QED
    BY <2>1 DEF UnitsAgree, RoundTrip, NsecsAgree, Called
<1> QED
  BY <1>1, <1>2, <1>3, Zenon DEF Others

\* TimeoutsRoundUp with the values of the build: msecs_to_jiffies,
\* usecs_to_jiffies, timespec64_to_jiffies and timeval_to_jiffies give the
\* least number of ticks that lasts as long as asked or, beyond what they can
\* hold, the longest timeout, for all arguments of 32 and 64 bits (jiffies.c).
THEOREM RoundedUp == BuildValues /\ ConvSpec => []TimeoutsRoundUp
<1> SUFFICES ASSUME BuildValues PROVE ConvSpec => []TimeoutsRoundUp
  OBVIOUS
<1>1. ConvInit => TimeoutsRoundUp
  BY DEF ConvInit, Idle, TimeoutsRoundUp, RoundsUp, UsecsNeverEarly, Called
<1>2. TimeoutsRoundUp /\ [ConvNext]_call => TimeoutsRoundUp'
  <2> SUFFICES ASSUME TimeoutsRoundUp, [ConvNext]_call
               PROVE  TimeoutsRoundUp'
    OBVIOUS
  <2>1. ASSUME call'.fn \notin ToCalls
        PROVE  TimeoutsRoundUp'
    BY <2>1 DEF ToCalls, TimeoutsRoundUp, RoundsUp, UsecsNeverEarly, Called
  <2>2. CASE ToJiffies
    BY <2>2, ToJiffiesRounds
  <2>3. CASE FromJiffies
    BY <2>1, <2>3, FromJiffiesNamed DEF BackCalls, ToCalls
  <2>4. CASE Others
    BY <2>1, <2>4, OthersNamed DEF UnitCalls, ToCalls
  <2>5. CASE Compare
    BY <2>1, <2>5, CompareNamed DEF Comparisons, ToCalls
  <2>6. CASE Compare64
    BY <2>1, <2>6, Compare64Named DEF Comparisons, ToCalls
  <2>7. CASE Return
    BY <2>1, <2>7 DEF Return, Idle, ToCalls
  <2>8. CASE UNCHANGED call
    BY <2>8, Zenon DEF TimeoutsRoundUp, RoundsUp, UsecsNeverEarly, Called, Arg
  <2> QED
    BY <2>2, <2>3, <2>4, <2>5, <2>6, <2>7, <2>8 DEF ConvNext
<1> QED
  BY <1>1, <1>2, PTL DEF ConvSpec

\* UnitsAgree with the values of the build: a number of jiffies that fits into
\* another unit comes back from it, and jiffies_to_nsecs is short of
\* jiffies64_to_nsecs just when the microseconds between do not fit (jiffies.c).
THEOREM UnitsRight == BuildValues /\ ConvSpec => []UnitsAgree
<1> SUFFICES ASSUME BuildValues PROVE ConvSpec => []UnitsAgree
  OBVIOUS
<1>1. ConvInit => UnitsAgree
  BY DEF ConvInit, Idle, UnitsAgree, RoundTrip, NsecsAgree, Called
<1>2. UnitsAgree /\ [ConvNext]_call => UnitsAgree'
  <2> SUFFICES ASSUME UnitsAgree, [ConvNext]_call
               PROVE  UnitsAgree'
    OBVIOUS
  <2>1. ASSUME call'.fn \notin BackCalls \cup UnitCalls
        PROVE  UnitsAgree'
    BY <2>1 DEF BackCalls, UnitCalls, UnitsAgree, RoundTrip, NsecsAgree, Called
  <2>2. CASE ToJiffies
    BY <2>1, <2>2, ToJiffiesNamed DEF ToCalls, BackCalls, UnitCalls
  <2>3. CASE FromJiffies
    BY <2>3, FromJiffiesAgree
  <2>4. CASE Others
    BY <2>4, OthersAgree
  <2>5. CASE Compare
    BY <2>1, <2>5, CompareNamed DEF Comparisons, BackCalls, UnitCalls
  <2>6. CASE Compare64
    BY <2>1, <2>6, Compare64Named DEF Comparisons, BackCalls, UnitCalls
  <2>7. CASE Return
    BY <2>1, <2>7 DEF Return, Idle, BackCalls, UnitCalls
  <2>8. CASE UNCHANGED call
    BY <2>8, Zenon DEF UnitsAgree, RoundTrip, NsecsAgree, Called, Arg
  <2> QED
    BY <2>2, <2>3, <2>4, <2>5, <2>6, <2>7, <2>8 DEF ConvNext
<1> QED
  BY <1>1, <1>2, PTL DEF ConvSpec
=============================================================================
