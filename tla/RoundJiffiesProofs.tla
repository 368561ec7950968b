------------------------- MODULE RoundJiffiesProofs -------------------------
(***************************************************************************)
(* Rounding keeps its promises for every length of a second, every skew    *)
(* and every width of a word, once the system has been up for a second.    *)
(***************************************************************************)
EXTENDS RoundJiffies, TLAPS

\* What fits in a word is not changed by being cut to it.
LEMMA FitsWord ==
    ASSUME NEW x \in Nat, x < WORD
    PROVE  x % WORD = x
BY RoundAssumption

\* Division with a remainder, and the remainder of a multiple.
LEMMA Remainder ==
    ASSUME NEW n \in Nat \ {0}, NEW x \in Nat
    PROVE  /\ x \div n \in Nat
           /\ x % n \in 0 .. n - 1
           /\ x = n * (x \div n) + (x % n)
OBVIOUS

\* A multiple leaves no remainder.
LEMMA MultipleMod ==
    ASSUME NEW n \in Nat \ {0}, NEW q \in Nat
    PROVE  (n * q) % n = 0
<1> DEFINE y == n * q
           p == y \div n
           r == y % n
<1>1. y \in Nat
    OBVIOUS
<1>2. p \in Nat /\ r \in 0 .. n - 1 /\ y = n * p + r
    BY <1>1, Remainder
<1>3. n * (q - p) = r
    BY <1>2
<1>4. q - p < 1
    <2>1. ASSUME q - p >= 1 PROVE n * (q - p) >= n
        BY <1>2, <2>1
    <2> QED BY <1>2, <1>3, <2>1
<1>5. q - p > -1
    <2>1. ASSUME q - p <= -1 PROVE n * (q - p) <= -n
        BY <1>2, <2>1
    <2> QED BY <1>2, <1>3, <2>1
<1>6. q - p = 0
    BY <1>2, <1>4, <1>5
<1> QED BY <1>2, <1>3, <1>6

\* Taking the remainder away leaves a multiple, and so does one unit more.
LEMMA WholeMultiples ==
    ASSUME NEW n \in Nat \ {0}, NEW x \in Nat
    PROVE  /\ (x - (x % n)) % n = 0
           /\ (x - (x % n) + n) % n = 0
<1> DEFINE q == x \div n
           r == x % n
<1>1. q \in Nat /\ r \in 0 .. n - 1 /\ x = n * q + r
    BY Remainder
<1> HIDE DEF q, r
<1>2. x - r = n * q
    BY <1>1
<1>3. n * q + n = n * (q + 1)
    BY <1>1
<1>4. x - r + n = n * (q + 1)
    BY <1>1, <1>2, <1>3
<1>5. q + 1 \in Nat
    BY <1>1
<1>6. (n * q) % n = 0 /\ (n * (q + 1)) % n = 0
    BY <1>1, <1>5, MultipleMod
<1>7. (x - r) % n = 0 /\ (x - r + n) % n = 0
    BY <1>2, <1>4, <1>6
<1> QED BY <1>7 DEF r

\* The conversions round_jiffies_common makes, where no word wraps.
LEMMA RoundsNear ==
    ASSUME NEW j \in Nat, NEW c \in Cpus, NEW up \in BOOLEAN,
           j >= HZ, j + 3 * c + HZ < WORD
    PROVE  /\ Rounded(j, c, up) \in 0 .. WORD - 1
           /\ (Rounded(j, c, up) + 3 * c) % HZ = 0
           /\ Rounded(j, c, up) - j \in 1 - HZ .. HZ
           /\ Rounded(j, c, up) > j - (HZ \div 4)
           /\ up => Rounded(j, c, up) >= j
<1> DEFINE s == j + 3 * c
           rem == s % HZ
           down == rem < HZ \div 4 /\ ~ up
           whole == IF down THEN s - rem ELSE s - rem + HZ
<1>1. HZ \in Nat \ {0} /\ c \in Nat /\ s \in Nat /\ s < WORD /\ HZ \div 4 \in Nat
    BY RoundAssumption
<1>2. (j + c * 3) % WORD = s
    BY <1>1, FitsWord
<1>3. rem \in 0 .. HZ - 1
    BY <1>1, Remainder
<1>4. s - rem + HZ \in Nat /\ s - rem + HZ < WORD
    <2>1. WORD \in Nat /\ s + HZ < WORD
        BY <1>1, RoundAssumption
    <2> HIDE DEF rem, s
    <2> QED BY <1>1, <1>3, <2>1
<1>5. (s - rem + HZ) % WORD = s - rem + HZ
    BY <1>4, FitsWord
<1>6. Rounded(j, c, up) = (whole - 3 * c) % WORD
    BY <1>1, <1>2, <1>5 DEF Rounded
<1>7. whole % HZ = 0
    <2>1. (s - rem) % HZ = 0 /\ (s - rem + HZ) % HZ = 0
        BY <1>1, WholeMultiples
    <2> HIDE DEF s, rem, down
    <2> QED BY <2>1
<1> HIDE DEF rem, s
<1>8. /\ whole - 3 * c \in Nat
      /\ whole - 3 * c < WORD
      /\ whole - 3 * c - j \in 1 - HZ .. HZ
      /\ whole - 3 * c > j - (HZ \div 4)
      /\ up => whole - 3 * c >= j
    <2>1. s = j + 3 * c /\ WORD \in Nat
        BY RoundAssumption DEF s
    <2> DEFINE quarter == HZ \div 4
    <2>2. quarter \in Nat /\ quarter <= HZ
        BY <1>1
    <2>3. down <=> rem < quarter /\ ~ up
        OBVIOUS
    <2>4. whole = IF down THEN s - rem ELSE s - rem + HZ
        OBVIOUS
    <2> HIDE DEF quarter, down, whole
    <2>5. CASE down
        <3>1. whole - 3 * c = j - rem /\ rem < quarter
            BY <1>1, <1>3, <2>1, <2>3, <2>4, <2>5
        <3>2. ~ up
            BY <2>3, <2>5
        <3>3. j - rem > j - quarter /\ j - rem >= 1
            BY <1>1, <1>3, <2>2, <3>1
        <3> QED BY <1>1, <1>3, <2>1, <2>2, <3>1, <3>2, <3>3 DEF quarter
    <2>6. CASE ~ down
        <3>1. whole - 3 * c = j - rem + HZ
            BY <1>1, <1>3, <2>1, <2>4, <2>6
        <3>2. j - rem + HZ > j - quarter
            BY <1>1, <1>3, <2>2
        <3> QED BY <1>1, <1>3, <2>1, <3>1, <3>2 DEF quarter
    <2> QED BY <2>5, <2>6
<1>9. whole \in Int
    BY <1>1, <1>3
<1> HIDE DEF whole
<1>10. Rounded(j, c, up) = whole - 3 * c
    BY <1>6, <1>8, FitsWord
<1>11. Rounded(j, c, up) + 3 * c = whole
    BY <1>1, <1>9, <1>10
<1>12. WORD \in Nat
    BY RoundAssumption
<1> QED BY <1>7, <1>8, <1>10, <1>11, <1>12
-----------------------------------------------------------------------------
\* RoundInv holds initially, if the system has been up for a second.
LEMMA RoundInvInit == UpForASecond /\ RoundInit => RoundInv
<1> SUFFICES ASSUME UpForASecond, RoundInit PROVE RoundInv
    OBVIOUS
<1>1. jiffies \in 0 .. JIFFIES_MAX /\ jiffies >= HZ
    BY RoundAssumption DEF UpForASecond, RoundInit
<1>2. 0 \in 0 .. WORD - 1
    BY RoundAssumption
<1> QED BY <1>1, <1>2 DEF RoundInit, RoundInv, RoundTypeOK

\* In a call no sum of jiffies and a timeout wraps.
LEMMA NoWrap ==
    ASSUME RoundTypeOK, NEW d \in Spans, NEW c \in Cpus
    PROVE  /\ jiffies \in Nat /\ d \in Nat /\ c \in Nat
           /\ jiffies + d \in Nat
           /\ jiffies + d + 3 * c + HZ < WORD
           /\ (d + jiffies) % WORD = jiffies + d
<1>1. /\ jiffies \in Nat /\ d \in Nat /\ c \in Nat
      /\ HZ \in Nat /\ JIFFIES_MAX \in Nat /\ jiffies <= JIFFIES_MAX
    BY RoundAssumption DEF RoundTypeOK
<1>2. JIFFIES_MAX + d + 3 * c + HZ < WORD
    BY RoundAssumption
<1>3. jiffies + d + 3 * c + HZ < WORD /\ d + jiffies < WORD
    BY <1>1, <1>2, RoundAssumption
<1>4. (d + jiffies) % WORD = d + jiffies
    BY <1>1, <1>3, FitsWord
<1> QED BY <1>1, <1>3, <1>4

\* What the result of a call stands for: the rounded timeout, if it is ahead
\* of jiffies, and the caller's own otherwise.
LEMMA Returned ==
    ASSUME RoundInv, RoundReturn
    PROVE  /\ result' \in 0 .. WORD - 1
           /\ Target' = IF Rounded(call.j, call.cpu, call.force_up) <= jiffies
                        THEN call.j
                        ELSE Rounded(call.j, call.cpu, call.force_up)
<1> DEFINE r == Rounded(call.j, call.cpu, call.force_up)
           x == IF r <= jiffies THEN call.j ELSE r
<1>1. /\ call.j \in 0 .. WORD - 1 /\ call.j0 \in 0 .. WORD - 1
      /\ call.j >= HZ /\ call.j + 3 * call.cpu + HZ < WORD
      /\ call.j0 <= jiffies /\ call.j0 <= call.j
      /\ jiffies \in Int
      /\ result' = (x - call.j0) % WORD
      /\ call' = call
    <2>1. roundPc = "reads"
        BY DEF RoundReturn
    <2>2. call \in RoundCalls \/ call = NoCall
        BY DEF RoundInv, RoundTypeOK
    <2>3. call.j \in 0 .. WORD - 1 /\ call.j0 \in 0 .. WORD - 1
        BY <2>2, RoundAssumption DEF RoundCalls, NoCall
    <2> QED BY <2>1, <2>3 DEF RoundReturn, RoundInv, RoundTypeOK
<1>2. r \in 0 .. WORD - 1
    <2>1. CASE call \in RoundCalls
        <3>1. call.j \in Nat /\ call.cpu \in Cpus /\ call.force_up \in BOOLEAN
            BY <2>1 DEF RoundCalls
        <3> QED BY <1>1, <3>1, RoundsNear
    <2>2. CASE call = NoCall
        <3>1. call.j = 0 /\ HZ > 0 /\ HZ \in Nat
            BY <2>2, RoundAssumption DEF NoCall
        <3>2. FALSE
            BY <1>1, <3>1
        <3> QED BY <3>2
    <2> QED BY <2>1, <2>2 DEF RoundInv, RoundTypeOK
<1> HIDE DEF r
<1>3. x \in 0 .. WORD - 1 /\ x >= call.j0
    BY <1>1, <1>2
<1> HIDE DEF x
<1>4. WORD \in Nat
    BY RoundAssumption
<1>5. x - call.j0 \in Nat /\ x - call.j0 < WORD /\ x \in Nat /\ x < WORD
    BY <1>1, <1>3, <1>4
<1>6. result' = x - call.j0
    BY <1>1, <1>5, FitsWord
<1>7. result' + call.j0 = x
    BY <1>1, <1>3, <1>6
<1>8. Target' = x
    BY <1>1, <1>5, <1>7, FitsWord DEF Target
<1>9. result' \in 0 .. WORD - 1
    BY <1>4, <1>5, <1>6
<1> QED BY <1>8, <1>9 DEF x, r

\* Every step keeps RoundInv.
LEMMA RoundStep == RoundInv /\ [RoundNext]_roundVars => RoundInv'
<1> SUFFICES ASSUME RoundInv, [RoundNext]_roundVars PROVE RoundInv'
    OBVIOUS
<1> DEFINE r == Rounded(call.j, call.cpu, call.force_up)
<1>0. /\ HZ \in Nat \ {0} /\ WORD \in Nat /\ JIFFIES_MAX \in Nat
      /\ jiffies \in 0 .. JIFFIES_MAX /\ jiffies >= HZ
    BY RoundAssumption DEF RoundInv, RoundTypeOK
<1>1. CASE UNCHANGED roundVars
    BY <1>1 DEF roundVars, RoundInv, RoundTypeOK, Target
<1>2. ASSUME NEW k \in Advances, Tick(k) PROVE RoundInv'
    <2>1. k \in Nat
        BY RoundAssumption
    <2>2. jiffies' \in 0 .. JIFFIES_MAX /\ jiffies' >= jiffies
        BY <1>0, <1>2, <2>1 DEF Tick
    <2>3. UNCHANGED <<roundPc, call, result>>
        BY <1>2 DEF Tick
    <2>4. RoundTypeOK'
        BY <2>2, <2>3 DEF RoundInv, RoundTypeOK
    <2>5. (roundPc # "idle" =>
              /\ call.j >= HZ /\ call.j + 3 * call.cpu + HZ < WORD
              /\ call.j0 <= jiffies /\ call.j0 <= call.j)'
        <3>1. call.j0 \in Int
            BY RoundAssumption DEF RoundInv, RoundTypeOK, RoundCalls, NoCall
        <3> QED BY <1>0, <2>2, <2>3, <3>1 DEF RoundInv
    <2>6. ASSUME roundPc = "done", Target = call.j, r <= jiffies
          PROVE  r <= jiffies'
        <3>1. CASE call \in RoundCalls
            <4>1. call.j \in Nat /\ call.cpu \in Cpus /\ call.force_up \in BOOLEAN
                BY <3>1 DEF RoundCalls
            <4>2. r \in 0 .. WORD - 1
                BY <2>6, <4>1, RoundsNear DEF RoundInv
            <4> HIDE DEF r
            <4> QED BY <1>0, <2>2, <2>6, <4>2
        <3>2. CASE call = NoCall
            BY <1>0, <2>6, <3>2 DEF RoundInv, NoCall
        <3> QED BY <3>1, <3>2 DEF RoundInv, RoundTypeOK
    <2> QED BY <1>0, <2>2, <2>3, <2>4, <2>5, <2>6 DEF RoundInv, Target
<1>3. ASSUME NEW d \in Spans, NEW c \in Cpus, NEW up \in BOOLEAN,
             Absolute(d, c, up) \/ Relative(d, c, up)
      PROVE  RoundInv'
    <2>1. /\ d \in Nat /\ c \in Nat /\ jiffies + d \in Nat
          /\ jiffies + d + 3 * c + HZ < WORD
          /\ (d + jiffies) % WORD = jiffies + d
        BY NoWrap DEF RoundInv
    <2>2. 0 \in 0 .. WORD - 1 /\ jiffies \in 0 .. WORD - 1
          /\ jiffies + d \in 0 .. WORD - 1
        BY <1>0, <2>1
    <2>3. \E j0 \in {0, jiffies} :
             call' = [j |-> jiffies + d, j0 |-> j0, cpu |-> c, force_up |-> up]
        BY <1>3, <2>1 DEF Absolute, Relative
    <2>4. PICK j0 \in {0, jiffies} :
             call' = [j |-> jiffies + d, j0 |-> j0, cpu |-> c, force_up |-> up]
        BY <2>3
    <2>5. roundPc' = "reads" /\ jiffies' = jiffies /\ result' = result
        BY <1>3 DEF Absolute, Relative
    <2>6. call' \in RoundCalls
        BY <2>2, <2>4 DEF RoundCalls
    <2>7. RoundTypeOK'
        BY <2>5, <2>6 DEF RoundInv, RoundTypeOK
    <2>8. /\ call'.j = jiffies + d /\ call'.j0 = j0 /\ call'.cpu = c
        BY <2>4
    <2>9. call'.j0 <= jiffies /\ call'.j0 <= call'.j
        BY <1>0, <2>1, <2>8
    <2> QED BY <1>0, <2>1, <2>5, <2>7, <2>8, <2>9 DEF RoundInv
<1>4. CASE RoundReturn
    <2>1. /\ roundPc = "reads" /\ roundPc' = "done" /\ jiffies' = jiffies /\ call' = call
        BY <1>4 DEF RoundReturn
    <2>2. /\ result' \in 0 .. WORD - 1
          /\ Target' = IF r <= jiffies THEN call.j ELSE r
        BY <1>4, Returned
    <2>3. RoundTypeOK'
        BY <2>1, <2>2 DEF RoundInv, RoundTypeOK
    <2>4. r' = r
        BY <2>1
    <2> HIDE DEF r
    <2>5. Target' = r \/ (Target' = call.j /\ r <= jiffies)
        BY <2>2
    <2> QED BY <2>1, <2>3, <2>4, <2>5 DEF RoundInv, r
<1>5. CASE RoundLeave
    <2>1. 0 \in 0 .. WORD - 1
        BY RoundAssumption
    <2> QED BY <1>5, <2>1 DEF RoundLeave, RoundInv, RoundTypeOK
<1> QED BY <1>1, <1>2, <1>3, <1>4, <1>5 DEF RoundNext, RoundEither, RoundUp

\* RoundInv is invariant.
LEMMA RoundInvariance == ASSUME UpForASecond PROVE RoundSpec => []RoundInv
BY RoundInvInit, RoundStep, PTL DEF RoundSpec
-----------------------------------------------------------------------------
\* A call that is done was one: its arguments are in range and its timeout is
\* what RoundsNear says of it.
LEMMA DoneNear ==
    ASSUME RoundInv, roundPc = "done"
    PROVE  LET r == Rounded(call.j, call.cpu, call.force_up) IN
           /\ call.j \in Nat /\ r \in Nat /\ call.force_up \in BOOLEAN
           /\ (r + 3 * call.cpu) % HZ = 0
           /\ r - call.j \in 1 - HZ .. HZ
           /\ r > call.j - (HZ \div 4)
           /\ call.force_up => r >= call.j
           /\ Target = r \/ (Target = call.j /\ r <= jiffies)
<1>1. call \in RoundCalls
    <2>1. call # NoCall
        BY RoundAssumption DEF RoundInv, NoCall
    <2> QED BY <2>1 DEF RoundInv, RoundTypeOK
<1>2. call.j \in Nat /\ call.cpu \in Cpus /\ call.force_up \in BOOLEAN
    BY <1>1 DEF RoundCalls
<1>3. call.j >= HZ /\ call.j + 3 * call.cpu + HZ < WORD
    BY DEF RoundInv
<1>4. \/ Target = Rounded(call.j, call.cpu, call.force_up)
      \/ /\ Target = call.j
         /\ Rounded(call.j, call.cpu, call.force_up) <= jiffies
    BY DEF RoundInv
<1> QED BY <1>2, <1>3, <1>4, RoundsNear

\* round_jiffies_common (timer.c:120-156) moves a timeout by less than a
\* quarter of a second towards the present and by no more than a second away.
THEOREM NearInvariance == ASSUME UpForASecond PROVE RoundSpec => []StaysNear
<1>1. RoundInv => StaysNear
    <2> SUFFICES ASSUME RoundInv, roundPc = "done" PROVE StaysNear
        BY DEF StaysNear
    <2> DEFINE r == Rounded(call.j, call.cpu, call.force_up)
    <2>1. /\ call.j \in Nat /\ r \in Nat
          /\ r - call.j \in 1 - HZ .. HZ
          /\ r > call.j - (HZ \div 4)
          /\ call.force_up => r >= call.j
          /\ Target = r \/ Target = call.j
        BY DoneNear
    <2> HIDE DEF r
    <2> DEFINE quarter == HZ \div 4
    <2>2. HZ \in Nat \ {0} /\ quarter \in Nat /\ quarter > 0
        BY RoundAssumption
    <2> HIDE DEF quarter
    <2>3. CASE Target = r
        BY <2>1, <2>3 DEF StaysNear
    <2>4. CASE Target = call.j
        <3>1. Target > call.j - quarter /\ Target - call.j \in 1 - HZ .. HZ
            BY <2>1, <2>2, <2>4
        <3>2. Target >= call.j
            BY <2>1, <2>4
        <3> QED BY <3>1, <3>2 DEF StaysNear, quarter
    <2> QED BY <2>1, <2>3, <2>4
<1> QED BY <1>1, RoundInvariance, PTL

\* The same function returns a whole second, skewed by the processor, or else
\* the caller's own timeout, and that only if the whole second is over.
THEOREM TogetherInvariance == ASSUME UpForASecond PROVE RoundSpec => []TogetherOrOver
<1>1. RoundInv => TogetherOrOver
    BY DoneNear DEF TogetherOrOver
<1> QED BY <1>1, RoundInvariance, PTL

\* A timeout that is ahead when round_jiffies_common reads jiffies stays ahead
\* of it, whatever the clock did since the relative functions read it.
THEOREM NothingEaten == ASSUME UpForASecond PROVE RoundSpec => NotEaten
<1>1. RoundInv /\ [RoundNext]_roundVars =>
          [RoundReturn => (call.j > jiffies => Target' > jiffies)]_roundVars
    <2> SUFFICES ASSUME RoundInv, RoundReturn, call.j > jiffies
                 PROVE  Target' > jiffies
        OBVIOUS
    <2> DEFINE r == Rounded(call.j, call.cpu, call.force_up)
    <2>1. Target' = IF r <= jiffies THEN call.j ELSE r
        BY Returned
    <2>2. r \in Int /\ jiffies \in Int
        <3>1. call \in RoundCalls
            <4>1. call # NoCall
                BY RoundAssumption DEF RoundInv, RoundReturn, NoCall
            <4> QED BY <4>1 DEF RoundInv, RoundTypeOK
        <3>2. call.j \in Nat /\ call.cpu \in Cpus /\ call.force_up \in BOOLEAN
            BY <3>1 DEF RoundCalls
        <3>3. call.j >= HZ /\ call.j + 3 * call.cpu + HZ < WORD
            BY DEF RoundInv, RoundReturn
        <3>4. r \in 0 .. WORD - 1
            BY <3>2, <3>3, RoundsNear
        <3> QED BY <3>4 DEF RoundInv, RoundTypeOK
    <2> HIDE DEF r
    <2> QED BY <2>1, <2>2
<1> QED BY <1>1, RoundInvariance, PTL DEF RoundSpec, NotEaten

\* The type invariant of the model holds for every instance.
THEOREM RoundTypes == ASSUME UpForASecond PROVE RoundSpec => []RoundTypeOK
<1>1. RoundInv => RoundTypeOK
    BY DEF RoundInv
<1> QED BY <1>1, RoundInvariance, PTL
=============================================================================
