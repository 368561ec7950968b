-------------------------- MODULE TimerWheelProofs --------------------------
(***************************************************************************)
(* Proofs about the timer wheel, for every number of timers, wheel size,   *)
(* word width and set of client timeouts; the last part is about the order *)
(* in which timers run (TimerFifo).                                        *)
(***************************************************************************)
EXTENDS TimerFifo, SequenceTheorems, TLAPS

(***************************************************************************)
(* Sequences as duplicate-free lists: what linking and unlinking do to the *)
(* set of linked elements.                                                 *)
(***************************************************************************)
LEMMA RemoveAtProperties ==
    ASSUME NEW S, NEW q \in Seq(S), NEW i \in 1 .. Len(q)
    PROVE  /\ RemoveAt(q, i) \in Seq(S)
           /\ Len(RemoveAt(q, i)) = Len(q) - 1
           /\ \A j \in 1 .. Len(q) - 1 :
                 RemoveAt(q, i)[j] = q[IF j < i THEN j ELSE j + 1]
<1> DEFINE a == SubSeq(q, 1, i - 1)
           b == SubSeq(q, i + 1, Len(q))
<1>1. a \in Seq(S) /\ Len(a) = i - 1 /\ \A j \in 1 .. i - 1 : a[j] = q[j]
  OBVIOUS
<1>2. /\ b \in Seq(S)
      /\ Len(b) = Len(q) - i
      /\ \A j \in 1 .. Len(q) - i : b[j] = q[i + j]
  OBVIOUS
<1>3. RemoveAt(q, i) = a \o b
  BY DEF RemoveAt
<1> HIDE DEF a, b
<1>4. a \o b \in Seq(S) /\ Len(a \o b) = Len(q) - 1
  <2>1. Len(q) \in Nat
    OBVIOUS
  <2>2. a \o b \in Seq(S)
    BY <1>1, <1>2
  <2>3. Len(a \o b) = Len(a) + Len(b)
    BY <1>1, <1>2, ConcatProperties
  <2> QED
    BY <1>1, <1>2, <2>1, <2>2, <2>3
<1>5. ASSUME NEW j \in 1 .. Len(q) - 1
      PROVE  (a \o b)[j] = q[IF j < i THEN j ELSE j + 1]
  <2>1. CASE j < i
    BY <1>1, <1>2, <2>1
  <2>2. CASE ~ (j < i)
    <3>1. (a \o b)[j] = b[j - (i - 1)]
      BY <1>1, <1>2, <2>2
    <3>2. b[j - (i - 1)] = q[i + (j - (i - 1))]
      BY <1>2, <2>2
    <3>3. i + (j - (i - 1)) = j + 1
      OBVIOUS
    <3> QED
      BY <3>1, <3>2, <3>3, <2>2
  <2> QED
    BY <2>1, <2>2
<1> QED
  BY <1>3, <1>4, <1>5

\* Removing an element of a duplicate-free list removes just that element.
LEMMA RemoveFirstProperties ==
    ASSUME NEW S, NEW q \in Seq(S), IsInjective(q), NEW e
    PROVE  /\ RemoveFirst(q, e) \in Seq(S)
           /\ IsInjective(RemoveFirst(q, e))
           /\ Range(RemoveFirst(q, e)) = Range(q) \ {e}
<1>1. CASE ~ \E i \in 1 .. Len(q) : q[i] = e
  <2>1. RemoveFirst(q, e) = q
    BY <1>1 DEF RemoveFirst
  <2>2. e \notin Range(q)
    BY <1>1 DEF Range
  <2> QED
    BY <2>1, <2>2
<1>2. CASE \E i \in 1 .. Len(q) : q[i] = e
  <2>1. PICK i \in 1 .. Len(q) : q[i] = e
    BY <1>2
  <2>2. \A j \in 1 .. Len(q) : q[j] = e => j = i
    BY <2>1 DEF IsInjective
  <2>3. {j \in 1 .. Len(q) : q[j] = e} = {i}
    BY <2>1, <2>2
  <2>4. Min({i}) = i
    BY DEF Min
  <2>5. RemoveFirst(q, e) = RemoveAt(q, i)
    BY <1>2, <2>3, <2>4 DEF RemoveFirst, SelectInSeq
  <2> DEFINE r == RemoveAt(q, i)
  <2>6. /\ r \in Seq(S)
        /\ Len(r) = Len(q) - 1
        /\ \A j \in 1 .. Len(q) - 1 : r[j] = q[IF j < i THEN j ELSE j + 1]
    BY RemoveAtProperties
  <2> HIDE DEF r
  <2>7. IsInjective(r)
    <3>1. SUFFICES ASSUME NEW j \in 1 .. Len(q) - 1,
                          NEW k \in 1 .. Len(q) - 1, r[j] = r[k]
                   PROVE  j = k
      BY <2>6 DEF IsInjective
    <3>2. q[IF j < i THEN j ELSE j + 1] = q[IF k < i THEN k ELSE k + 1]
      BY <2>6, <3>1
    <3>3. (IF j < i THEN j ELSE j + 1) = (IF k < i THEN k ELSE k + 1)
      BY <3>2 DEF IsInjective
    <3> QED
      BY <3>3
  <2>8. Range(r) \subseteq Range(q) \ {e}
    BY <2>2, <2>6 DEF Range
  <2>9. Range(q) \ {e} \subseteq Range(r)
    <3>1. SUFFICES ASSUME NEW j \in 1 .. Len(q), q[j] # e
                   PROVE  q[j] \in Range(r)
      BY DEF Range
    <3>2. CASE j < i
      BY <2>6, <3>2 DEF Range
    <3>3. CASE j > i
      <4>1. j - 1 \in 1 .. Len(q) - 1 /\ r[j - 1] = q[j]
        BY <2>6, <3>3
      <4> QED
        BY <2>6, <4>1 DEF Range
    <3> QED
      BY <2>1, <3>1, <3>2, <3>3
  <2> QED
    BY <2>5, <2>6, <2>7, <2>8, <2>9 DEF r
<1> QED
  BY <1>1, <1>2

\* list_add_tail of a timer that is not on the list.
LEMMA AppendKeepsLists ==
    ASSUME NEW S, NEW q \in Seq(S), IsInjective(q), NEW e \in S \ Range(q)
    PROVE  /\ Append(q, e) \in Seq(S)
           /\ IsInjective(Append(q, e))
           /\ Range(Append(q, e)) = Range(q) \cup {e}
<1> DEFINE r == Append(q, e)
<1>1. /\ r \in Seq(S)
      /\ Len(r) = Len(q) + 1
      /\ \A j \in 1 .. Len(q) : r[j] = q[j]
      /\ r[Len(q) + 1] = e
  OBVIOUS
<1> HIDE DEF r
<1>2. IsInjective(r)
  BY <1>1 DEF IsInjective, Range
<1>3. Range(r) = Range(q) \cup {e}
  BY <1>1 DEF Range
<1> QED
  BY <1>1, <1>2, <1>3 DEF r

\* Taking the first timer off a list.
LEMMA TailProperties ==
    ASSUME NEW S, NEW q \in Seq(S), IsInjective(q), q # <<>>
    PROVE  /\ Head(q) \in Range(q)
           /\ Tail(q) \in Seq(S)
           /\ IsInjective(Tail(q))
           /\ Range(Tail(q)) = Range(q) \ {Head(q)}
<1> DEFINE r == Tail(q)
<1>1. /\ Len(q) \in Nat \ {0}
      /\ r \in Seq(S)
      /\ Len(r) = Len(q) - 1
      /\ \A j \in 1 .. Len(q) - 1 : r[j] = q[j + 1]
      /\ Head(q) = q[1]
  OBVIOUS
<1> HIDE DEF r
<1>2. Head(q) \in Range(q)
  BY <1>1 DEF Range
<1>3. IsInjective(r)
  <2>1. SUFFICES ASSUME NEW j \in 1 .. Len(q) - 1,
                        NEW k \in 1 .. Len(q) - 1, r[j] = r[k]
                 PROVE  j = k
    BY <1>1 DEF IsInjective
  <2>2. q[j + 1] = q[k + 1]
    BY <1>1, <2>1
  <2>3. j + 1 \in DOMAIN q /\ k + 1 \in DOMAIN q
    BY <1>1
  <2>4. j + 1 = k + 1
    BY <2>2, <2>3 DEF IsInjective
  <2> QED
    BY <2>4
<1>4. Range(r) \subseteq Range(q) \ {Head(q)}
  BY <1>1 DEF Range, IsInjective
<1>5. Range(q) \ {Head(q)} \subseteq Range(r)
  <2>1. SUFFICES ASSUME NEW j \in 1 .. Len(q), j # 1
                 PROVE  q[j] \in Range(r)
    BY <1>1 DEF Range
  <2>2. j - 1 \in 1 .. Len(q) - 1 /\ r[j - 1] = q[j]
    BY <1>1, <2>1
  <2> QED
    BY <1>1, <2>2 DEF Range
<1> QED
  BY <1>1, <1>2, <1>3, <1>4, <1>5 DEF r

\* The empty list holds nobody.
LEMMA EmptyList ==
    ASSUME NEW S
    PROVE  <<>> \in Seq(S) /\ IsInjective(<<>>) /\ Range(<<>>) = {}
BY DEF IsInjective, Range

\* Only the empty list holds nobody.
LEMMA EmptyRange ==
    ASSUME NEW S, NEW q \in Seq(S)
    PROVE  Range(q) = {} <=> q = <<>>
BY DEF Range
-----------------------------------------------------------------------------
(***************************************************************************)
(* Arithmetic: the words of the code, and div and mod by any positive      *)
(* number.                                                                 *)
(***************************************************************************)
LEMMA DivMod ==
    ASSUME NEW n \in Nat \ {0}, NEW x \in Int
    PROVE  /\ x \div n \in Int
           /\ x % n \in 0 .. n - 1
           /\ x = n * (x \div n) + (x % n)
OBVIOUS

\* The remainder of a number within one turn.
LEMMA ModSmall ==
    ASSUME NEW n \in Nat \ {0}, NEW x \in Int, -n <= x, x < n
    PROVE  x % n = IF x < 0 THEN x + n ELSE x
OBVIOUS

\* Within one turn a remainder tells the number.
LEMMA ModUnique ==
    ASSUME NEW n \in Nat \ {0}, NEW x \in Int, NEW y \in Int,
           x % n = y % n, x <= y, y < x + n
    PROVE  x = y
<1>1. /\ x \div n \in Int /\ y \div n \in Int /\ x % n \in Int
      /\ x = n * (x \div n) + (x % n)
      /\ y = n * (y \div n) + (y % n)
  BY DivMod
<1>2. y - x = n * (y \div n - x \div n)
  BY <1>1
<1>3. y \div n - x \div n <= 0
  <2>1. SUFFICES ASSUME y \div n - x \div n >= 1
                 PROVE  FALSE
    BY <1>1
  <2>2. n * (y \div n - x \div n) >= n
    BY <1>1, <2>1
  <2> QED
    BY <1>1, <1>2, <2>2
<1>4. n * (y \div n - x \div n) <= 0
  BY <1>1, <1>3
<1> QED
  BY <1>1, <1>2, <1>4

\* Every vector covers the next one's bucket; all of them fit in half a word.
LEMMA GranType ==
    /\ \A l \in Levels : Gran[l] \in Nat \ {0} /\ Size(l) \in Nat \ {0}
    /\ \A l \in 1 .. 4 : Gran[l] * Size(l) = Gran[l + 1]
    /\ Gran[1] = 1
    /\ 2 * Gran[5] <= WORD
    /\ Gran[5] <= IDX_MAX
<1> DEFINE N == TVN_SIZE
<1>1. /\ TVR_SIZE \in Nat \ {0}
      /\ TVR_SIZE * N \in Nat \ {0}
      /\ TVR_SIZE * N * N \in Nat \ {0}
      /\ TVR_SIZE * N * N * N \in Nat \ {0}
  BY WheelAssumption
<1>2. /\ Gran[1] = 1 /\ Gran[2] = TVR_SIZE /\ Gran[3] = TVR_SIZE * N
      /\ Gran[4] = TVR_SIZE * N * N /\ Gran[5] = TVR_SIZE * N * N * N
  BY DEF Gran
<1>3. /\ Size(1) = TVR_SIZE
      /\ Size(2) = N /\ Size(3) = N /\ Size(4) = N /\ Size(5) = N
  BY DEF Size
<1> HIDE DEF N
<1>4. N \in Nat \ {0}
  BY WheelAssumption DEF N
<1>5. \A l \in Levels : l = 1 \/ l = 2 \/ l = 3 \/ l = 4 \/ l = 5
  BY DEF Levels
<1>6. \A l \in Levels : Gran[l] \in Nat \ {0} /\ Size(l) \in Nat \ {0}
  BY <1>1, <1>2, <1>3, <1>4, <1>5
<1>7. /\ Gran[1] * Size(1) = Gran[1 + 1]
      /\ Gran[2] * Size(2) = Gran[2 + 1]
      /\ Gran[3] * Size(3) = Gran[3 + 1]
      /\ Gran[4] * Size(4) = Gran[4 + 1]
  BY <1>1, <1>2, <1>3
<1>8. \A l \in 1 .. 4 : l = 1 \/ l = 2 \/ l = 3 \/ l = 4
  OBVIOUS
<1>9. 2 * Gran[5] <= WORD /\ Gran[5] <= IDX_MAX
  BY <1>2, WordAssumption DEF N
<1> QED
  BY <1>2, <1>6, <1>7, <1>8, <1>9

\* An index names a bucket of its vector.
LEMMA IndexType ==
    ASSUME NEW l \in Levels, NEW x \in Nat
    PROVE  <<l, Index(l, x)>> \in Buckets
<1>1. Gran[l] \in Nat \ {0} /\ Size(l) \in Nat \ {0}
  BY GranType
<1>2. Index(l, x) \in 0 .. Size(l) - 1
  <2>1. x \div Gran[l] \in Int
    BY <1>1
  <2> QED
    BY <1>1, <2>1, DivMod DEF Index
<1> QED
  BY <1>2 DEF Buckets

\* The local lists are not buckets.
LEMMA HeadsDistinct ==
    /\ WorkList \notin Buckets /\ TvList \notin Buckets /\ WorkList # TvList
    /\ WorkList \in ListHeads /\ TvList \in ListHeads
    /\ Buckets \subseteq ListHeads
BY DEF WorkList, TvList, Buckets, ListHeads, Levels

\* The clock and timer_jiffies are close enough for time_after_eq to be the
\* plain comparison.
LEMMA ClockOrder ==
    ASSUME NEW a \in 0 .. JIFFIES_MAX + 1, NEW b \in 0 .. JIFFIES_MAX + 1
    PROVE  TimeAfterEq(a, b) <=> a >= b
<1>1. WORD \in Nat \ {0} /\ a - b \in Int /\ -WORD <= a - b /\ a - b < WORD
  BY WordAssumption
<1>2. (a - b) % WORD = IF a - b < 0 THEN a - b + WORD ELSE a - b
  BY <1>1, ModSmall
<1>3. /\ WORD \div 2 \in Int
      /\ JIFFIES_MAX + 1 < WORD \div 2
      /\ WORD \div 2 <= WORD - (JIFFIES_MAX + 1)
  BY WordAssumption
<1>4. CASE a >= b
  BY <1>2, <1>3, <1>4, WordAssumption DEF TimeAfterEq
<1>5. CASE a < b
  BY <1>2, <1>3, <1>5, WordAssumption DEF TimeAfterEq
<1> QED
  BY <1>4, <1>5
-----------------------------------------------------------------------------
(***************************************************************************)
(* internal_add_timer files a timer where Placed wants it.                 *)
(***************************************************************************)
\* The vector chosen for a timer within reach of tv1 .. tv4 is the nearest.
LEMMA Nearest ==
    ASSUME NEW idx \in Nat,
           {l \in 1 .. 4 : idx < Gran[l] * Size(l)} # {}
    PROVE  LET l == Min({m \in 1 .. 4 : idx < Gran[m] * Size(m)})
           IN  /\ l \in 1 .. 4
               /\ idx < Gran[l + 1]
               /\ l > 1 => idx >= Gran[l]
<1> DEFINE near == {l \in 1 .. 4 : idx < Gran[l] * Size(l)}
<1>1. \E l \in near : \A m \in near : l <= m
  <2>1. CASE 1 \in near
    BY <2>1
  <2>2. CASE 1 \notin near /\ 2 \in near
    BY <2>2
  <2>3. CASE 1 \notin near /\ 2 \notin near /\ 3 \in near
    BY <2>3
  <2>4. CASE 1 \notin near /\ 2 \notin near /\ 3 \notin near
    <3>1. near = {4}
      BY <2>4
    <3> QED
      BY <3>1
  <2> QED
    BY <2>1, <2>2, <2>3, <2>4
<1> DEFINE l == Min(near)
<1>2. l \in near /\ \A m \in near : l <= m
  BY <1>1 DEF Min
<1> HIDE DEF l
<1>3. l \in 1 .. 4 /\ idx < Gran[l] * Size(l)
  BY <1>2
<1>4. idx < Gran[l + 1]
  BY <1>3, GranType
<1>5. ASSUME l > 1 PROVE idx >= Gran[l]
  <2>1. l - 1 \in 1 .. 4 /\ l - 1 \notin near
    BY <1>2, <1>3, <1>5
  <2>2. /\ Gran[l - 1] * Size(l - 1) = Gran[(l - 1) + 1]
        /\ Gran[l] \in Nat
    BY <1>3, <2>1, GranType DEF Levels
  <2>3. (l - 1) + 1 = l
    BY <1>3
  <2>4. ~ (idx < Gran[l - 1] * Size(l - 1))
    BY <2>1
  <2> QED
    BY <2>2, <2>3, <2>4
<1> QED
  BY <1>3, <1>4, <1>5 DEF l

\* Block x div G of a vector whose buckets cover G ticks.
LEMMA BlockBounds ==
    ASSUME NEW G \in Nat \ {0}, NEW x \in Nat
    PROVE  /\ x \div G \in 0 .. x
           /\ (x \div G) * G <= x
           /\ x < (x \div G) * G + G
<1>1. /\ x \div G \in Int
      /\ x % G \in 0 .. G - 1
      /\ x = G * (x \div G) + (x % G)
  BY DivMod
<1>2. x \div G \in Nat
  OBVIOUS
<1>3. G * (x \div G) = (x \div G) * G
  BY <1>2
<1>4. x \div G <= (x \div G) * G
  BY <1>2
<1> QED
  BY <1>1, <1>2, <1>3, <1>4

\* internal_add_timer files a timer where Placed wants it.
LEMMA FilePlaced ==
    ASSUME timer_jiffies \in 0 .. JIFFIES_MAX + 1, NEW e \in Words
    PROVE  \E l \in Levels : \E i \in Nat :
              /\ Bucket(e) = <<l, i>>
              /\ Bucket(e) \in Buckets
              /\ l = 1 => /\ DueTick(e) % TVR_SIZE = i
                          /\ DueTick(e) \in
                                timer_jiffies .. timer_jiffies + TVR_SIZE - 1
              /\ l # 1 => /\ DueTick(e) = e
                          /\ e < timer_jiffies + WORD \div 2
                          /\ \E k \in 0 .. e : /\ k % TVN_SIZE = i
                                               /\ timer_jiffies < k * Gran[l]
                                               /\ k * Gran[l] <= e
<1> DEFINE T == timer_jiffies
           idx == (e - T) % WORD
           near == {l \in 1 .. 4 : idx < Gran[l] * Size(l)}
           capped == IF idx > IDX_MAX THEN (IDX_MAX + T) % WORD ELSE e
<1>1. /\ T \in Nat /\ e \in Nat /\ WORD \in Nat \ {0} /\ e < WORD
      /\ 4 * (T + 1) <= WORD /\ idx \in 0 .. WORD - 1
      /\ idx = IF e < T THEN e - T + WORD ELSE e - T
  <2>1. /\ T \in Nat /\ e \in Nat /\ WORD \in Nat \ {0} /\ e < WORD
        /\ 4 * (T + 1) <= WORD
    BY WordAssumption DEF Words
  <2>2. e - T \in Int /\ -WORD <= e - T /\ e - T < WORD
    BY <2>1
  <2>3. idx = IF e - T < 0 THEN e - T + WORD ELSE e - T
    BY <2>1, <2>2, ModSmall
  <2> HIDE DEF idx
  <2> QED
    BY <2>1, <2>3
<1>2. WORD \div 2 \in Nat /\ 2 * (WORD \div 2) <= WORD
      /\ WORD <= 2 * (WORD \div 2) + 1
  BY <1>1
<1>3. TimeAfterEq(e, T) <=> idx < WORD \div 2
  BY DEF TimeAfterEq
<1>4. TimeAfterEq(e, T) => idx = e - T /\ e >= T
  BY <1>1, <1>2, <1>3
<1>5. Bucket(e) = IF near # {} THEN <<Min(near), Index(Min(near), e)>>
                  ELSE IF TimeAfterEq(e, T) THEN <<5, Index(5, capped)>>
                  ELSE <<1, Index(1, T)>>
  BY DEF Bucket
<1> HIDE DEF T, idx, near, capped
<1>6. CASE near # {}
  <2> DEFINE l == Min(near)
             i == Index(l, e)
  <2>1. l \in 1 .. 4 /\ idx < Gran[l + 1] /\ (l > 1 => idx >= Gran[l])
    BY <1>1, <1>6, Nearest DEF near
  <2> HIDE DEF l
  <2>2. l \in Levels /\ l + 1 \in Levels
    BY <2>1 DEF Levels
  <2>3. Bucket(e) = <<l, i>> /\ Bucket(e) \in Buckets /\ i \in Nat
    <3>1. Bucket(e) = <<l, i>>
      BY <1>5, <1>6 DEF l
    <3>2. <<l, i>> \in Buckets
      BY <1>1, <2>2, IndexType
    <3>3. i \in Nat
      <4>1. Gran[l] \in Nat \ {0} /\ Size(l) \in Nat \ {0}
        BY <2>2, GranType
      <4>2. e \div Gran[l] \in Int
        BY <1>1, <4>1
      <4>3. (e \div Gran[l]) % Size(l) \in 0 .. Size(l) - 1
        BY <4>1, <4>2, DivMod
      <4> QED
        BY <4>1, <4>3 DEF Index
    <3> QED
      BY <3>1, <3>2, <3>3
  <2>4. 2 * idx + 2 <= WORD
    <3>1. Gran[l + 1] <= Gran[5]
      <4>1. \A m \in 1 .. 4 : Gran[m] <= Gran[m + 1]
        <5> SUFFICES ASSUME NEW m \in 1 .. 4 PROVE Gran[m] <= Gran[m + 1]
          OBVIOUS
        <5>1. /\ Gran[m] \in Nat \ {0} /\ Size(m) \in Nat \ {0}
              /\ Gran[m] * Size(m) = Gran[m + 1]
          BY GranType DEF Levels
        <5>2. \A g, s \in Nat \ {0} : g <= g * s
          OBVIOUS
        <5> QED
          BY <5>1, <5>2
      <4>2. /\ Gran[2] \in Nat /\ Gran[3] \in Nat
            /\ Gran[4] \in Nat /\ Gran[5] \in Nat
        BY GranType DEF Levels
      <4>3. Gran[2] <= Gran[2 + 1] /\ Gran[3] <= Gran[3 + 1]
            /\ Gran[4] <= Gran[4 + 1]
        BY <4>1
      <4>4. l = 1 \/ l = 2 \/ l = 3 \/ l = 4
        BY <2>1
      <4> QED
        BY <4>2, <4>3, <4>4
    <3>2. Gran[l + 1] \in Nat /\ Gran[5] \in Nat
      BY <2>2, GranType DEF Levels
    <3> QED
      BY <1>1, <2>1, <3>1, <3>2, GranType
  <2>5. TimeAfterEq(e, T)
    BY <1>1, <1>2, <1>3, <2>4
  <2>6. DueTick(e) = e /\ e >= T /\ idx = e - T /\ e < T + WORD \div 2
    BY <1>1, <1>2, <1>3, <1>4, <2>5 DEF DueTick, T
  <2>7. CASE l = 1
    <3>1. i = e % TVR_SIZE
      <4>1. Gran[1] = 1 /\ Size(1) = TVR_SIZE /\ e \div 1 = e
        BY <1>1, GranType DEF Size
      <4> QED
        BY <2>7, <4>1 DEF Index
    <3>2. idx < TVR_SIZE
      BY <2>1, <2>7 DEF Gran
    <3>3. e \in T .. T + TVR_SIZE - 1
      BY <1>1, <2>6, <3>2, WheelAssumption
    <3> QED
      BY <2>2, <2>3, <2>6, <2>7, <3>1, <3>3 DEF T
  <2>8. CASE l # 1
    <3> DEFINE k == e \div Gran[l]
    <3>1. Gran[l] \in Nat \ {0}
      BY <2>2, GranType
    <3>2. k \in 0 .. e /\ k * Gran[l] <= e /\ e < k * Gran[l] + Gran[l]
      BY <1>1, <3>1, BlockBounds
    <3>3. k % TVN_SIZE = i
      BY <2>8 DEF Index, Size
    <3> HIDE DEF k, i
    <3>4. k * Gran[l] \in Int
      BY <3>1, <3>2
    <3>5. T < k * Gran[l]
      BY <1>1, <2>1, <2>6, <2>8, <3>1, <3>2, <3>4
    <3> QED
      BY <2>2, <2>3, <2>6, <2>8, <3>2, <3>3, <3>5 DEF T
  <2> QED
    BY <2>7, <2>8
<1>7. CASE near = {} /\ TimeAfterEq(e, T)
  <2>1. Bucket(e) = <<5, Index(5, capped)>>
    BY <1>5, <1>7
  <2>2. DueTick(e) = e /\ e >= T /\ idx = e - T /\ e < T + WORD \div 2
    BY <1>1, <1>2, <1>3, <1>4, <1>7 DEF DueTick, T
  <2>3. Gran[5] \in Nat \ {0} /\ Gran[5] <= IDX_MAX /\ Gran[4] * Size(4) = Gran[5]
    BY GranType DEF Levels
  <2>4. idx >= Gran[5]
    <3>1. ~ (idx < Gran[4] * Size(4))
      BY <1>7 DEF near
    <3> QED
      BY <1>1, <2>3, <3>1
  <2>5. capped \in Nat /\ capped <= e /\ capped >= T + Gran[5]
    <3>1. CASE idx > IDX_MAX
      <4>1. IDX_MAX \in Nat /\ IDX_MAX + T < WORD
        BY <1>1, <2>2, <3>1, WordAssumption
      <4>2. (IDX_MAX + T) % WORD = IDX_MAX + T
        <5>1. /\ WORD \in Nat \ {0} /\ IDX_MAX + T \in Int
              /\ -WORD <= IDX_MAX + T /\ ~ (IDX_MAX + T < 0)
          BY <1>1, <4>1
        <5> QED
          BY <4>1, <5>1, ModSmall
      <4> QED
        BY <1>1, <2>2, <2>3, <3>1, <4>1, <4>2 DEF capped
    <3>2. CASE ~ (idx > IDX_MAX)
      BY <1>1, <2>2, <2>3, <2>4, <3>2 DEF capped
    <3> QED
      BY <3>1, <3>2
  <2> DEFINE k == capped \div Gran[5]
             i == Index(5, capped)
  <2>6. k \in 0 .. capped /\ k * Gran[5] <= capped
        /\ capped < k * Gran[5] + Gran[5]
    BY <2>3, <2>5, BlockBounds
  <2>7. k % TVN_SIZE = i
    BY DEF Index, Size
  <2>8. <<5, i>> \in Buckets
    BY <2>5, IndexType DEF Levels
  <2>9. i \in Nat
    <3>1. k \in Int /\ TVN_SIZE \in Nat \ {0}
      BY <2>6, WheelAssumption
    <3> HIDE DEF k, i
    <3>2. k % TVN_SIZE \in 0 .. TVN_SIZE - 1
      BY <3>1, DivMod
    <3> QED
      BY <2>7, <3>1, <3>2
  <2> HIDE DEF k, i
  <2>10. k * Gran[5] \in Int
    BY <2>3, <2>5, <2>6
  <2>11. T < k * Gran[5] /\ k * Gran[5] <= e /\ k \in 0 .. e
    BY <1>1, <2>3, <2>5, <2>6, <2>10
  <2>12. Bucket(e) = <<5, i>> /\ 5 \in Levels
    BY <2>1 DEF i, Levels
  <2> QED
    BY <2>2, <2>7, <2>8, <2>9, <2>11, <2>12 DEF T
<1>8. CASE near = {} /\ ~ TimeAfterEq(e, T)
  <2>1. Bucket(e) = <<1, Index(1, T)>> /\ DueTick(e) = T
    BY <1>5, <1>8 DEF DueTick, T
  <2>2. Index(1, T) = T % TVR_SIZE
    <3>1. Gran[1] = 1 /\ Size(1) = TVR_SIZE /\ T \div 1 = T
      BY <1>1, GranType DEF Size
    <3> QED
      BY <3>1 DEF Index
  <2>3. <<1, Index(1, T)>> \in Buckets
    BY <1>1, IndexType DEF Levels
  <2>4. T % TVR_SIZE \in Nat /\ T \in T .. T + TVR_SIZE - 1
    <3>1. T % TVR_SIZE \in 0 .. TVR_SIZE - 1
      BY <1>1, DivMod, WheelAssumption
    <3> QED
      BY <1>1, <3>1, WheelAssumption
  <2>5. 1 \in Levels
    BY DEF Levels
  <2> QED
    BY <2>1, <2>2, <2>3, <2>4, <2>5 DEF T
<1> QED
  BY <1>6, <1>7, <1>8
-----------------------------------------------------------------------------
(***************************************************************************)
(* The list heads as a family of duplicate-free, disjoint lists.           *)
(***************************************************************************)
WellLinked(L) ==
    /\ L \in [ListHeads -> Seq(Timers)]
    /\ \A h \in ListHeads : IsInjective(L[h])
    /\ \A h, g \in ListHeads : h # g => Range(L[h]) \cap Range(L[g]) = {}

\* Lists hold timers.
LEMMA LinkedTimers ==
    ASSUME NEW L, WellLinked(L), NEW h \in ListHeads
    PROVE  Range(L[h]) \subseteq Timers
<1>1. L[h] \in Seq(Timers)
  BY DEF WellLinked
<1> QED
  BY <1>1 DEF Range

\* detach_timer takes a timer off every list.
LEMMA DetachLists ==
    ASSUME WellLinked(list), NEW t \in Timers
    PROVE  /\ WellLinked(Detached(t))
           /\ \A h \in ListHeads : Range(Detached(t)[h]) = On(h) \ {t}
           /\ \A h \in ListHeads : list[h] = <<>> => Detached(t)[h] = <<>>
<1> DEFINE M == Detached(t)
<1>1. M = [h \in ListHeads |-> RemoveFirst(list[h], t)]
  BY DEF Detached
<1>2. \A h \in ListHeads : /\ RemoveFirst(list[h], t) \in Seq(Timers)
                           /\ IsInjective(RemoveFirst(list[h], t))
                           /\ Range(RemoveFirst(list[h], t)) = Range(list[h]) \ {t}
  BY RemoveFirstProperties DEF WellLinked
<1> HIDE DEF M
<1>3. \A h \in ListHeads : /\ M[h] \in Seq(Timers)
                           /\ IsInjective(M[h])
                           /\ Range(M[h]) = Range(list[h]) \ {t}
  BY <1>1, <1>2
<1>4. M \in [ListHeads -> Seq(Timers)]
  BY <1>1, <1>2
<1>5. \A h, g \in ListHeads : h # g => Range(M[h]) \cap Range(M[g]) = {}
  BY <1>3 DEF WellLinked
<1>6. \A h \in ListHeads : list[h] = <<>> => M[h] = <<>>
  BY <1>3, EmptyList, EmptyRange
<1> QED
  BY <1>3, <1>4, <1>5, <1>6 DEF M, WellLinked, On

\* list_add_tail of a timer that is on no list.
LEMMA LinkLists ==
    ASSUME NEW L, WellLinked(L), NEW t \in Timers, NEW b \in ListHeads,
           \A h \in ListHeads : t \notin Range(L[h])
    PROVE  /\ WellLinked(Linked(L, t, b))
           /\ Range(Linked(L, t, b)[b]) = Range(L[b]) \cup {t}
           /\ \A h \in ListHeads : h # b => Linked(L, t, b)[h] = L[h]
<1> DEFINE M == Linked(L, t, b)
<1>1. L[b] \in Seq(Timers) /\ IsInjective(L[b]) /\ t \in Timers \ Range(L[b])
  BY DEF WellLinked
<1>2. /\ Append(L[b], t) \in Seq(Timers)
      /\ IsInjective(Append(L[b], t))
      /\ Range(Append(L[b], t)) = Range(L[b]) \cup {t}
  BY <1>1, AppendKeepsLists
<1>3. /\ M \in [ListHeads -> Seq(Timers)]
      /\ M[b] = Append(L[b], t)
      /\ \A h \in ListHeads : h # b => M[h] = L[h]
  BY <1>2 DEF WellLinked, Linked
<1> HIDE DEF M
<1>4. \A h \in ListHeads : IsInjective(M[h])
  BY <1>2, <1>3 DEF WellLinked
<1>5. \A h \in ListHeads : Range(M[h]) \subseteq Range(L[h]) \cup {t}
  BY <1>2, <1>3
<1>6. \A h \in ListHeads : h # b => Range(M[h]) = Range(L[h])
  BY <1>3
<1>7. ASSUME NEW h \in ListHeads, NEW g \in ListHeads, h # g
      PROVE  Range(M[h]) \cap Range(M[g]) = {}
  <2>1. Range(L[h]) \cap Range(L[g]) = {}
    BY <1>7 DEF WellLinked
  <2>2. t \notin Range(L[h]) /\ t \notin Range(L[g])
    OBVIOUS
  <2> QED
    BY <1>5, <1>6, <1>7, <2>1, <2>2
<1> QED
  BY <1>2, <1>3, <1>4, <1>7 DEF WellLinked, M

\* list_replace_init into an empty head.
LEMMA MoveLists ==
    ASSUME WellLinked(list), NEW from \in ListHeads, NEW to \in ListHeads,
           from # to, list[to] = <<>>
    PROVE  /\ WellLinked(Moved(from, to))
           /\ Moved(from, to)[to] = list[from]
           /\ Moved(from, to)[from] = <<>>
           /\ \A h \in ListHeads \ {from, to} : Moved(from, to)[h] = list[h]
           /\ \A t : (\E h \in ListHeads : t \in Range(Moved(from, to)[h]))
                      <=> (\E h \in ListHeads : t \in On(h))
<1> DEFINE M == Moved(from, to)
<1>1. /\ M \in [ListHeads -> Seq(Timers)]
      /\ M[to] = list[from] /\ M[from] = <<>>
      /\ \A h \in ListHeads \ {from, to} : M[h] = list[h]
  BY EmptyList DEF Moved, WellLinked
<1> HIDE DEF M
<1>2. Range(M[from]) = {} /\ Range(list[to]) = {}
  BY <1>1, EmptyList
<1>3. \A h \in ListHeads : IsInjective(M[h])
  BY <1>1, EmptyList DEF WellLinked
<1>4. ASSUME NEW h \in ListHeads, NEW g \in ListHeads, h # g
      PROVE  Range(M[h]) \cap Range(M[g]) = {}
  <2>1. CASE h = from \/ g = from
    BY <1>2, <2>1
  <2>2. CASE h # from /\ g # from /\ h = to
    <3>1. g # to
      BY <1>4, <2>2
    <3>2. M[h] = list[from] /\ M[g] = list[g]
      BY <1>1, <2>2, <3>1
    <3> QED
      BY <2>2, <3>2 DEF WellLinked
  <2>3. CASE h # from /\ g # from /\ g = to
    <3>1. h # to
      BY <1>4, <2>3
    <3>2. M[g] = list[from] /\ M[h] = list[h]
      BY <1>1, <2>3, <3>1
    <3> QED
      BY <2>3, <3>2 DEF WellLinked
  <2>4. CASE h # from /\ g # from /\ h # to /\ g # to
    BY <1>1, <1>4, <2>4 DEF WellLinked
  <2> QED
    BY <2>1, <2>2, <2>3, <2>4
<1>5. ASSUME NEW t
      PROVE  (\E h \in ListHeads : t \in Range(M[h]))
               <=> (\E h \in ListHeads : t \in On(h))
  <2>1. ASSUME NEW h \in ListHeads, t \in Range(M[h])
        PROVE  \E g \in ListHeads : t \in On(g)
    BY <1>1, <1>2, <2>1 DEF On
  <2>2. ASSUME NEW h \in ListHeads, t \in On(h)
        PROVE  \E g \in ListHeads : t \in Range(M[g])
    BY <1>1, <1>2, <2>2 DEF On
  <2> QED
    BY <2>1, <2>2
<1> QED
  BY <1>1, <1>3, <1>4, <1>5 DEF WellLinked, M

\* The first timer of a list leaves it.
LEMMA PopLists ==
    ASSUME WellLinked(list), NEW h \in ListHeads, list[h] # <<>>
    PROVE  LET M == [list EXCEPT ![h] = Tail(@)]
           IN  /\ Head(list[h]) \in On(h)
               /\ Head(list[h]) \in Timers
               /\ WellLinked(M)
               /\ Range(M[h]) = On(h) \ {Head(list[h])}
               /\ \A g \in ListHeads : g # h => M[g] = list[g]
               /\ \A g \in ListHeads : Head(list[h]) \notin Range(M[g])
<1> DEFINE M == [list EXCEPT ![h] = Tail(@)]
           t == Head(list[h])
<1>1. list[h] \in Seq(Timers) /\ IsInjective(list[h])
  BY DEF WellLinked
<1>2. /\ t \in Range(list[h])
      /\ Tail(list[h]) \in Seq(Timers)
      /\ IsInjective(Tail(list[h]))
      /\ Range(Tail(list[h])) = Range(list[h]) \ {t}
  BY <1>1, TailProperties
<1>3. t \in Timers
  BY <1>1
<1>4. /\ M \in [ListHeads -> Seq(Timers)]
      /\ M[h] = Tail(list[h])
      /\ \A g \in ListHeads : g # h => M[g] = list[g]
  BY <1>2 DEF WellLinked
<1> HIDE DEF M, t
<1>5. \A g \in ListHeads : IsInjective(M[g])
  BY <1>2, <1>4 DEF WellLinked
<1>6. \A g \in ListHeads : Range(M[g]) \subseteq Range(list[g])
  BY <1>2, <1>4
<1>7. \A g, k \in ListHeads : g # k => Range(M[g]) \cap Range(M[k]) = {}
  BY <1>6 DEF WellLinked
<1>8. \A g \in ListHeads : t \notin Range(M[g])
  <2> SUFFICES ASSUME NEW g \in ListHeads PROVE t \notin Range(M[g])
    OBVIOUS
  <2>1. CASE g = h
    BY <1>2, <1>4, <2>1
  <2>2. CASE g # h
    <3>1. Range(list[g]) \cap Range(list[h]) = {}
      BY <2>2 DEF WellLinked
    <3> QED
      BY <1>2, <1>6, <3>1
  <2> QED
    BY <2>1, <2>2
<1> QED
  BY <1>2, <1>3, <1>4, <1>5, <1>7, <1>8 DEF WellLinked, M, t, On
-----------------------------------------------------------------------------
(***************************************************************************)
(* The inductive invariant, action by action.                              *)
(***************************************************************************)
LEMMA ListsAreLinked ==
    IInv => WellLinked(list)
BY DEF IInv, TypeOK, OnePlaceEach, WellLinked, On

\* The timeouts and due ticks the actions use are words.
LEMMA TypesOfWords ==
    ASSUME TypeOK
    PROVE  /\ Timeouts \subseteq Words
           /\ \A e \in Words : DueTick(e) \in Words
           /\ WORD \in Nat \ {0}
<1>1. WORD \in Nat \ {0} /\ JIFFIES_MAX + 1 < WORD
  BY WordAssumption
<1>2. \A d \in Delays : (jiffies + d) % WORD \in Words
  <2> SUFFICES ASSUME NEW d \in Delays PROVE (jiffies + d) % WORD \in Words
    OBVIOUS
  <2>1. jiffies + d \in Int
    BY ClientAssumption, WordAssumption DEF TypeOK
  <2> QED
    BY <1>1, <2>1, DivMod DEF Words
<1>3. timer_jiffies \in Words
  BY <1>1, WordAssumption DEF TypeOK, Words
<1> QED
  BY <1>1, <1>2, <1>3 DEF Timeouts, DueTick

\* Taking a timer off the wheel and filing it by f, whatever f is: the
\* structure holds, and the timer is placed if f is as good as e.
LEMMA ArmStep ==
    ASSUME IInv, NEW t \in Timers, NEW f \in Words, NEW e \in Words,
           Serialized, Arm(t, f, e)
    PROVE  IInv'
<1> DEFINE b == Bucket(f)
           D == Detached(t)
<1>1. WellLinked(list)
  BY ListsAreLinked
<1>2. /\ WellLinked(D)
      /\ \A h \in ListHeads : Range(D[h]) = On(h) \ {t}
      /\ \A h \in ListHeads : list[h] = <<>> => D[h] = <<>>
  BY <1>1, DetachLists
<1>3. timer_jiffies \in 0 .. JIFFIES_MAX + 1
  BY DEF IInv, TypeOK
<1>4. b \in Buckets
  BY <1>3, FilePlaced
<1>5. b \in ListHeads /\ b # TvList /\ b # WorkList
  BY <1>4, HeadsDistinct
<1>6. list' = Linked(D, t, b)
  BY DEF Arm
<1> HIDE DEF b, D
<1>7. /\ WellLinked(list')
      /\ Range(list'[b]) = On(b) \cup {t}
      /\ \A h \in ListHeads : h # b => list'[h] = D[h]
  <2>1. \A h \in ListHeads : t \notin Range(D[h])
    BY <1>2
  <2>2. /\ WellLinked(list')
        /\ Range(list'[b]) = Range(D[b]) \cup {t}
        /\ \A h \in ListHeads : h # b => list'[h] = D[h]
    BY <1>2, <1>5, <1>6, <2>1, LinkLists
  <2> QED
    BY <1>2, <1>5, <2>2 DEF On
<1>8. \A h \in ListHeads :
         On(h)' = IF h = b THEN On(h) \cup {t} ELSE On(h) \ {t}
  BY <1>2, <1>7 DEF On
<1>9. TypeOK'
  <2>1. DueTick(e) \in Words
    BY TypesOfWords DEF IInv
  <2>2. list' \in [ListHeads -> Seq(Timers)]
    BY <1>7 DEF WellLinked
  <2> QED
    BY <2>1, <2>2 DEF Arm, IInv, TypeOK
<1>10. OnePlaceEach'
  <2>1. /\ \A h \in ListHeads : IsInjective(list'[h])
        /\ \A h, g \in ListHeads : h # g => On(h)' \cap On(g)' = {}
    BY <1>7 DEF WellLinked, On
  <2>2. pending' = {u \in Timers : \E h \in ListHeads : u \in On(h)'}
    <3>1. pending = {u \in Timers : \E h \in ListHeads : u \in On(h)}
      BY DEF IInv, OnePlaceEach
    <3>2. pending' = pending \cup {t}
      BY DEF Arm
    <3>3. ASSUME NEW u \in Timers
          PROVE  u \in pending' <=> \E h \in ListHeads : u \in On(h)'
      BY <1>5, <1>8, <3>1, <3>2
    <3> QED
      BY <3>1, <3>2, <3>3
  <2>3. /\ list[TvList] = <<>> => list'[TvList] = <<>>
        /\ list[WorkList] = <<>> => list'[WorkList] = <<>>
    BY <1>2, <1>5, <1>7, HeadsDistinct
  <2>4. worker' = worker
    BY DEF Arm
  <2> QED
    BY <2>1, <2>2, <2>3, <2>4 DEF IInv, OnePlaceEach
<1>11. WorkerShape'
  BY DEF IInv, WorkerShape, Arm
<1>12. /\ timer_jiffies' = timer_jiffies /\ level' = level
       /\ \A u \in Timers \ {t} :
             /\ expires'[u] = expires[u] /\ due'[u] = due[u]
             /\ u \in misfiled' <=> u \in misfiled
       /\ expires'[t] = e /\ due'[t] = DueTick(e)
       /\ t \notin misfiled' => b = Bucket(e)
  BY DEF Arm, IInv, TypeOK, b
<1>13. Placement'
  <2>1. ASSUME NEW h \in ListHeads
        PROVE  On(h)' \subseteq Timers /\ On(h) \subseteq Timers
    BY <1>1, <1>7 DEF WellLinked, On, Range
  <2>2. ASSUME NEW c \in Buckets, NEW u \in On(c)' \ misfiled'
        PROVE  Placed(u, c[1], c[2])'
    <3>1. c \in ListHeads
      BY HeadsDistinct
    <3>2. CASE u # t
      <4>1. u \in On(c) \ misfiled /\ u \in Timers \ {t}
        BY <1>8, <1>12, <2>1, <2>2, <3>1, <3>2
      <4>2. Placed(u, c[1], c[2])
        BY <4>1 DEF IInv, Placement
      <4> QED
        BY <1>12, <4>1, <4>2 DEF Placed
    <3>3. CASE u = t
      <4>1. c = b /\ b = Bucket(e)
        BY <1>8, <1>12, <2>2, <3>1, <3>3
      <4>2. PICK l \in Levels, i \in Nat :
               /\ Bucket(e) = <<l, i>>
               /\ l = 1 => /\ DueTick(e) % TVR_SIZE = i
                           /\ DueTick(e) \in
                                 timer_jiffies .. timer_jiffies + TVR_SIZE - 1
               /\ l # 1 => /\ DueTick(e) = e
                           /\ e < timer_jiffies + WORD \div 2
                           /\ \E k \in 0 .. e :
                                 /\ k % TVN_SIZE = i
                                 /\ timer_jiffies < k * Gran[l]
                                 /\ k * Gran[l] <= e
        BY <1>3, FilePlaced
      <4>3. c[1] = l /\ c[2] = i
        BY <4>1, <4>2
      <4>4. CASE l = 1
        BY <1>12, <3>3, <4>2, <4>3, <4>4 DEF Placed
      <4>5. CASE l # 1
        <5>1. Gran[l] \in Nat
          BY GranType
        <5>2. \E k \in 0 .. e : /\ k % TVN_SIZE = i
                                /\ timer_jiffies <= k * Gran[l]
                                /\ k * Gran[l] <= e
                                /\ timer_jiffies # k * Gran[l]
          BY <1>3, <4>2, <4>5, <5>1, WordAssumption DEF Words
        <5> QED
          BY <1>12, <3>3, <4>2, <4>3, <4>5, <5>2 DEF Placed
      <4> QED
        BY <4>4, <4>5
    <3> QED
      BY <3>2, <3>3
  <2>3. On(TvList)' = On(TvList) \ {t} /\ On(WorkList)' = On(WorkList) \ {t}
    BY <1>5, <1>8, HeadsDistinct
  <2>4. ASSUME NEW u \in On(TvList)' \ misfiled'
        PROVE  /\ due'[u] = expires'[u]
               /\ due'[u] \in timer_jiffies' ..
                               timer_jiffies' + WORD \div 2 - 1
    <3>1. u \in On(TvList) \ misfiled /\ u \in Timers \ {t}
      BY <1>12, <2>1, <2>3, <2>4, HeadsDistinct
    <3> QED
      BY <1>12, <3>1 DEF IInv, Placement
  <2>5. ASSUME NEW u \in On(WorkList)' \ misfiled'
        PROVE  due'[u] = timer_jiffies' - 1
    <3>1. u \in On(WorkList) \ misfiled /\ u \in Timers \ {t}
      BY <1>12, <2>1, <2>3, <2>5, HeadsDistinct
    <3> QED
      BY <1>12, <3>1 DEF IInv, Placement
  <2> QED
    BY <2>2, <2>4, <2>5 DEF Placement
<1> QED
  BY <1>9, <1>10, <1>11, <1>13 DEF IInv

\* A timer leaves the wheel for good: del_timer and the expiry of a timer.
LEMMA DisarmStep ==
    ASSUME IInv, NEW t \in Timers, Disarm(t),
           UNCHANGED <<jiffies, timer_jiffies, level, expires>>,
           \/ UNCHANGED <<worker, running>>
           \/ worker = "run" /\ worker' = "fn" /\ running' = {t}
    PROVE  IInv'
<1>1. WellLinked(list)
  BY ListsAreLinked
<1>2. /\ WellLinked(list')
      /\ \A h \in ListHeads : On(h)' = On(h) \ {t}
      /\ \A h \in ListHeads : list[h] = <<>> => list'[h] = <<>>
  BY <1>1, DetachLists DEF Disarm, On
<1>3. TypeOK'
  <2>1. list' \in [ListHeads -> Seq(Timers)]
    BY <1>2 DEF WellLinked
  <2>2. 0 \in Words
    BY WordAssumption DEF Words
  <2> QED
    BY <2>1, <2>2 DEF Disarm, IInv, TypeOK
<1>4. OnePlaceEach'
  <2>1. /\ \A h \in ListHeads : IsInjective(list'[h])
        /\ \A h, g \in ListHeads : h # g => On(h)' \cap On(g)' = {}
    BY <1>2 DEF WellLinked, On
  <2>2. pending' = {u \in Timers : \E h \in ListHeads : u \in On(h)'}
    <3>1. /\ pending = {u \in Timers : \E h \in ListHeads : u \in On(h)}
          /\ pending' = pending \ {t}
      BY DEF IInv, OnePlaceEach, Disarm
    <3> QED
      BY <1>2, <3>1
  <2>3. /\ worker' # "cascade" => worker # "cascade"
        /\ worker' \notin {"run", "fn"} => worker \notin {"run", "fn"}
    OBVIOUS
  <2>4. /\ worker' # "cascade" => list'[TvList] = <<>>
        /\ worker' \notin {"run", "fn"} => list'[WorkList] = <<>>
    BY <1>2, <2>3, HeadsDistinct DEF IInv, OnePlaceEach
  <2> QED
    BY <2>1, <2>2, <2>4 DEF OnePlaceEach
<1>5. WorkerShape'
  BY DEF IInv, WorkerShape
<1>6. Placement'
  <2>1. ASSUME NEW h \in ListHeads, NEW u \in On(h)' \ misfiled'
        PROVE  u \in On(h) \ misfiled /\ due'[u] = due[u]
    <3>1. u \in On(h) /\ u # t
      BY <1>2, <2>1
    <3>2. u \in Timers
      BY <1>1, <3>1, LinkedTimers DEF On
    <3> QED
      BY <2>1, <3>1, <3>2 DEF Disarm, IInv, TypeOK
  <2>2. ASSUME NEW c \in Buckets, NEW u \in On(c)' \ misfiled'
        PROVE  Placed(u, c[1], c[2])'
    <3>1. u \in On(c) \ misfiled /\ due'[u] = due[u]
      BY <2>1, <2>2, HeadsDistinct
    <3>2. Placed(u, c[1], c[2])
      BY <3>1 DEF IInv, Placement
    <3> QED
      BY <3>1, <3>2 DEF Placed
  <2>3. ASSUME NEW u \in On(TvList)' \ misfiled'
        PROVE  /\ due'[u] = expires'[u]
               /\ due'[u] \in timer_jiffies' ..
                               timer_jiffies' + WORD \div 2 - 1
    BY <2>1, <2>3, HeadsDistinct DEF IInv, Placement
  <2>4. ASSUME NEW u \in On(WorkList)' \ misfiled'
        PROVE  due'[u] = timer_jiffies' - 1
    BY <2>1, <2>4, HeadsDistinct DEF IInv, Placement
  <2> QED
    BY <2>2, <2>3, <2>4 DEF Placement
<1> QED
  BY <1>3, <1>4, <1>5, <1>6 DEF IInv

\* Steps that leave the wheel alone.
LEMMA QuietStep ==
    ASSUME IInv, jiffies' \in 0 .. JIFFIES_MAX,
           UNCHANGED <<timer_jiffies, list, level, expires, pending, due,
                       misfiled>>,
           \/ running' = running /\ worker = "sleep" /\ worker' = "woken"
           \/ running' = running /\ worker = "woken" /\ worker' = "run"
           \/ running' = {} /\ worker = "fn" /\ worker' = "run"
           \/ /\ running' = running /\ worker = "run" /\ worker' = "sleep"
              /\ list[WorkList] = <<>>
           \/ running' = running /\ worker' = worker /\ jiffies' = jiffies
    PROVE  IInv'
<1>1. TypeOK'
  BY DEF IInv, TypeOK
<1>2. OnePlaceEach'
  BY DEF IInv, OnePlaceEach, On
<1>3. WorkerShape'
  BY DEF IInv, WorkerShape
<1>4. Placement'
  BY DEF IInv, Placement, Placed, On
<1> QED
  BY <1>1, <1>2, <1>3, <1>4 DEF IInv

\* A block boundary of an outer vector is one of every vector inside it.
LEMMA GranDivides ==
    ASSUME NEW l \in 1 .. 4, NEW m \in l + 1 .. 5
    PROVE  \E c \in Nat : Gran[m] = Gran[l + 1] * c
<1>1. \A n \in 2 .. 4 : /\ Gran[n] \in Nat /\ Size(n) \in Nat
                        /\ Gran[n + 1] = Gran[n] * Size(n)
  BY GranType DEF Levels
<1>2. Gran[3] = Gran[2] * Size(2) /\ Gran[4] = Gran[3] * Size(3)
      /\ Gran[5] = Gran[4] * Size(4)
  <2>1. 2 + 1 = 3 /\ 3 + 1 = 4 /\ 4 + 1 = 5
    OBVIOUS
  <2> QED
    BY <1>1, <2>1
<1>3. /\ Gran[2] \in Nat /\ Gran[3] \in Nat /\ Gran[4] \in Nat
      /\ Size(2) \in Nat /\ Size(3) \in Nat /\ Size(4) \in Nat
  BY <1>1
<1>4. \A a, b, c \in Nat : (a * b) * c = a * (b * c) /\ b * c \in Nat
  OBVIOUS
<1>5. \A a \in Nat : a = a * 1
  OBVIOUS
<1>6. /\ Gran[4] = Gran[2] * (Size(2) * Size(3))
      /\ Gran[5] = Gran[3] * (Size(3) * Size(4))
      /\ Gran[5] = Gran[2] * ((Size(2) * Size(3)) * Size(4))
      /\ Size(2) * Size(3) \in Nat /\ Size(3) * Size(4) \in Nat
      /\ (Size(2) * Size(3)) * Size(4) \in Nat
  BY <1>2, <1>3, <1>4
<1>7. CASE m = l + 1
  <2>1. m \in Levels
    BY DEF Levels
  <2>2. Gran[m] \in Nat
    BY <2>1, GranType
  <2> QED
    BY <1>5, <1>7, <2>2
<1>8. CASE m # l + 1
  <2>1. \/ l = 1 /\ m \in 3 .. 5
        \/ l = 2 /\ m \in 4 .. 5
        \/ l = 3 /\ m = 5
    BY <1>8
  <2>2. l = 1 => l + 1 = 2
    OBVIOUS
  <2>3. l = 2 => l + 1 = 3
    OBVIOUS
  <2>4. l = 3 => l + 1 = 4
    OBVIOUS
  <2> QED
    BY <1>2, <1>3, <1>6, <2>1, <2>2, <2>3, <2>4
<1> QED
  BY <1>7, <1>8

\* A tick that starts a block of an outer vector has index 0 in all nearer ones.
LEMMA BoundaryIndex ==
    ASSUME NEW l \in 1 .. 4, NEW m \in l + 1 .. 5, NEW k \in Nat
    PROVE  Index(l, k * Gran[m]) = 0
<1>1. /\ Gran[l] \in Nat \ {0} /\ Size(l) \in Nat \ {0}
      /\ Gran[l + 1] = Gran[l] * Size(l)
  BY GranType DEF Levels
<1>2. PICK c \in Nat : Gran[m] = Gran[l + 1] * c
  BY GranDivides
<1> DEFINE g == Gran[l]
           s == Size(l)
<1>3. k * Gran[m] = k * ((g * s) * c)
  BY <1>1, <1>2
<1>4. g \in Nat \ {0} /\ s \in Nat \ {0}
  BY <1>1
<1> HIDE DEF g, s
<1>5. k * ((g * s) * c) = g * (s * (c * k))
  BY <1>4
<1>6. s * (c * k) \in Nat /\ c * k \in Nat
  BY <1>4
<1>7. \A x \in Nat, n \in Nat \ {0} : (n * x) \div n = x /\ (n * x) % n = 0
  OBVIOUS
<1>8. (g * (s * (c * k))) \div g = s * (c * k) /\ (s * (c * k)) % s = 0
  BY <1>4, <1>6, <1>7
<1> QED
  BY <1>3, <1>5, <1>8 DEF Index, g, s

\* cascade takes the bucket of the current tick down.
LEMMA BeginCascadeStep ==
    ASSUME IInv, NEW l \in 2 .. 5, BeginCascade(l),
           level = l - 1 \/ (l = 2 /\ level = 0),
           list[TvList] = <<>>, list[WorkList] = <<>>,
           timer_jiffies <= jiffies, worker # "fn",
           UNCHANGED <<jiffies, expires, pending, running, due, misfiled>>
    PROVE  IInv'
<1> DEFINE from == <<l, Index(l, timer_jiffies)>>
<1>1. WellLinked(list)
  BY ListsAreLinked
<1>2. l \in Levels /\ timer_jiffies \in Nat
  BY DEF Levels, IInv, TypeOK
<1>3. from \in Buckets
  BY <1>2, IndexType
<1>4. from \in ListHeads /\ from # TvList /\ from # WorkList
  BY <1>3, HeadsDistinct
<1> HIDE DEF from
<1>5. list' = Moved(from, TvList)
  BY DEF BeginCascade, from
<1>6. /\ WellLinked(list')
      /\ list'[TvList] = list[from]
      /\ list'[from] = <<>>
      /\ \A h \in ListHeads \ {from, TvList} : list'[h] = list[h]
      /\ \A t : (\E h \in ListHeads : t \in Range(list'[h]))
                  <=> (\E h \in ListHeads : t \in On(h))
  BY <1>1, <1>4, <1>5, HeadsDistinct, MoveLists
<1>7. /\ timer_jiffies' = timer_jiffies /\ level' = l /\ worker' = "cascade"
      /\ list'[WorkList] = <<>>
  BY <1>4, <1>6, HeadsDistinct DEF BeginCascade
<1>8. TypeOK'
  BY <1>6, <1>7 DEF IInv, TypeOK, WellLinked
<1>9. OnePlaceEach'
  <2>1. pending' = {t \in Timers : \E h \in ListHeads : t \in On(h)'}
    BY <1>6 DEF IInv, OnePlaceEach, On
  <2> QED
    BY <1>6, <1>7, <2>1 DEF OnePlaceEach, WellLinked, On
<1>10. WorkerShape'
  BY <1>7 DEF IInv, WorkerShape
<1>11. Placement'
  <2>1. ASSUME NEW c \in Buckets, NEW t \in On(c)' \ misfiled'
        PROVE  Placed(t, c[1], c[2])'
    <3>1. c # from
      BY <1>6, <2>1, EmptyList DEF On
    <3>2. c \in ListHeads /\ c # TvList
      BY HeadsDistinct
    <3>3. t \in On(c) \ misfiled
      BY <1>6, <2>1, <3>1, <3>2 DEF On
    <3>4. Placed(t, c[1], c[2])
      BY <3>3 DEF IInv, Placement
    <3>5. PICK m \in Levels : \E i \in 0 .. Size(m) - 1 : c = <<m, i>>
      BY DEF Buckets
    <3>6. PICK i \in 0 .. Size(m) - 1 : c = <<m, i>>
      BY <3>5
    <3>7. c[1] = m /\ c[2] = i
      BY <3>6
    <3>8. CASE m = 1
      BY <1>7, <3>4, <3>7, <3>8 DEF Placed
    <3>9. CASE m # 1
      <4>1. PICK k \in 0 .. due[t] :
               /\ k % TVN_SIZE = i
               /\ timer_jiffies <= k * Gran[m]
               /\ k * Gran[m] <= due[t]
               /\ level >= m => timer_jiffies # k * Gran[m]
        BY <3>4, <3>7, <3>9 DEF Placed
      <4>2. ASSUME l >= m PROVE timer_jiffies # k * Gran[m]
        <5>1. CASE m = l
          <6>1. SUFFICES ASSUME timer_jiffies = k * Gran[m] PROVE FALSE
            OBVIOUS
          <6>2. k \in Nat /\ Gran[m] \in Nat \ {0}
            <7>1. t \in Timers
              BY <1>1, <3>2, <3>3, LinkedTimers DEF On
            <7>2. due[t] \in Nat
              BY <7>1, WordAssumption DEF IInv, TypeOK, Words
            <7> QED
              BY <7>2, GranType
          <6>3. (k * Gran[m]) \div Gran[m] = k
            BY <6>2
          <6>4. Index(l, timer_jiffies) = k % TVN_SIZE
            BY <3>9, <5>1, <6>1, <6>3 DEF Index, Size
          <6> QED
            BY <3>1, <3>6, <4>1, <5>1, <6>4 DEF from
        <5>2. CASE m # l
          <6>1. level >= m
            BY <3>9, <4>2, <5>2 DEF Levels
          <6> QED
            BY <4>1, <6>1
        <5> QED
          BY <5>1, <5>2
      <4> QED
        BY <1>7, <3>4, <3>7, <3>9, <4>1, <4>2 DEF Placed
    <3> QED
      BY <3>8, <3>9
  <2>2. ASSUME NEW t \in On(TvList)' \ misfiled'
        PROVE  /\ due'[t] = expires'[t]
               /\ due'[t] \in timer_jiffies' ..
                               timer_jiffies' + WORD \div 2 - 1
    <3>1. t \in On(from) \ misfiled
      BY <1>6, <2>2 DEF On
    <3>2. Placed(t, from[1], from[2])
      BY <1>3, <3>1 DEF IInv, Placement
    <3>3. from[1] = l
      BY DEF from
    <3>4. l # 1 /\ Gran[l] \in Nat
      BY <1>2, GranType
    <3>5. /\ due[t] = expires[t]
          /\ due[t] < timer_jiffies + WORD \div 2
          /\ \E k \in 0 .. due[t] : /\ timer_jiffies <= k * Gran[l]
                                    /\ k * Gran[l] <= due[t]
      BY <3>2, <3>3, <3>4 DEF Placed
    <3>6. due[t] \in Nat /\ WORD \div 2 \in Nat
      <4>1. t \in Timers
        BY <1>1, <1>4, <3>1, LinkedTimers DEF On
      <4> QED
        BY <4>1, WordAssumption DEF IInv, TypeOK, Words
    <3>7. due[t] >= timer_jiffies
      BY <1>2, <3>4, <3>5, <3>6
    <3> QED
      BY <1>2, <1>7, <3>5, <3>6, <3>7
  <2>3. ASSUME NEW t \in On(WorkList)' \ misfiled'
        PROVE  due'[t] = timer_jiffies' - 1
    BY <1>7, <2>3, EmptyList DEF On
  <2> QED
    BY <2>1, <2>2, <2>3 DEF Placement
<1> QED
  BY <1>8, <1>9, <1>10, <1>11 DEF IInv

\* The tick's bucket of tv1 becomes the work list; every cascade the tick
\* calls for is behind.
LEMMA OpenTickStep ==
    ASSUME IInv, OpenTick,
           list[TvList] = <<>>, list[WorkList] = <<>>,
           timer_jiffies <= jiffies, worker # "fn",
           \A m \in 2 .. 5 :
              m > level => \A k \in Nat : timer_jiffies # k * Gran[m],
           UNCHANGED <<jiffies, expires, pending, running, due, misfiled>>
    PROVE  IInv'
<1> DEFINE from == <<1, Index(1, timer_jiffies)>>
<1>1. WellLinked(list)
  BY ListsAreLinked
<1>2. 1 \in Levels /\ timer_jiffies \in Nat /\ level \in {0} \cup 2 .. 5
  BY DEF Levels, IInv, TypeOK
<1>3. from \in Buckets
  BY <1>2, IndexType
<1>4. from \in ListHeads /\ from # TvList /\ from # WorkList
  BY <1>3, HeadsDistinct
<1>5. Index(1, timer_jiffies) = timer_jiffies % TVR_SIZE
  <2>1. Gran[1] = 1 /\ Size(1) = TVR_SIZE /\ timer_jiffies \div 1 = timer_jiffies
    BY <1>2, GranType DEF Size
  <2> QED
    BY <2>1 DEF Index
<1>6. from[1] = 1 /\ from[2] = timer_jiffies % TVR_SIZE
  BY <1>5
<1> HIDE DEF from
<1>7. list' = Moved(from, WorkList)
  BY DEF OpenTick, from
<1>8. /\ WellLinked(list')
      /\ list'[WorkList] = list[from]
      /\ list'[from] = <<>>
      /\ \A h \in ListHeads \ {from, WorkList} : list'[h] = list[h]
      /\ \A t : (\E h \in ListHeads : t \in Range(list'[h]))
                  <=> (\E h \in ListHeads : t \in On(h))
  BY <1>1, <1>4, <1>7, HeadsDistinct, MoveLists
<1>9. /\ timer_jiffies' = timer_jiffies + 1 /\ level' = 0 /\ worker' = "run"
      /\ list'[TvList] = <<>>
  BY <1>4, <1>8, HeadsDistinct DEF OpenTick
<1>10. TypeOK'
  <2>1. timer_jiffies' \in 0 .. JIFFIES_MAX + 1
    BY <1>2, <1>9, WordAssumption DEF IInv, TypeOK
  <2> QED
    BY <1>8, <1>9, <2>1 DEF IInv, TypeOK, WellLinked
<1>11. OnePlaceEach'
  <2>1. pending' = {t \in Timers : \E h \in ListHeads : t \in On(h)'}
    BY <1>8 DEF IInv, OnePlaceEach, On
  <2> QED
    BY <1>8, <1>9, <2>1 DEF OnePlaceEach, WellLinked, On
<1>12. WorkerShape'
  BY <1>9 DEF IInv, WorkerShape
<1>13. \A h \in ListHeads : \A t \in On(h) : t \in Timers /\ due[t] \in Nat
  <2>1. \A h \in ListHeads : On(h) \subseteq Timers
    BY <1>1, LinkedTimers DEF On
  <2> QED
    BY <2>1, WordAssumption DEF IInv, TypeOK, Words
<1>14. Placement'
  <2>1. ASSUME NEW c \in Buckets, NEW t \in On(c)' \ misfiled'
        PROVE  Placed(t, c[1], c[2])'
    <3>1. c # from
      BY <1>8, <2>1, EmptyList DEF On
    <3>2. c \in ListHeads /\ c # WorkList
      BY HeadsDistinct
    <3>3. t \in On(c) \ misfiled
      BY <1>8, <2>1, <3>1, <3>2 DEF On
    <3>4. Placed(t, c[1], c[2]) /\ due[t] \in Nat
      BY <1>13, <3>2, <3>3 DEF IInv, Placement
    <3>5. PICK m \in Levels : \E i \in 0 .. Size(m) - 1 : c = <<m, i>>
      BY DEF Buckets
    <3>6. PICK i \in 0 .. Size(m) - 1 : c = <<m, i>>
      BY <3>5
    <3>7. c[1] = m /\ c[2] = i
      BY <3>6
    <3>8. CASE m = 1
      <4>1. /\ due[t] % TVR_SIZE = i
            /\ due[t] \in timer_jiffies .. timer_jiffies + TVR_SIZE - 1
        BY <3>4, <3>7, <3>8 DEF Placed
      <4>2. due[t] # timer_jiffies
        BY <1>5, <3>1, <3>6, <3>8, <4>1 DEF from
      <4>3. due[t] \in timer_jiffies + 1 .. timer_jiffies + 1 + TVR_SIZE - 1
        BY <1>2, <3>4, <4>1, <4>2, WheelAssumption
      <4> QED
        BY <1>9, <3>7, <3>8, <4>1, <4>3 DEF Placed
    <3>9. CASE m # 1
      <4>1. PICK k \in 0 .. due[t] :
               /\ k % TVN_SIZE = i
               /\ timer_jiffies <= k * Gran[m]
               /\ k * Gran[m] <= due[t]
               /\ level >= m => timer_jiffies # k * Gran[m]
        BY <3>4, <3>7, <3>9 DEF Placed
      <4>2. k \in Nat /\ m \in 2 .. 5 /\ Gran[m] \in Nat
        <5>1. Gran[m] \in Nat
          BY GranType
        <5> QED
          BY <3>4, <3>9, <5>1 DEF Levels
      <4>3. timer_jiffies # k * Gran[m]
        BY <1>2, <4>1, <4>2
      <4>4. k * Gran[m] \in Nat
        BY <4>2
      <4>5. timer_jiffies + 1 <= k * Gran[m]
        BY <1>2, <4>1, <4>3, <4>4
      <4>6. due[t] = expires[t] /\ due[t] < timer_jiffies + WORD \div 2
        BY <3>4, <3>7, <3>9 DEF Placed
      <4>7. due[t] < timer_jiffies + 1 + WORD \div 2
        BY <1>2, <3>4, <4>6, WordAssumption
      <4>8. ~ (level' >= m)
        BY <1>9, <4>2
      <4> QED
        BY <1>9, <3>7, <3>9, <4>1, <4>5, <4>6, <4>7, <4>8 DEF Placed
    <3> QED
      BY <3>8, <3>9
  <2>2. ASSUME NEW t \in On(TvList)' \ misfiled'
        PROVE  /\ due'[t] = expires'[t]
               /\ due'[t] \in timer_jiffies' ..
                               timer_jiffies' + WORD \div 2 - 1
    BY <1>9, <2>2, EmptyList DEF On
  <2>3. ASSUME NEW t \in On(WorkList)' \ misfiled'
        PROVE  due'[t] = timer_jiffies' - 1
    <3>1. t \in On(from) \ misfiled
      BY <1>8, <2>3 DEF On
    <3>2. Placed(t, 1, timer_jiffies % TVR_SIZE)
      BY <1>3, <1>6, <3>1 DEF IInv, Placement
    <3>3. due[t] \in Nat
      BY <1>4, <1>13, <3>1
    <3>4. /\ due[t] % TVR_SIZE = timer_jiffies % TVR_SIZE
          /\ timer_jiffies <= due[t] /\ due[t] < timer_jiffies + TVR_SIZE
      BY <1>2, <3>2, <3>3, WheelAssumption DEF Placed
    <3>5. due[t] = timer_jiffies
      BY <1>2, <3>3, <3>4, ModUnique, WheelAssumption
    <3> QED
      BY <1>2, <1>9, <3>5
  <2> QED
    BY <2>1, <2>2, <2>3 DEF Placement
<1> QED
  BY <1>10, <1>11, <1>12, <1>14 DEF IInv

\* A cascaded timer is filed again, nearer than before.
LEMMA CascadeTimerStep ==
    ASSUME IInv, CascadeTimer
    PROVE  IInv'
<1> DEFINE t == Head(list[TvList])
           b == Bucket(expires[t])
           P == [list EXCEPT ![TvList] = Tail(@)]
<1>1. WellLinked(list) /\ list[TvList] # <<>> /\ TvList \in ListHeads
  BY ListsAreLinked, HeadsDistinct DEF CascadeTimer
<1>2. /\ t \in On(TvList) /\ t \in Timers
      /\ WellLinked(P)
      /\ Range(P[TvList]) = On(TvList) \ {t}
      /\ \A g \in ListHeads : g # TvList => P[g] = list[g]
      /\ \A g \in ListHeads : t \notin Range(P[g])
  BY <1>1, PopLists
<1>3. timer_jiffies \in 0 .. JIFFIES_MAX + 1 /\ timer_jiffies \in Nat
  BY WordAssumption DEF IInv, TypeOK
<1>4. expires[t] \in Words
  BY <1>2 DEF IInv, TypeOK
<1>5. b \in Buckets
  BY <1>3, <1>4, FilePlaced
<1>6. b \in ListHeads /\ b # TvList /\ b # WorkList
  BY <1>5, HeadsDistinct
<1>7. list' = Linked(P, t, b)
  BY DEF CascadeTimer
<1>8. /\ timer_jiffies' = timer_jiffies /\ level' = level
      /\ worker' = worker /\ worker = "cascade" /\ jiffies' = jiffies
      /\ expires' = expires /\ pending' = pending /\ due' = due
      /\ misfiled' = misfiled /\ running' = running
  BY DEF CascadeTimer
<1> HIDE DEF t, b, P
<1>9. /\ WellLinked(list')
      /\ Range(list'[b]) = Range(P[b]) \cup {t}
      /\ \A h \in ListHeads : h # b => list'[h] = P[h]
  BY <1>2, <1>6, <1>7, LinkLists
<1>10. \A h \in ListHeads :
          Range(list'[h]) = IF h = b THEN On(h) \cup {t}
                            ELSE IF h = TvList THEN On(h) \ {t} ELSE On(h)
  BY <1>2, <1>6, <1>9 DEF On
<1>11. TypeOK'
  BY <1>8, <1>9 DEF IInv, TypeOK, WellLinked
<1>12. OnePlaceEach'
  <2>1. \A u : (\E h \in ListHeads : u \in Range(list'[h]))
                  <=> (\E h \in ListHeads : u \in On(h))
    <3>1. ASSUME NEW u, NEW h \in ListHeads, u \in Range(list'[h])
          PROVE  \E g \in ListHeads : u \in On(g)
      BY <1>1, <1>2, <1>10, <3>1
    <3>2. ASSUME NEW u, NEW h \in ListHeads, u \in On(h)
          PROVE  \E g \in ListHeads : u \in Range(list'[g])
      BY <1>6, <1>10, <3>2
    <3> QED
      BY <3>1, <3>2
  <2>2. pending' = {u \in Timers : \E h \in ListHeads : u \in On(h)'}
    BY <1>8, <2>1 DEF IInv, OnePlaceEach, On
  <2>3. list'[WorkList] = list[WorkList]
    BY <1>2, <1>6, <1>9, HeadsDistinct
  <2> QED
    BY <1>8, <1>9, <2>2, <2>3 DEF IInv, OnePlaceEach, WellLinked, On
<1>13. WorkerShape'
  BY <1>8 DEF IInv, WorkerShape
<1>14. Placement'
  <2>1. ASSUME NEW c \in Buckets, NEW u \in On(c)' \ misfiled'
        PROVE  Placed(u, c[1], c[2])'
    <3>1. c \in ListHeads /\ c # TvList
      BY HeadsDistinct
    <3>2. CASE u # t
      <4>1. u \in On(c) \ misfiled
        <5>1. u \in Range(list'[c]) /\ u \notin misfiled
          BY <1>8, <2>1 DEF On
        <5>2. Range(list'[c]) \subseteq On(c) \cup {t}
          BY <1>10, <3>1
        <5> QED
          BY <3>2, <5>1, <5>2
      <4>2. Placed(u, c[1], c[2])
        BY <4>1 DEF IInv, Placement
      <4> QED
        BY <1>8, <4>2 DEF Placed
    <3>3. CASE u = t
      <4>1. c = b
        <5>1. t \notin On(c)
          BY <1>1, <1>2, <3>1 DEF WellLinked, On
        <5> QED
          BY <1>10, <2>1, <3>1, <3>3, <5>1 DEF On
      <4>2. t \in On(TvList) \ misfiled
        BY <1>2, <1>8, <2>1, <3>3
      <4>3. /\ due[t] = expires[t]
            /\ due[t] \in timer_jiffies .. timer_jiffies + WORD \div 2 - 1
        BY <4>2 DEF IInv, Placement
      <4> DEFINE e == expires[t]
      <4>4. DueTick(e) = e
        <5>1. /\ WORD \in Nat \ {0} /\ WORD \div 2 \in Nat
              /\ 2 * (WORD \div 2) <= WORD /\ e \in Nat
          BY <1>4, WordAssumption DEF Words
        <5> HIDE DEF e
        <5>2. /\ e - timer_jiffies \in Int
              /\ 0 <= e - timer_jiffies /\ e - timer_jiffies < WORD \div 2
          BY <1>3, <4>3, <5>1 DEF e
        <5>3. (e - timer_jiffies) % WORD = e - timer_jiffies
          <6>1. /\ -WORD <= e - timer_jiffies /\ e - timer_jiffies < WORD
                /\ ~ (e - timer_jiffies < 0)
            BY <5>1, <5>2
          <6> QED
            BY <5>1, <5>2, <6>1, ModSmall
        <5> QED
          BY <5>2, <5>3 DEF DueTick, TimeAfterEq
      <4>5. PICK l \in Levels, i \in Nat :
               /\ Bucket(e) = <<l, i>>
               /\ l = 1 => /\ DueTick(e) % TVR_SIZE = i
                           /\ DueTick(e) \in
                                 timer_jiffies .. timer_jiffies + TVR_SIZE - 1
               /\ l # 1 => /\ DueTick(e) = e
                           /\ e < timer_jiffies + WORD \div 2
                           /\ \E k \in 0 .. e :
                                 /\ k % TVN_SIZE = i
                                 /\ timer_jiffies < k * Gran[l]
                                 /\ k * Gran[l] <= e
        BY <1>3, <1>4, FilePlaced
      <4>6. c[1] = l /\ c[2] = i /\ due[t] = e
        BY <4>1, <4>3, <4>5 DEF b
      <4>7. e \in Nat /\ Gran[l] \in Nat
        BY <1>4, GranType, WordAssumption DEF Words
      <4> HIDE DEF e
      <4>8. CASE l = 1
        BY <1>8, <3>3, <4>4, <4>5, <4>6, <4>8 DEF Placed
      <4>9. CASE l # 1
        <5>1. \E k \in 0 .. e : /\ k % TVN_SIZE = i
                                /\ timer_jiffies <= k * Gran[l]
                                /\ k * Gran[l] <= e
                                /\ timer_jiffies # k * Gran[l]
          BY <1>3, <4>5, <4>7, <4>9
        <5>2. due[t] = expires[t]
          BY <4>3
        <5> QED
          BY <1>8, <3>3, <4>5, <4>6, <4>9, <5>1, <5>2 DEF Placed
      <4> QED
        BY <4>8, <4>9
    <3> QED
      BY <3>2, <3>3
  <2>2. ASSUME NEW u \in On(TvList)' \ misfiled'
        PROVE  /\ due'[u] = expires'[u]
               /\ due'[u] \in timer_jiffies' ..
                               timer_jiffies' + WORD \div 2 - 1
    <3>1. u \in On(TvList) \ misfiled
      BY <1>1, <1>6, <1>8, <1>10, <2>2 DEF On
    <3> QED
      BY <1>8, <3>1 DEF IInv, Placement
  <2>3. ASSUME NEW u \in On(WorkList)' \ misfiled'
        PROVE  due'[u] = timer_jiffies' - 1
    <3>1. u \in On(WorkList) \ misfiled
      BY <1>6, <1>8, <1>10, <2>3, HeadsDistinct DEF On
    <3> QED
      BY <1>8, <3>1 DEF IInv, Placement
  <2> QED
    BY <2>1, <2>2, <2>3 DEF Placement
<1> QED
  BY <1>11, <1>12, <1>13, <1>14 DEF IInv

\* The inductive invariant holds initially.
LEMMA InitInvariant ==
    Init => IInv
<1> SUFFICES ASSUME Init PROVE IInv
  OBVIOUS
<1>1. \A h \in ListHeads : /\ list[h] = <<>> /\ On(h) = {}
                           /\ IsInjective(list[h])
  BY EmptyList DEF Init, On
<1>2. TypeOK
  <2>1. list \in [ListHeads -> Seq(Timers)]
    BY EmptyList DEF Init
  <2>2. 0 \in Words /\ Leftover \subseteq Words
    BY ClientAssumption, WordAssumption DEF Words
  <2>3. jiffies \in 0 .. JIFFIES_MAX /\ timer_jiffies \in 0 .. JIFFIES_MAX + 1
    BY ClientAssumption, WordAssumption DEF Init
  <2>4. level \in {0} \cup 2 .. 5 /\ worker = "sleep"
    BY DEF Init
  <2>5. expires \in [Timers -> Words] /\ due \in [Timers -> Words]
    BY <2>2 DEF Init
  <2> QED
    BY <2>1, <2>3, <2>4, <2>5 DEF Init, TypeOK
<1>3. OnePlaceEach
  BY <1>1, HeadsDistinct DEF Init, OnePlaceEach
<1>4. WorkerShape
  BY DEF Init, WorkerShape
<1>5. Placement
  BY <1>1, HeadsDistinct DEF Placement
<1> QED
  BY <1>2, <1>3, <1>4, <1>5 DEF IInv

\* Every step keeps the inductive invariant.
LEMMA NextInvariant ==
    IInv /\ [Next]_vars => IInv'
<1> SUFFICES ASSUME IInv, [Next]_vars PROVE IInv'
  OBVIOUS
<1>1. TypeOK /\ OnePlaceEach /\ WorkerShape
  BY DEF IInv
<1>2. ASSUME NEW t \in Timers, NEW e \in Timeouts, AddTimer(t, e)
      PROVE  IInv'
  <2>1. e \in Words
    BY <1>1, TypesOfWords
  <2> QED
    BY <1>2, <2>1, ArmStep DEF AddTimer
<1>3. ASSUME NEW t \in Timers, NEW e \in Timeouts,
             ModTimer(t, e) \/ ModTimerPending(t, e)
      PROVE  IInv'
  <2>1. e \in Words /\ expires[t] \in Words
    BY <1>1, TypesOfWords DEF TypeOK
  <2> QED
    BY <1>3, <2>1, ArmStep DEF ModTimer, ModTimerPending
<1>4. ASSUME NEW t \in Timers, DelTimer(t)
      PROVE  IInv'
  BY <1>4, DisarmStep DEF DelTimer
<1>5. ASSUME NEW t \in Timers, Expire(t)
      PROVE  IInv'
  BY <1>5, DisarmStep DEF Expire
<1>6. ASSUME NEW k \in Advances, Wake(k)
      PROVE  IInv'
  <2>1. k \in Nat
    BY ClientAssumption
  <2>2. jiffies' \in 0 .. JIFFIES_MAX
    BY <1>1, <1>6, <2>1, WordAssumption DEF Wake, TypeOK
  <2> QED
    BY <1>6, <2>2, QuietStep DEF Wake
<1>7. jiffies \in 0 .. JIFFIES_MAX
  BY <1>1 DEF TypeOK
<1>8. CASE Lock
  BY <1>7, <1>8, QuietStep DEF Lock
<1>9. CASE FnReturn
  BY <1>7, <1>9, QuietStep DEF FnReturn
<1>10. CASE EndRun
  BY <1>7, <1>10, QuietStep DEF EndRun
<1>11. CASE UNCHANGED vars
  BY <1>7, <1>11, QuietStep DEF vars
<1>12. CASE StartTick
  <2>1. /\ worker = "run" /\ level = 0
        /\ list[WorkList] = <<>> /\ list[TvList] = <<>>
    BY <1>1, <1>12 DEF StartTick, WorkerShape, OnePlaceEach
  <2>2. timer_jiffies <= jiffies /\ timer_jiffies \in Nat
    <3>1. /\ jiffies \in 0 .. JIFFIES_MAX + 1
          /\ timer_jiffies \in 0 .. JIFFIES_MAX + 1
      BY <1>1, WordAssumption DEF TypeOK
    <3>2. jiffies >= timer_jiffies
      BY <1>12, <3>1, ClockOrder DEF StartTick
    <3> QED
      BY <3>1, <3>2, WordAssumption
  <2>3. CASE Index(1, timer_jiffies) = 0
    <3>1. BeginCascade(2)
      BY <1>12, <2>3 DEF StartTick
    <3> QED
      BY <1>12, <2>1, <2>2, <3>1, BeginCascadeStep DEF StartTick
  <2>4. CASE Index(1, timer_jiffies) # 0
    <3>1. OpenTick
      BY <1>12, <2>4 DEF StartTick
    <3>2. \A m \in 2 .. 5 : \A k \in Nat : timer_jiffies # k * Gran[m]
      <4>1. \A m \in 2 .. 5 : \A k \in Nat : Index(1, k * Gran[m]) = 0
        <5> SUFFICES ASSUME NEW m \in 2 .. 5, NEW k \in Nat
                     PROVE  Index(1, k * Gran[m]) = 0
          OBVIOUS
        <5>1. 1 \in 1 .. 4 /\ m \in 1 + 1 .. 5
          OBVIOUS
        <5> QED
          BY <5>1, BoundaryIndex
      <4> QED
        BY <2>4, <4>1
    <3> QED
      BY <1>12, <2>1, <2>2, <3>1, <3>2, OpenTickStep DEF StartTick
  <2> QED
    BY <2>3, <2>4
<1>13. CASE CascadeTimer
  BY <1>13, CascadeTimerStep
<1>14. CASE CascadeDone
  <2>1. /\ worker = "cascade" /\ level \in 2 .. 5 /\ timer_jiffies <= jiffies
        /\ list[WorkList] = <<>> /\ list[TvList] = <<>>
    BY <1>1, <1>14 DEF CascadeDone, WorkerShape, OnePlaceEach, TypeOK
  <2>2. CASE level < 5 /\ Index(level, timer_jiffies) = 0
    <3>1. BeginCascade(level + 1)
      BY <1>14, <2>2 DEF CascadeDone
    <3>2. PICK l \in 2 .. 5 : l = level + 1
      BY <2>1, <2>2
    <3>3. BeginCascade(l) /\ level = l - 1
      BY <2>1, <3>1, <3>2
    <3> QED
      BY <1>14, <2>1, <3>3, BeginCascadeStep DEF CascadeDone
  <2>3. CASE ~ (level < 5 /\ Index(level, timer_jiffies) = 0)
    <3>1. OpenTick
      BY <1>14, <2>3 DEF CascadeDone
    <3>2. \A m \in 2 .. 5 :
             m > level => \A k \in Nat : timer_jiffies # k * Gran[m]
      <4> SUFFICES ASSUME NEW m \in 2 .. 5, m > level, NEW k \in Nat,
                          timer_jiffies = k * Gran[m]
                   PROVE  FALSE
        OBVIOUS
      <4>1. level \in 1 .. 4 /\ m \in level + 1 .. 5 /\ level < 5
        BY <2>1
      <4>2. Index(level, k * Gran[m]) = 0
        BY <4>1, BoundaryIndex
      <4> QED
        BY <2>3, <4>1, <4>2
    <3> QED
      BY <1>14, <2>1, <3>1, <3>2, OpenTickStep DEF CascadeDone
  <2> QED
    BY <2>2, <2>3
<1> QED
  BY <1>2, <1>3, <1>4, <1>5, <1>6, <1>8, <1>9, <1>10, <1>11, <1>12, <1>13,
     <1>14 DEF Next, Client, RunTimers
-----------------------------------------------------------------------------
(***************************************************************************)
(* The theorems.                                                           *)
(***************************************************************************)
\* IInv holds in every state of every behaviour of the timer wheel.
THEOREM Invariance == Spec => []IInv
<1>1. Init => IInv
  BY InitInvariant
<1>2. IInv /\ [Next]_vars => IInv'
  BY NextInvariant
<1> QED
  BY <1>1, <1>2, PTL DEF Spec

\* Type correctness: timer_jiffies and the clock stay within the word, every
\* list is a list of timers, and no call leaves a timer half armed.
THEOREM TypeCorrect == Spec => []TypeOK
<1>1. IInv => TypeOK
  BY DEF IInv
<1> QED
  BY <1>1, Invariance, PTL

\* timer_pending tells the truth: a timer is linked into one list, once,
\* exactly while it is pending (internal_add_timer, detach_timer, cascade and
\* __run_timers, for any number of timers).
THEOREM StructureCorrect == Spec => []OnePlaceEach
<1>1. IInv => OnePlaceEach
  BY DEF IInv
<1> QED
  BY <1>1, Invariance, PTL

\* For any wheel, every pending timer that has not been filed by an old expiry
\* is where the worker will come to it when it is due: internal_add_timer files
\* it there and cascade keeps it so.
THEOREM PlacementCorrect == Spec => []Placement
<1>1. IInv => Placement
  BY DEF IInv
<1> QED
  BY <1>1, Invariance, PTL

\* A timer in its place is on time.
LEMMA PlacementOnTime ==
    IInv => OnTime
<1> SUFFICES ASSUME IInv, NEW t \in pending \ misfiled PROVE InTime(t)
  BY DEF OnTime
<1>1. PICK h \in ListHeads : t \in On(h)
  BY DEF IInv, OnePlaceEach
<1>2. t \in Timers /\ due[t] \in Nat /\ timer_jiffies \in Nat
  BY WordAssumption DEF IInv, TypeOK, Words
<1>3. CASE h = WorkList
  BY <1>1, <1>3 DEF IInv, Placement, InTime
<1>4. CASE h # WorkList
  <2>1. t \notin On(WorkList)
    BY <1>1, <1>4, HeadsDistinct DEF IInv, OnePlaceEach
  <2>2. CASE h = TvList
    <3>1. due[t] \in timer_jiffies .. timer_jiffies + WORD \div 2 - 1
      BY <1>1, <2>2 DEF IInv, Placement
    <3> QED
      BY <1>2, <2>1, <3>1 DEF InTime
  <2>3. CASE h \in Buckets
    <3>1. Placed(t, h[1], h[2])
      BY <1>1, <2>3 DEF IInv, Placement
    <3>2. PICK l \in Levels : \E i \in 0 .. Size(l) - 1 : h = <<l, i>>
      BY <2>3 DEF Buckets
    <3>3. h[1] = l /\ Gran[l] \in Nat
      BY <3>2, GranType
    <3>4. CASE l = 1
      BY <1>2, <2>1, <3>1, <3>3, <3>4 DEF Placed, InTime
    <3>5. CASE l # 1
      <4>1. PICK k \in 0 .. due[t] : /\ timer_jiffies <= k * Gran[l]
                                     /\ k * Gran[l] <= due[t]
        BY <3>1, <3>3, <3>5 DEF Placed
      <4>2. due[t] >= timer_jiffies
        BY <1>2, <3>3, <4>1
      <4> QED
        BY <2>1, <4>2 DEF InTime
    <3> QED
      BY <3>4, <3>5
  <2> QED
    BY <1>4, <2>2, <2>3 DEF ListHeads
<1> QED
  BY <1>3, <1>4

\* A timer filed by its own expiry runs in the tick it was promised for,
\* never earlier and never later, through any number of cascades.
THEOREM Punctuality == Spec => []OnTime
<1>1. IInv => OnTime
  BY PlacementOnTime
<1> QED
  BY <1>1, Invariance, PTL
-----------------------------------------------------------------------------
(***************************************************************************)
(* The wheel implements the timer service.                                 *)
(***************************************************************************)
\* No timeout comes out before the next tick.
LEMMA DueIsAhead ==
    ASSUME timer_jiffies \in 0 .. JIFFIES_MAX + 1, NEW e \in Words
    PROVE  DueTick(e) >= timer_jiffies
<1>1. /\ timer_jiffies \in Nat /\ e \in Nat /\ WORD \in Nat \ {0} /\ e < WORD
      /\ 4 * timer_jiffies <= WORD
  BY WordAssumption DEF Words
<1>2. ASSUME e < timer_jiffies PROVE ~ TimeAfterEq(e, timer_jiffies)
  <2>1. /\ e - timer_jiffies \in Int /\ -WORD <= e - timer_jiffies
        /\ e - timer_jiffies < WORD /\ e - timer_jiffies < 0
    BY <1>1, <1>2
  <2>2. (e - timer_jiffies) % WORD = e - timer_jiffies + WORD
    <3>1. (e - timer_jiffies) % WORD =
             IF e - timer_jiffies < 0 THEN e - timer_jiffies + WORD
                                      ELSE e - timer_jiffies
      BY <1>1, <2>1, ModSmall
    <3> QED
      BY <2>1, <3>1
  <2>3. WORD \div 2 <= e - timer_jiffies + WORD
    BY <1>1
  <2> QED
    BY <1>1, <2>2, <2>3 DEF TimeAfterEq
<1> QED
  BY <1>1, <1>2 DEF DueTick

\* A client call that files a timer is the service's Set.
LEMMA ArmIsSet ==
    ASSUME IInv, NEW t \in Timers, NEW f, NEW e \in Words, Arm(t, f, e)
    PROVE  Service!Next
<1>1. DueTick(e) >= timer_jiffies /\ DueTick(e) \in Words
  BY DueIsAhead, TypesOfWords DEF IInv, TypeOK
<1>2. \/ misfiled' = misfiled \ {t}
      \/ misfiled' = misfiled \cup {t}
  BY DEF Arm
<1>3. Service!Set(t, DueTick(e))
  BY <1>1, <1>2 DEF Arm, Service!Set
<1> QED
  BY <1>1, <1>3 DEF Service!Next

\* No tick is opened while a timer bound to an earlier one waits.
LEMMA OpenTickIsTick ==
    ASSUME IInv, OpenTick, list[WorkList] = <<>>, timer_jiffies <= jiffies,
           worker # "fn",
           UNCHANGED <<jiffies, expires, pending, running, due, misfiled>>
    PROVE  Service!Next
<1>1. timer_jiffies <= JIFFIES_MAX /\ running = {}
  BY WordAssumption DEF IInv, TypeOK, WorkerShape
<1>2. \A t \in pending \ misfiled : due[t] >= timer_jiffies
  <2>1. On(WorkList) = {}
    BY EmptyList DEF On
  <2> QED
    BY <2>1, PlacementOnTime DEF OnTime, InTime
<1>3. Service!Tick
  BY <1>1, <1>2 DEF OpenTick, Service!Tick
<1> QED
  BY <1>3 DEF Service!Next

\* Entering a callback is the service's Run.
LEMMA ExpireIsRun ==
    ASSUME IInv, NEW t \in Timers, Expire(t)
    PROVE  Service!Next
<1>1. t \in On(WorkList) /\ WorkList \in ListHeads
  BY ListsAreLinked, PopLists, HeadsDistinct DEF Expire
<1>2. t \in pending
  BY <1>1 DEF IInv, OnePlaceEach
<1>3. t \notin misfiled => due[t] = timer_jiffies - 1
  BY <1>1 DEF IInv, Placement
<1>4. running = {}
  BY DEF IInv, WorkerShape, Expire
<1>5. Service!Run(t)
  BY <1>2, <1>3, <1>4 DEF Expire, Disarm, Service!Run, Service!Drop
<1> QED
  BY <1>5 DEF Service!Next

\* Every step of the wheel is a step of the service or leaves it as it is.
LEMMA StepRefinement ==
    IInv /\ [Next]_vars => [Service!Next]_(Service!vars)
<1> SUFFICES ASSUME IInv, [Next]_vars PROVE [Service!Next]_(Service!vars)
  OBVIOUS
<1>1. TypeOK /\ OnePlaceEach /\ WorkerShape
  BY DEF IInv
<1> DEFINE Same == UNCHANGED <<timer_jiffies, pending, due, misfiled, running>>
<1>2. ASSUME NEW t \in Timers, NEW e \in Timeouts,
             AddTimer(t, e) \/ ModTimer(t, e) \/ ModTimerPending(t, e)
      PROVE  Service!Next
  <2>1. e \in Words
    BY <1>1, TypesOfWords
  <2>2. \E f : Arm(t, f, e)
    BY <1>2 DEF AddTimer, ModTimer, ModTimerPending
  <2> QED
    BY <2>1, <2>2, ArmIsSet
<1>3. ASSUME NEW t \in Timers, DelTimer(t)
      PROVE  Service!Next
  <2>1. Service!Cancel(t)
    BY <1>3 DEF DelTimer, Disarm, Service!Cancel, Service!Drop
  <2> QED
    BY <2>1 DEF Service!Next
<1>4. ASSUME NEW t \in Timers, Expire(t)
      PROVE  Service!Next
  BY <1>4, ExpireIsRun
<1>5. ASSUME NEW k \in Advances, Wake(k)
      PROVE  Same
  BY <1>5 DEF Wake
<1>6. CASE Lock \/ CascadeTimer \/ EndRun
  BY <1>6 DEF Lock, CascadeTimer, EndRun, Service!vars
<1>7. CASE FnReturn
  <2>1. Service!Return
    BY <1>1, <1>7 DEF FnReturn, WorkerShape, Service!Return
  <2> QED
    BY <2>1 DEF Service!Next
<1>8. CASE StartTick
  <2>1. timer_jiffies <= jiffies
    <3>1. /\ jiffies \in 0 .. JIFFIES_MAX + 1
          /\ timer_jiffies \in 0 .. JIFFIES_MAX + 1
      BY <1>1, WordAssumption DEF TypeOK
    <3>2. jiffies >= timer_jiffies
      BY <1>8, <3>1, ClockOrder DEF StartTick
    <3> QED
      BY <3>1, <3>2, WordAssumption
  <2>2. CASE Index(1, timer_jiffies) = 0
    BY <1>8, <2>2 DEF StartTick, BeginCascade, Service!vars
  <2>3. CASE Index(1, timer_jiffies) # 0
    BY <1>8, <2>1, <2>3, OpenTickIsTick DEF StartTick
  <2> QED
    BY <2>2, <2>3
<1>9. CASE CascadeDone
  <2>1. CASE level < 5 /\ Index(level, timer_jiffies) = 0
    BY <1>9, <2>1 DEF CascadeDone, BeginCascade, Service!vars
  <2>2. CASE ~ (level < 5 /\ Index(level, timer_jiffies) = 0)
    <3>1. /\ OpenTick /\ list[WorkList] = <<>>
          /\ timer_jiffies <= jiffies /\ worker # "fn"
          /\ UNCHANGED <<jiffies, expires, pending, running, due, misfiled>>
      BY <1>1, <1>9, <2>2 DEF CascadeDone, OnePlaceEach, WorkerShape
    <3> QED
      BY <3>1, OpenTickIsTick
  <2> QED
    BY <2>1, <2>2
<1>10. CASE UNCHANGED vars
  BY <1>10 DEF vars, Service!vars
<1> QED
  BY <1>2, <1>3, <1>4, <1>5, <1>6, <1>7, <1>8, <1>9, <1>10
     DEF Next, Client, RunTimers, Service!vars

\* Every run of the wheel is a run of the timer service: bound timers run in
\* the tick they were set for or are cancelled first, and a tick is opened
\* only when none of them waits for an earlier one.
THEOREM Refinement == Spec => ImplementsService
<1>1. Init => Service!Init
  BY ClientAssumption DEF Init, Service!Init
<1>2. IInv /\ [Next]_vars => [Service!Next]_(Service!vars)
  BY StepRefinement
<1> QED
  BY <1>1, <1>2, Invariance, PTL DEF Spec, ImplementsService, Service!Spec
-----------------------------------------------------------------------------
(***************************************************************************)
(* First in, first out.  The invariant behind FifoPerVector: of two timers *)
(* due in the same tick, the one whose list will be worked off sooner was  *)
(* armed first, or filed in a nearer vector.                               *)
(***************************************************************************)
\* The order in which the lists are worked off: the work list, then vector
\* by vector; a bucket that is being cascaded comes after what is left of its
\* vector.
Turn(h, lev) == IF h = WorkList THEN 0
                ELSE IF h = TvList THEN 2 * lev + 1
                ELSE 2 * h[1]

\* t is to run before u if they are due in the same tick.
Sooner(L, lev, t, u) ==
    \E g, h \in ListHeads :
       /\ t \in Range(L[g])
       /\ u \in Range(L[h])
       /\ \/ Turn(g, lev) < Turn(h, lev)
          \/ g = h /\ Ahead(L[g], t, u)

Earlier(t, u) == Ahead(order, t, u) \/ vector[t] < vector[u]

InOrder == \A t, u \in pending \ misfiled :
              due[t] = due[u] /\ Sooner(list, level, t, u) => Earlier(t, u)

\* The history variables name the pending timers.
Armed == /\ order \in Seq(Timers)
         /\ IsInjective(order)
         /\ Range(order) = pending
         /\ vector \in [Timers -> 0 .. 5]

\* A vector is cascaded at the start of one of its blocks.
Boundary == level # 0 => \E k \in Nat : timer_jiffies = k * Gran[level]

\* A timer is in the bucket of its tick, in a vector that reaches that tick
\* and is no farther than the one it was first filed in.
Reached(t, l, i) ==
    /\ i = Index(l, due[t])
    /\ l <= vector[t]
    /\ l <= 4 => due[t] < timer_jiffies + Gran[l + 1]

InReach ==
    /\ \A b \in Buckets : \A t \in On(b) \ misfiled : Reached(t, b[1], b[2])
    /\ \A t \in On(TvList) \ misfiled :
          /\ level <= vector[t]
          /\ level <= 4 => due[t] < timer_jiffies + Gran[level + 1]

FifoIInv == IInv /\ Armed /\ Boundary /\ InReach /\ InOrder

\* Who is ahead of whom in a duplicate-free list.
LEMMA AheadProperties ==
    ASSUME NEW S, NEW q \in Seq(S), IsInjective(q), NEW t, NEW u, Ahead(q, t, u)
    PROVE  t \in Range(q) /\ u \in Range(q) /\ t # u
<1>1. DOMAIN q = 1 .. Len(q) /\ Len(q) \in Nat
  OBVIOUS
<1>2. PICK i, j \in 1 .. Len(q) : i < j /\ q[i] = t /\ q[j] = u
  BY <1>1 DEF Ahead
<1>3. t # u
  BY <1>1, <1>2 DEF IsInjective
<1> QED
  BY <1>1, <1>2, <1>3 DEF Range

\* Unlinking an element leaves the order of the others alone.
LEMMA AheadRemove ==
    ASSUME NEW S, NEW q \in Seq(S), IsInjective(q), NEW e,
           NEW t, NEW u, t # e, u # e
    PROVE  Ahead(RemoveFirst(q, e), t, u) <=> Ahead(q, t, u)
<1>1. CASE ~ \E i \in 1 .. Len(q) : q[i] = e
  BY <1>1 DEF RemoveFirst
<1>2. CASE \E i \in 1 .. Len(q) : q[i] = e
  <2>1. PICK i \in 1 .. Len(q) : q[i] = e
    BY <1>2
  <2>2. \A j \in 1 .. Len(q) : q[j] = e => j = i
    BY <2>1 DEF IsInjective
  <2>3. {j \in 1 .. Len(q) : q[j] = e} = {i}
    BY <2>1, <2>2
  <2>4. Min({i}) = i
    BY DEF Min
  <2>5. RemoveFirst(q, e) = RemoveAt(q, i)
    BY <1>2, <2>3, <2>4 DEF RemoveFirst, SelectInSeq
  <2> DEFINE r == RemoveAt(q, i)
  <2>6. /\ r \in Seq(S)
        /\ Len(r) = Len(q) - 1
        /\ \A j \in 1 .. Len(q) - 1 : r[j] = q[IF j < i THEN j ELSE j + 1]
    BY RemoveAtProperties
  <2> HIDE DEF r
  <2>7. DOMAIN r = 1 .. Len(q) - 1 /\ DOMAIN q = 1 .. Len(q) /\ Len(q) \in Nat
    BY <2>6
  <2>8. ASSUME Ahead(r, t, u) PROVE Ahead(q, t, u)
    <3>1. PICK a, b \in 1 .. Len(q) - 1 : a < b /\ r[a] = t /\ r[b] = u
      BY <2>7, <2>8 DEF Ahead
    <3>2. PICK c : c = IF a < i THEN a ELSE a + 1
      OBVIOUS
    <3>3. PICK d : d = IF b < i THEN b ELSE b + 1
      OBVIOUS
    <3>4. q[c] = t /\ q[d] = u
      BY <2>6, <3>1, <3>2, <3>3
    <3>5. c \in 1 .. Len(q) /\ d \in 1 .. Len(q) /\ c < d
      BY <2>7, <3>1, <3>2, <3>3
    <3> QED
      BY <2>7, <3>4, <3>5 DEF Ahead
  <2>9. ASSUME Ahead(q, t, u) PROVE Ahead(r, t, u)
    <3>1. PICK a, b \in 1 .. Len(q) : a < b /\ q[a] = t /\ q[b] = u
      BY <2>7, <2>9 DEF Ahead
    <3>2. a # i /\ b # i
      BY <2>1, <3>1
    <3>3. PICK c : c = IF a < i THEN a ELSE a - 1
      OBVIOUS
    <3>4. PICK d : d = IF b < i THEN b ELSE b - 1
      OBVIOUS
    <3>5. c \in 1 .. Len(q) - 1 /\ d \in 1 .. Len(q) - 1 /\ c < d
      BY <2>7, <3>1, <3>2, <3>3, <3>4
    <3>6. /\ (IF c < i THEN c ELSE c + 1) = a
          /\ (IF d < i THEN d ELSE d + 1) = b
      BY <3>1, <3>2, <3>3, <3>4
    <3>7. r[c] = q[a] /\ r[d] = q[b]
      BY <2>6, <3>5, <3>6
    <3> QED
      BY <2>7, <3>1, <3>5, <3>7 DEF Ahead
  <2> QED
    BY <2>5, <2>8, <2>9 DEF r
<1> QED
  BY <1>1, <1>2

\* A timer that is linked last is behind all others.
LEMMA AheadAppend ==
    ASSUME NEW S, NEW q \in Seq(S), NEW e \in S, e \notin Range(q), NEW t, NEW u
    PROVE  Ahead(Append(q, e), t, u) <=> \/ Ahead(q, t, u)
                                         \/ t \in Range(q) /\ u = e
<1>1. PICK r : r = Append(q, e)
  OBVIOUS
<1>2. PICK n : n = Len(q)
  OBVIOUS
<1>3. /\ n \in Nat
      /\ DOMAIN q = 1 .. n
      /\ DOMAIN r = 1 .. n + 1
      /\ \A j \in 1 .. n : r[j] = q[j]
      /\ r[n + 1] = e
  BY <1>1, <1>2
<1>4. \A j \in 1 .. n : q[j] # e
  BY <1>3 DEF Range
<1>5. ASSUME Ahead(r, t, u), ~ Ahead(q, t, u)
      PROVE  t \in Range(q) /\ u = e
  <2>1. PICK i, j \in 1 .. n + 1 : i < j /\ r[i] = t /\ r[j] = u
    BY <1>3, <1>5 DEF Ahead
  <2>2. i \in 1 .. n
    BY <1>3, <2>1
  <2>3. j = n + 1
    <3>1. SUFFICES ASSUME j \in 1 .. n PROVE FALSE
      BY <1>3
    <3> QED
      BY <1>3, <1>5, <2>1, <2>2, <3>1 DEF Ahead
  <2> QED
    BY <1>3, <2>1, <2>2, <2>3 DEF Range
<1>6. ASSUME Ahead(q, t, u) PROVE Ahead(r, t, u)
  <2>1. PICK i, j \in 1 .. n : i < j /\ q[i] = t /\ q[j] = u
    BY <1>3, <1>6 DEF Ahead
  <2>2. i \in 1 .. n + 1 /\ j \in 1 .. n + 1 /\ r[i] = t /\ r[j] = u
    BY <1>3, <2>1
  <2> QED
    BY <1>3, <2>1, <2>2 DEF Ahead
<1>7. ASSUME t \in Range(q), u = e PROVE Ahead(r, t, u)
  <2>1. PICK i \in 1 .. n : q[i] = t
    BY <1>3, <1>7 DEF Range
  <2>2. /\ i \in 1 .. n + 1 /\ n + 1 \in 1 .. n + 1 /\ i < n + 1
        /\ r[i] = t /\ r[n + 1] = u
    BY <1>3, <1>7, <2>1
  <2> QED
    BY <1>3, <2>2 DEF Ahead
<1> QED
  BY <1>1, <1>5, <1>6, <1>7

\* The first timer is ahead of all others, whose order stays.
LEMMA AheadTail ==
    ASSUME NEW S, NEW q \in Seq(S), IsInjective(q), q # <<>>, NEW t, NEW u
    PROVE  /\ Ahead(Tail(q), t, u) => Ahead(q, t, u)
           /\ u \in Range(q) \ {Head(q)} => Ahead(q, Head(q), u)
<1>1. PICK r : r = Tail(q)
  OBVIOUS
<1>2. PICK n : n = Len(q)
  OBVIOUS
<1>3. /\ n \in Nat \ {0}
      /\ DOMAIN q = 1 .. n
      /\ DOMAIN r = 1 .. n - 1
      /\ \A j \in 1 .. n - 1 : r[j] = q[j + 1]
      /\ Head(q) = q[1]
  BY <1>1, <1>2
<1>4. ASSUME Ahead(r, t, u) PROVE Ahead(q, t, u)
  <2>1. PICK i, j \in 1 .. n - 1 : i < j /\ r[i] = t /\ r[j] = u
    BY <1>3, <1>4 DEF Ahead
  <2>2. i + 1 \in 1 .. n /\ j + 1 \in 1 .. n /\ i + 1 < j + 1
    BY <1>3, <2>1
  <2>3. q[i + 1] = t /\ q[j + 1] = u
    BY <1>3, <2>1
  <2> QED
    BY <1>3, <2>2, <2>3 DEF Ahead
<1>5. ASSUME u \in Range(q) \ {Head(q)} PROVE Ahead(q, Head(q), u)
  <2>1. PICK j \in 1 .. n : q[j] = u
    BY <1>3, <1>5 DEF Range
  <2>2. j # 1
    BY <1>3, <1>5, <2>1
  <2>3. 1 \in 1 .. n /\ 1 < j
    BY <1>3, <2>1, <2>2
  <2> QED
    BY <1>3, <2>1, <2>3 DEF Ahead
<1> QED
  BY <1>1, <1>4, <1>5

\* The farther vectors have the larger buckets.
LEMMA GranGrows ==
    ASSUME NEW l \in Levels, NEW m \in Levels, l <= m
    PROVE  Gran[l] <= Gran[m]
<1>1. \A n \in 1 .. 4 : Gran[n] <= Gran[n + 1]
  <2> SUFFICES ASSUME NEW n \in 1 .. 4 PROVE Gran[n] <= Gran[n + 1]
    OBVIOUS
  <2>1. /\ Gran[n] \in Nat \ {0} /\ Size(n) \in Nat \ {0}
        /\ Gran[n] * Size(n) = Gran[n + 1]
    BY GranType DEF Levels
  <2>2. \A g, s \in Nat \ {0} : g <= g * s
    OBVIOUS
  <2> QED
    BY <2>1, <2>2
<1>2. /\ Gran[1] <= Gran[1 + 1] /\ Gran[2] <= Gran[2 + 1]
      /\ Gran[3] <= Gran[3 + 1] /\ Gran[4] <= Gran[4 + 1]
  BY <1>1
<1>3. /\ Gran[1] \in Nat /\ Gran[2] \in Nat /\ Gran[3] \in Nat
      /\ Gran[4] \in Nat /\ Gran[5] \in Nat
  BY GranType DEF Levels
<1>4. 1 + 1 = 2 /\ 2 + 1 = 3 /\ 3 + 1 = 4 /\ 4 + 1 = 5
  OBVIOUS
<1>5. /\ l = 1 \/ l = 2 \/ l = 3 \/ l = 4 \/ l = 5
      /\ m = 1 \/ m = 2 \/ m = 3 \/ m = 4 \/ m = 5
  BY DEF Levels
<1>6. /\ Gran[1] <= Gran[2] /\ Gran[2] <= Gran[3]
      /\ Gran[3] <= Gran[4] /\ Gran[4] <= Gran[5]
  BY <1>2, <1>4
<1> QED
  BY <1>3, <1>5, <1>6

\* internal_add_timer files a timer it need not cap in the bucket of its due
\* tick, in the nearest vector that reaches that tick.
LEMMA FileReached ==
    ASSUME timer_jiffies \in 0 .. JIFFIES_MAX + 1, NEW e \in Words,
           DueTick(e) - timer_jiffies <= IDX_MAX
    PROVE  \E l \in Levels :
              /\ Bucket(e) = <<l, Index(l, DueTick(e))>>
              /\ l <= 4 => DueTick(e) < timer_jiffies + Gran[l + 1]
              /\ l > 1 => DueTick(e) >= timer_jiffies + Gran[l]
<1> DEFINE T == timer_jiffies
           idx == (e - T) % WORD
           near == {l \in 1 .. 4 : idx < Gran[l] * Size(l)}
           capped == IF idx > IDX_MAX THEN (IDX_MAX + T) % WORD ELSE e
<1>1. /\ T \in Nat /\ e \in Nat /\ WORD \in Nat \ {0} /\ e < WORD
      /\ 4 * (T + 1) <= WORD /\ idx \in 0 .. WORD - 1
      /\ idx = IF e < T THEN e - T + WORD ELSE e - T
  <2>1. /\ T \in Nat /\ e \in Nat /\ WORD \in Nat \ {0} /\ e < WORD
        /\ 4 * (T + 1) <= WORD
    BY WordAssumption DEF Words
  <2>2. e - T \in Int /\ -WORD <= e - T /\ e - T < WORD
    BY <2>1
  <2>3. idx = IF e - T < 0 THEN e - T + WORD ELSE e - T
    BY <2>1, <2>2, ModSmall
  <2> HIDE DEF idx
  <2> QED
    BY <2>1, <2>3
<1>2. WORD \div 2 \in Nat /\ 2 * (WORD \div 2) <= WORD
      /\ WORD <= 2 * (WORD \div 2) + 1
  BY <1>1
<1>3. TimeAfterEq(e, T) <=> idx < WORD \div 2
  BY DEF TimeAfterEq
<1>4. TimeAfterEq(e, T) => idx = e - T /\ e >= T
  BY <1>1, <1>2, <1>3
<1>5. Bucket(e) = IF near # {} THEN <<Min(near), Index(Min(near), e)>>
                  ELSE IF TimeAfterEq(e, T) THEN <<5, Index(5, capped)>>
                  ELSE <<1, Index(1, T)>>
  BY DEF Bucket
<1>6. DueTick(e) = IF TimeAfterEq(e, T) THEN e ELSE T
  BY DEF DueTick
<1>7. DueTick(e) - T <= IDX_MAX
  OBVIOUS
<1>8. \A l \in Levels : Gran[l] \in Nat
  BY GranType
<1> HIDE DEF T, idx, near, capped
<1>9. CASE near # {}
  <2>1. PICK l : l = Min(near)
    OBVIOUS
  <2>2. l \in 1 .. 4 /\ idx < Gran[l + 1] /\ (l > 1 => idx >= Gran[l])
    BY <1>1, <1>9, <2>1, Nearest DEF near
  <2>3. l \in Levels /\ l + 1 \in Levels /\ 5 \in Levels /\ l + 1 <= 5
    BY <2>2 DEF Levels
  <2>4. Gran[l + 1] <= Gran[5] /\ 2 * Gran[5] <= WORD
    BY <2>3, GranGrows, GranType
  <2>5. Gran[l] \in Nat /\ Gran[l + 1] \in Nat /\ Gran[5] \in Nat
    BY <1>8, <2>3
  <2>6. idx < WORD \div 2
    BY <1>1, <1>2, <2>2, <2>4, <2>5
  <2>7. DueTick(e) = e /\ idx = e - T /\ e >= T
    BY <1>3, <1>4, <1>6, <2>6
  <2>8. Bucket(e) = <<l, Index(l, DueTick(e))>>
    BY <1>5, <1>9, <2>1, <2>7
  <2>9. DueTick(e) < T + Gran[l + 1]
    BY <1>1, <2>2, <2>5, <2>7
  <2>10. l > 1 => DueTick(e) >= T + Gran[l]
    BY <1>1, <2>2, <2>5, <2>7
  <2> QED
    BY <2>3, <2>8, <2>9, <2>10 DEF T
<1>10. CASE near = {} /\ TimeAfterEq(e, T)
  <2>1. DueTick(e) = e /\ idx = e - T /\ e >= T
    BY <1>4, <1>6, <1>10
  <2>2. capped = e
    BY <1>1, <1>7, <2>1, WordAssumption DEF capped
  <2>3. Bucket(e) = <<5, Index(5, DueTick(e))>>
    BY <1>5, <1>10, <2>1, <2>2
  <2>4. ~ (idx < Gran[4] * Size(4))
    BY <1>10 DEF near
  <2>5. Gran[4] * Size(4) = Gran[5] /\ Gran[5] \in Nat
    <3>1. Gran[4] * Size(4) = Gran[4 + 1] /\ 4 + 1 = 5
      BY GranType
    <3> QED
      BY <1>8, <3>1 DEF Levels
  <2>6. DueTick(e) >= T + Gran[5]
    BY <1>1, <2>1, <2>4, <2>5
  <2>7. 5 \in Levels /\ ~ (5 <= 4)
    BY DEF Levels
  <2> QED
    BY <2>3, <2>6, <2>7 DEF T
<1>11. CASE near = {} /\ ~ TimeAfterEq(e, T)
  <2>1. Bucket(e) = <<1, Index(1, DueTick(e))>> /\ DueTick(e) = T
    BY <1>5, <1>6, <1>11
  <2>2. Gran[1 + 1] \in Nat \ {0}
    BY GranType DEF Levels
  <2>3. DueTick(e) < T + Gran[1 + 1]
    BY <1>1, <2>1, <2>2
  <2>4. 1 \in Levels /\ ~ (1 > 1)
    BY DEF Levels
  <2> QED
    BY <2>1, <2>3, <2>4 DEF T
<1> QED
  BY <1>9, <1>10, <1>11

\* A bucket is known by its vector and its index, and has its turn with its
\* vector.
LEMMA BucketTurn ==
    ASSUME NEW b \in Buckets
    PROVE  /\ b[1] \in Levels
           /\ \A lev : Turn(b, lev) = 2 * b[1]
           /\ \A c \in Buckets : b[1] = c[1] /\ b[2] = c[2] => b = c
<1>1. \A c \in Buckets : \E l \in Levels : \E i \in 0 .. Size(l) - 1 : c = <<l, i>>
  BY DEF Buckets
<1>2. \A c \in Buckets : c[1] \in Levels /\ c = <<c[1], c[2]>>
  BY <1>1
<1>3. b # WorkList /\ b # TvList
  BY HeadsDistinct
<1>4. \A lev : Turn(b, lev) = 2 * b[1]
  BY <1>3 DEF Turn
<1>5. \A c \in Buckets : b[1] = c[1] /\ b[2] = c[2] => b = c
  BY <1>2
<1> QED
  BY <1>2, <1>4, <1>5

\* The turns of the local lists.
LEMMA LocalTurns ==
    ASSUME NEW lev
    PROVE  Turn(WorkList, lev) = 0 /\ Turn(TvList, lev) = 2 * lev + 1
BY HeadsDistinct DEF Turn

\* The heads are the buckets and the local lists.
LEMMA HeadsAre ==
    ASSUME NEW h \in ListHeads
    PROVE  h \in Buckets \/ h = WorkList \/ h = TvList
BY DEF ListHeads

\* Timers due in the same tick and filed in the same vector share a bucket.
LEMMA SameBucket ==
    ASSUME InReach, NEW b \in Buckets, NEW c \in Buckets, b[1] = c[1],
           NEW t \in On(b) \ misfiled, NEW u \in On(c) \ misfiled,
           due[t] = due[u]
    PROVE  b = c
<1>1. Reached(t, b[1], b[2]) /\ Reached(u, c[1], c[2])
  BY DEF InReach
<1>2. b[2] = c[2]
  BY <1>1 DEF Reached
<1> QED
  BY <1>2, BucketTurn

\* A bucket that becomes tv_list, or the work list, keeps its turn.
LEMMA MoveOrder ==
    ASSUME WellLinked(list), InReach, InOrder,
           NEW from \in Buckets, NEW to \in {WorkList, TvList},
           list[WorkList] = <<>>, list[TvList] = <<>>,
           list' = Moved(from, to), level' \in Nat,
           \A m \in Levels : /\ 2 * m < Turn(to, level') => m <= from[1]
                             /\ Turn(to, level') < 2 * m => m >= from[1],
           UNCHANGED <<pending, misfiled, due, order, vector>>
    PROVE  InOrder'
<1>1. /\ from \in ListHeads /\ to \in ListHeads /\ from # to
      /\ list[to] = <<>>
  BY HeadsDistinct
<1>2. /\ list'[to] = list[from]
      /\ list'[from] = <<>>
      /\ \A h \in ListHeads \ {from, to} : list'[h] = list[h]
  BY <1>1, MoveLists
<1>3. \A h \in ListHeads : h \notin Buckets /\ h # to => list'[h] = <<>>
  BY <1>1, <1>2, HeadsAre
<1>4. \A x : x \notin Range(<<>>)
  BY EmptyList
<1>5. from[1] \in Levels /\ Turn(from, level) = 2 * from[1]
  BY BucketTurn
<1> SUFFICES ASSUME NEW t \in pending' \ misfiled', NEW u \in pending' \ misfiled',
                    due'[t] = due'[u], Sooner(list', level', t, u)
             PROVE  Earlier(t, u)'
  BY DEF InOrder
<1>6. t \in pending \ misfiled /\ u \in pending \ misfiled /\ due[t] = due[u]
  OBVIOUS
<1>7. SUFFICES Sooner(list, level, t, u)
  <2>1. ASSUME Sooner(list, level, t, u) PROVE Earlier(t, u)
    BY <1>6, <2>1 DEF InOrder
  <2> QED
    BY <2>1 DEF Earlier
<1>8. PICK g \in ListHeads, h \in ListHeads :
         /\ t \in Range(list'[g])
         /\ u \in Range(list'[h])
         /\ \/ Turn(g, level') < Turn(h, level')
            \/ g = h /\ Ahead(list'[g], t, u)
  BY DEF Sooner
<1>9. g # from /\ h # from
  BY <1>2, <1>4, <1>8
<1>10. (g \in Buckets \/ g = to) /\ (h \in Buckets \/ h = to)
  BY <1>3, <1>4, <1>8
<1>11. Turn(g, level') \in Int /\ Turn(h, level') \in Int
  <2>1. \A b \in Buckets : Turn(b, level') \in Int
    BY BucketTurn DEF Levels
  <2>2. Turn(to, level') \in Int
    BY LocalTurns
  <2> QED
    BY <1>10, <2>1, <2>2
<1>12. CASE g = h
  <2>1. Ahead(list'[g], t, u)
    BY <1>8, <1>11, <1>12
  <2>2. CASE g = to
    <3>1. t \in Range(list[from]) /\ u \in Range(list[from])
          /\ Ahead(list[from], t, u)
      BY <1>2, <1>8, <1>12, <2>1, <2>2
    <3> QED
      BY <1>1, <3>1 DEF Sooner
  <2>3. CASE g # to
    <3>1. list'[g] = list[g]
      BY <1>2, <1>9, <2>3
    <3> QED
      BY <1>8, <1>12, <2>1, <3>1 DEF Sooner
  <2> QED
    BY <2>2, <2>3
<1>13. CASE g # h
  <2>1. Turn(g, level') < Turn(h, level')
    BY <1>8, <1>13
  <2>2. CASE g = to
    <3>1. h \in Buckets /\ list'[h] = list[h]
      BY <1>2, <1>9, <1>10, <1>13, <2>2
    <3>2. t \in On(from) \ misfiled /\ u \in On(h) \ misfiled
      BY <1>2, <1>6, <1>8, <2>2, <3>1 DEF On
    <3>3. h[1] \in Levels /\ \A lev : Turn(h, lev) = 2 * h[1]
      BY <3>1, BucketTurn
    <3>4. h[1] >= from[1]
      BY <2>1, <2>2, <3>3
    <3>5. h[1] # from[1]
      BY <1>6, <1>9, <3>1, <3>2, SameBucket
    <3>6. Turn(from, level) < Turn(h, level)
      BY <1>5, <3>3, <3>4, <3>5 DEF Levels
    <3> QED
      BY <1>1, <3>2, <3>6 DEF Sooner, On
  <2>3. CASE h = to
    <3>1. g \in Buckets /\ list'[g] = list[g]
      BY <1>2, <1>9, <1>10, <1>13, <2>3
    <3>2. t \in On(g) \ misfiled /\ u \in On(from) \ misfiled
      BY <1>2, <1>6, <1>8, <2>3, <3>1 DEF On
    <3>3. g[1] \in Levels /\ \A lev : Turn(g, lev) = 2 * g[1]
      BY <3>1, BucketTurn
    <3>4. g[1] <= from[1]
      BY <2>1, <2>3, <3>3
    <3>5. g[1] # from[1]
      BY <1>6, <1>9, <3>1, <3>2, SameBucket
    <3>6. Turn(g, level) < Turn(from, level)
      BY <1>5, <3>3, <3>4, <3>5 DEF Levels
    <3> QED
      BY <1>1, <3>2, <3>6 DEF Sooner, On
  <2>4. CASE g # to /\ h # to
    <3>1. /\ g \in Buckets /\ list'[g] = list[g]
          /\ h \in Buckets /\ list'[h] = list[h]
      BY <1>2, <1>9, <1>10, <2>4
    <3>2. Turn(g, level) = Turn(g, level') /\ Turn(h, level) = Turn(h, level')
      BY <3>1, BucketTurn
    <3> QED
      BY <1>8, <2>1, <3>1, <3>2 DEF Sooner
  <2> QED
    BY <2>2, <2>3, <2>4
<1> QED
  BY <1>12, <1>13

\* What arming a timer does to the lists, and the vector it is filed in.
LEMMA ArmLists ==
    ASSUME IInv, NEW x \in Timers, NEW f \in Words, NEW e \in Words,
           Arm(x, f, e)
    PROVE  /\ Bucket(f) \in Buckets
           /\ WellLinked(list')
           /\ \A h \in ListHeads :
                 On(h)' = IF h = Bucket(f) THEN On(h) \cup {x} ELSE On(h) \ {x}
           /\ \A h \in ListHeads :
                 list'[h] = IF h = Bucket(f) THEN Append(Detached(x)[h], x)
                                             ELSE Detached(x)[h]
           /\ VectorOf(x, list') = Bucket(f)[1]
<1>1. PICK b : b = Bucket(f)
  OBVIOUS
<1>2. PICK D : D = Detached(x)
  OBVIOUS
<1>3. timer_jiffies \in 0 .. JIFFIES_MAX + 1
  BY DEF IInv, TypeOK
<1>4. b \in Buckets
  BY <1>1, <1>3, FilePlaced
<1>5. b \in ListHeads
  BY <1>4, HeadsDistinct
<1>6. /\ WellLinked(D)
      /\ \A h \in ListHeads : Range(D[h]) = On(h) \ {x}
  BY <1>2, ListsAreLinked, DetachLists
<1>7. list' = Linked(D, x, b)
  BY <1>1, <1>2 DEF Arm
<1>8. /\ WellLinked(list')
      /\ Range(list'[b]) = Range(D[b]) \cup {x}
      /\ \A h \in ListHeads : h # b => list'[h] = D[h]
  <2>1. \A h \in ListHeads : x \notin Range(D[h])
    BY <1>6
  <2> QED
    BY <1>5, <1>6, <1>7, <2>1, LinkLists
<1>9. list'[b] = Append(D[b], x)
  BY <1>5, <1>6, <1>7 DEF Linked, WellLinked
<1>10. \A h \in ListHeads :
         On(h)' = IF h = b THEN On(h) \cup {x} ELSE On(h) \ {x}
  BY <1>5, <1>6, <1>8 DEF On
<1>11. VectorOf(x, list') = b[1]
  <2>1. PICK l \in Levels : \E i \in 0 .. Size(l) - 1 : b = <<l, i>>
    BY <1>4 DEF Buckets
  <2>2. PICK i \in 0 .. Size(l) - 1 : b = <<l, i>>
    BY <2>1
  <2>3. b[1] = l
    BY <2>2
  <2>4. x \in Range(list'[<<l, i>>])
    BY <1>8, <2>2
  <2>5. ASSUME NEW m \in Levels, NEW j \in 0 .. Size(m) - 1,
               x \in Range(list'[<<m, j>>])
        PROVE  m = l
    <3>1. <<m, j>> \in Buckets
      BY DEF Buckets
    <3>2. <<m, j>> \in ListHeads
      BY <3>1, HeadsDistinct
    <3>3. <<m, j>> = b
      BY <1>5, <1>6, <1>8, <2>5, <3>2
    <3> QED
      BY <2>2, <3>3
  <2> QED
    BY <2>2, <2>3, <2>4, <2>5 DEF VectorOf
<1> QED
  BY <1>1, <1>2, <1>4, <1>8, <1>9, <1>10, <1>11

\* The clients' histories after a timer was armed.
LEMMA ArmArmed ==
    ASSUME IInv, Armed, NEW x \in Timers, NEW f \in Words, NEW e \in Words,
           Arm(x, f, e),
           order' = Append(RemoveFirst(order, x), x),
           vector' = [vector EXCEPT ![x] = VectorOf(x, list')]
    PROVE  /\ Armed'
           /\ vector'[x] = Bucket(f)[1]
           /\ \A t \in Timers \ {x} : vector'[t] = vector[t]
           /\ \A t \in pending \ {x} : Ahead(order', t, x)
           /\ \A t \in pending \ {x}, u \in pending \ {x} :
                 Ahead(order, t, u) => Ahead(order', t, u)
<1>1. PICK r : r = RemoveFirst(order, x)
  OBVIOUS
<1>2. /\ order \in Seq(Timers) /\ IsInjective(order) /\ Range(order) = pending
      /\ vector \in [Timers -> 0 .. 5]
  BY DEF Armed
<1>3. /\ r \in Seq(Timers)
      /\ IsInjective(r)
      /\ Range(r) = pending \ {x}
  BY <1>1, <1>2, RemoveFirstProperties
<1>4. /\ order' \in Seq(Timers)
      /\ IsInjective(order')
      /\ Range(order') = Range(r) \cup {x}
  BY <1>1, <1>3, AppendKeepsLists
<1>5. pending' = pending \cup {x}
  BY DEF Arm
<1>6. VectorOf(x, list') = Bucket(f)[1] /\ Bucket(f)[1] \in 0 .. 5
  BY ArmLists, BucketTurn DEF Levels
<1>7. Armed'
  BY <1>2, <1>3, <1>4, <1>5, <1>6 DEF Armed
<1>8. /\ vector'[x] = Bucket(f)[1]
      /\ \A t \in Timers \ {x} : vector'[t] = vector[t]
  BY <1>2, <1>6
<1>9. \A t, u : Ahead(order', t, u) <=> \/ Ahead(r, t, u)
                                        \/ t \in Range(r) /\ u = x
  <2> SUFFICES ASSUME NEW t, NEW u
               PROVE  Ahead(order', t, u) <=> \/ Ahead(r, t, u)
                                              \/ t \in Range(r) /\ u = x
    OBVIOUS
  <2>1. x \notin Range(r)
    BY <1>3
  <2> QED
    BY <1>1, <1>3, <2>1, AheadAppend
<1>10. \A t \in pending \ {x}, u \in pending \ {x} :
          Ahead(order, t, u) => Ahead(r, t, u)
  <2> SUFFICES ASSUME NEW t \in pending \ {x}, NEW u \in pending \ {x},
                      Ahead(order, t, u)
               PROVE  Ahead(r, t, u)
    OBVIOUS
  <2>1. t # x /\ u # x
    OBVIOUS
  <2> QED
    BY <1>1, <1>2, <2>1, AheadRemove
<1> QED
  BY <1>3, <1>7, <1>8, <1>9, <1>10

\* Detaching a timer keeps the order of the others.
LEMMA DetachOrder ==
    ASSUME WellLinked(list), NEW x, NEW h \in ListHeads,
           NEW t, NEW u, t # x, u # x
    PROVE  Ahead(Detached(x)[h], t, u) <=> Ahead(list[h], t, u)
<1>1. Detached(x)[h] = RemoveFirst(list[h], x)
  BY DEF Detached
<1>2. list[h] \in Seq(Timers) /\ IsInjective(list[h])
  BY DEF WellLinked
<1> QED
  BY <1>1, <1>2, AheadRemove

\* Arming a timer: it is last in the order of arming and in its list, and
\* the lists whose turn is later are of farther vectors.
LEMMA ArmOrder ==
    ASSUME IInv, Armed, InReach, InOrder,
           NEW x \in Timers, NEW f \in Words, NEW e \in Words,
           Serialized, Arm(x, f, e),
           order' = Append(RemoveFirst(order, x), x),
           vector' = [vector EXCEPT ![x] = VectorOf(x, list')]
    PROVE  InOrder'
<1>1. PICK b : b = Bucket(f)
  OBVIOUS
<1>2. PICK D : D = Detached(x)
  OBVIOUS
<1>3. WellLinked(list) /\ WellLinked(D)
      /\ \A h \in ListHeads : Range(D[h]) = On(h) \ {x}
  BY <1>2, ListsAreLinked, DetachLists
<1>4. /\ b \in Buckets
      /\ WellLinked(list')
      /\ \A h \in ListHeads :
            On(h)' = IF h = b THEN On(h) \cup {x} ELSE On(h) \ {x}
      /\ \A h \in ListHeads :
            list'[h] = IF h = b THEN Append(D[h], x) ELSE D[h]
  BY <1>1, <1>2, ArmLists
<1>5. /\ vector'[x] = b[1]
      /\ \A t \in Timers \ {x} : vector'[t] = vector[t]
      /\ \A t \in pending \ {x} : Ahead(order', t, x)
      /\ \A t \in pending \ {x}, u \in pending \ {x} :
            Ahead(order, t, u) => Ahead(order', t, u)
  BY <1>1, ArmArmed
<1>6. /\ pending' = pending \cup {x} /\ level' = level
      /\ \A t \in Timers \ {x} : /\ due'[t] = due[t]
                                 /\ t \in misfiled' <=> t \in misfiled
  BY DEF Arm, IInv, TypeOK
<1>7. pending \subseteq Timers /\ list[TvList] = <<>>
  BY DEF IInv, TypeOK, OnePlaceEach, Serialized
<1> SUFFICES ASSUME NEW t \in pending' \ misfiled',
                    NEW u \in pending' \ misfiled',
                    due'[t] = due'[u], Sooner(list', level', t, u)
             PROVE  Earlier(t, u)'
  BY DEF InOrder
<1>8. PICK g \in ListHeads, h \in ListHeads :
         /\ t \in Range(list'[g])
         /\ u \in Range(list'[h])
         /\ \/ Turn(g, level) < Turn(h, level)
            \/ g = h /\ Ahead(list'[g], t, u)
  BY <1>6 DEF Sooner
<1>9. t \in On(g)' /\ u \in On(h)'
  BY <1>8 DEF On
<1>10. CASE t # x /\ u # x
  <2>1. t \in On(g) /\ u \in On(h)
    BY <1>4, <1>9, <1>10
  <2>2. Ahead(list'[g], t, u) => Ahead(list[g], t, u)
    <3>1. Ahead(D[g], t, u) <=> Ahead(list[g], t, u)
      BY <1>2, <1>3, <1>10, DetachOrder
    <3>2. Ahead(Append(D[g], x), t, u) => Ahead(D[g], t, u)
      <4>1. D[g] \in Seq(Timers) /\ x \notin Range(D[g])
        BY <1>3 DEF WellLinked
      <4> QED
        BY <1>10, <4>1, AheadAppend
    <3> QED
      BY <1>4, <3>1, <3>2
  <2>3. Sooner(list, level, t, u)
    BY <1>8, <2>1, <2>2 DEF Sooner, On
  <2>4. /\ t \in pending \ misfiled /\ t \in Timers \ {x}
        /\ u \in pending \ misfiled /\ u \in Timers \ {x}
    BY <1>6, <1>7, <1>10
  <2>5. due[t] = due[u]
    BY <1>6, <2>4
  <2>6. Earlier(t, u)
    BY <2>3, <2>4, <2>5 DEF InOrder
  <2>7. vector'[t] = vector[t] /\ vector'[u] = vector[u]
    BY <1>5, <2>4
  <2>8. Ahead(order, t, u) => Ahead(order', t, u)
    BY <1>5, <1>10, <2>4
  <2> QED
    BY <2>6, <2>7, <2>8 DEF Earlier
<1>11. CASE t # x /\ u = x
  <2>1. t \in pending \ {x}
    BY <1>6, <1>11
  <2> QED
    BY <1>5, <1>11, <2>1 DEF Earlier
<1>12. CASE t = x
  <2>1. g = b
    BY <1>4, <1>9, <1>12
  <2>2. Turn(b, level) = 2 * b[1] /\ b[1] \in Levels
    BY <1>4, BucketTurn
  <2>3. ~ (g = h /\ Ahead(list'[g], t, u))
    <3> SUFFICES ASSUME g = h, Ahead(Append(D[b], x), x, u) PROVE FALSE
      BY <1>4, <1>12, <2>1
    <3>1. D[b] \in Seq(Timers) /\ x \notin Range(D[b]) /\ IsInjective(D[b])
      BY <1>3, <2>1 DEF WellLinked
    <3>2. Ahead(D[b], x, u)
      BY <3>1, AheadAppend
    <3> QED
      BY <3>1, <3>2, AheadProperties
  <2>4. Turn(b, level) < Turn(h, level)
    BY <1>8, <2>1, <2>3
  <2>5. h # b /\ u # x
    <3>1. h # b
      BY <2>2, <2>4 DEF Levels
    <3> QED
      BY <1>4, <1>9, <3>1
  <2>6. u \in On(h) /\ u \in pending \ misfiled /\ u \in Timers \ {x}
    BY <1>4, <1>6, <1>7, <1>9, <2>5
  <2>7. h \in Buckets
    <3>1. h # WorkList
      BY <2>2, <2>4, LocalTurns DEF Levels
    <3>2. h # TvList
      BY <1>7, <2>6, EmptyList DEF On
    <3> QED
      BY <3>1, <3>2, HeadsAre
  <2>8. Turn(h, level) = 2 * h[1] /\ h[1] \in Levels
    BY <2>7, BucketTurn
  <2>9. h[1] <= vector[u]
    BY <2>6, <2>7 DEF InReach, Reached
  <2>10. b[1] < vector[u]
    <3>1. vector[u] \in 0 .. 5
      BY <2>6 DEF Armed
    <3> QED
      BY <2>2, <2>4, <2>8, <2>9, <3>1 DEF Levels
  <2> QED
    BY <1>5, <1>12, <2>6, <2>10 DEF Earlier
<1> QED
  BY <1>10, <1>11, <1>12

\* Arming a timer that need not be capped puts it within reach.
LEMMA ArmReach ==
    ASSUME IInv, Armed, InReach,
           NEW x \in Timers, NEW f \in Words, NEW e \in Words,
           Serialized, Arm(x, f, e),
           x \notin misfiled' => due'[x] - timer_jiffies' <= IDX_MAX,
           order' = Append(RemoveFirst(order, x), x),
           vector' = [vector EXCEPT ![x] = VectorOf(x, list')]
    PROVE  InReach'
<1>1. PICK b : b = Bucket(f)
  OBVIOUS
<1>2. /\ b \in Buckets
      /\ \A h \in ListHeads :
            On(h)' = IF h = b THEN On(h) \cup {x} ELSE On(h) \ {x}
  BY <1>1, ArmLists
<1>3. vector'[x] = b[1] /\ \A t \in Timers \ {x} : vector'[t] = vector[t]
  BY <1>1, ArmArmed
<1>4. /\ timer_jiffies' = timer_jiffies
      /\ timer_jiffies \in 0 .. JIFFIES_MAX + 1
      /\ due'[x] = DueTick(e)
      /\ x \notin misfiled' => b = Bucket(e)
      /\ \A t \in Timers \ {x} : /\ due'[t] = due[t]
                                 /\ t \in misfiled' <=> t \in misfiled
  BY <1>1 DEF Arm, IInv, TypeOK
<1>5. list[TvList] = <<>>
  BY DEF IInv, OnePlaceEach, Serialized
<1>6. ASSUME NEW c \in Buckets, NEW t \in On(c)' \ misfiled'
      PROVE  Reached(t, c[1], c[2])'
  <2>1. c \in ListHeads
    BY HeadsDistinct
  <2>2. CASE t # x
    <3>1. t \in On(c)
      BY <1>2, <1>6, <2>1, <2>2
    <3>2. t \in Timers \ {x}
      BY <2>1, <2>2, <3>1, ListsAreLinked, LinkedTimers DEF On
    <3>3. Reached(t, c[1], c[2])
      BY <1>4, <1>6, <3>1, <3>2 DEF InReach
    <3>4. vector'[t] = vector[t] /\ due'[t] = due[t]
      BY <1>3, <1>4, <3>2
    <3> QED
      BY <1>4, <3>3, <3>4 DEF Reached
  <2>3. CASE t = x
    <3>1. c = b /\ b = Bucket(e)
      BY <1>2, <1>4, <1>6, <2>1, <2>3
    <3>2. DueTick(e) - timer_jiffies <= IDX_MAX
      BY <1>4, <1>6, <2>3
    <3>3. PICK l \in Levels :
             /\ Bucket(e) = <<l, Index(l, DueTick(e))>>
             /\ l <= 4 => DueTick(e) < timer_jiffies + Gran[l + 1]
      BY <1>4, <3>2, FileReached
    <3>4. c[1] = l /\ c[2] = Index(l, DueTick(e))
      BY <3>1, <3>3
    <3>5. l <= vector'[x]
      BY <1>3, <3>1, <3>4 DEF Levels
    <3> QED
      BY <1>4, <2>3, <3>3, <3>4, <3>5 DEF Reached
  <2> QED
    BY <2>2, <2>3
<1>7. ASSUME NEW t \in On(TvList)'
      PROVE  FALSE
  <2>1. On(TvList)' = On(TvList) \ {x}
    BY <1>2, HeadsDistinct
  <2> QED
    BY <1>5, <1>7, <2>1, EmptyList DEF On
<1> QED
  BY <1>6, <1>7 DEF InReach

\* A timer that is detached for good leaves the others as they were.
LEMMA DisarmFifo ==
    ASSUME IInv, Armed, InReach, InOrder, NEW x \in Timers,
           Disarm(x), Forget(x), UNCHANGED <<timer_jiffies, level>>
    PROVE  Armed' /\ InReach' /\ InOrder'
<1>1. /\ WellLinked(list)
      /\ \A h \in ListHeads : On(h)' = On(h) \ {x}
  BY ListsAreLinked, DetachLists DEF Disarm, On
<1>2. /\ order \in Seq(Timers) /\ IsInjective(order) /\ Range(order) = pending
      /\ vector \in [Timers -> 0 .. 5] /\ pending \subseteq Timers
  BY DEF Armed, IInv, TypeOK
<1>3. /\ pending' = pending \ {x} /\ misfiled' = misfiled \ {x}
      /\ list' = Detached(x)
      /\ \A t \in Timers \ {x} : due'[t] = due[t] /\ vector'[t] = vector[t]
      /\ order' = RemoveFirst(order, x)
  BY <1>2 DEF Disarm, Forget, IInv, TypeOK
<1>4. Armed'
  <2>1. /\ order' \in Seq(Timers)
        /\ IsInjective(order')
        /\ Range(order') = pending \ {x}
    BY <1>2, <1>3, RemoveFirstProperties
  <2>2. vector' \in [Timers -> 0 .. 5]
    BY <1>2 DEF Forget
  <2> QED
    BY <1>3, <2>1, <2>2 DEF Armed
<1>5. ASSUME NEW h \in ListHeads, NEW t \in On(h)' \ misfiled'
      PROVE  t \in On(h) \ misfiled /\ t \in Timers \ {x}
  <2>1. t \in On(h) /\ t # x
    BY <1>1, <1>5
  <2>2. t \in Timers
    BY <1>1, <2>1, LinkedTimers DEF On
  <2> QED
    BY <1>3, <1>5, <2>1, <2>2
<1>6. InReach'
  <2>1. ASSUME NEW c \in Buckets, NEW t \in On(c)' \ misfiled'
        PROVE  Reached(t, c[1], c[2])'
    <3>1. t \in On(c) \ misfiled /\ t \in Timers \ {x}
      BY <1>5, <2>1, HeadsDistinct
    <3>2. Reached(t, c[1], c[2])
      BY <3>1 DEF InReach
    <3> QED
      BY <1>3, <3>1, <3>2 DEF Reached
  <2>2. ASSUME NEW t \in On(TvList)' \ misfiled'
        PROVE  (/\ level <= vector[t]
                /\ level <= 4 => due[t] < timer_jiffies + Gran[level + 1])'
    <3>1. t \in On(TvList) \ misfiled /\ t \in Timers \ {x}
      BY <1>5, <2>2, HeadsDistinct
    <3> QED
      BY <1>3, <3>1 DEF InReach
  <2> QED
    BY <2>1, <2>2 DEF InReach
<1>7. InOrder'
  <2> SUFFICES ASSUME NEW t \in pending' \ misfiled',
                      NEW u \in pending' \ misfiled',
                      due'[t] = due'[u], Sooner(list', level', t, u)
               PROVE  Earlier(t, u)'
    BY DEF InOrder
  <2>1. /\ t \in pending \ misfiled /\ t \in Timers \ {x}
        /\ u \in pending \ misfiled /\ u \in Timers \ {x}
    BY <1>2, <1>3
  <2>2. due[t] = due[u]
    BY <1>3, <2>1
  <2>3. PICK g \in ListHeads, h \in ListHeads :
           /\ t \in Range(list'[g])
           /\ u \in Range(list'[h])
           /\ \/ Turn(g, level) < Turn(h, level)
              \/ g = h /\ Ahead(list'[g], t, u)
    BY DEF Sooner
  <2>4. t \in On(g) /\ u \in On(h)
    BY <1>1, <2>3 DEF On
  <2>5. Ahead(list'[g], t, u) <=> Ahead(list[g], t, u)
    BY <1>1, <1>3, <2>1, DetachOrder
  <2>6. Sooner(list, level, t, u)
    BY <2>3, <2>4, <2>5 DEF Sooner, On
  <2>7. Earlier(t, u)
    BY <2>1, <2>2, <2>6 DEF InOrder
  <2>8. Ahead(order, t, u) => Ahead(order', t, u)
    BY <1>2, <1>3, <2>1, AheadRemove
  <2>9. vector'[t] = vector[t] /\ vector'[u] = vector[u]
    BY <1>3, <2>1
  <2> QED
    BY <2>7, <2>8, <2>9 DEF Earlier
<1> QED
  BY <1>4, <1>6, <1>7

\* While a vector is cascaded, which happens at the start of one of its blocks,
\* a timer that is still in it or in a nearer vector is due a whole block
\* later at least.
LEMMA BlockLater ==
    ASSUME IInv, Boundary, NEW b \in Buckets, NEW u \in On(b) \ misfiled,
           b[1] >= 2, b[1] <= level
    PROVE  due[u] >= timer_jiffies + Gran[b[1]]
<1>1. PICK m : m = b[1]
  OBVIOUS
<1>2. m \in 2 .. 5 /\ level \in 2 .. 5 /\ m <= level
  BY <1>1, BucketTurn DEF IInv, TypeOK, Levels
<1>3. PICK G : G = Gran[m]
  OBVIOUS
<1>4. G \in Nat \ {0} /\ timer_jiffies \in Nat /\ due[u] \in Nat
  <2>1. u \in Timers
    BY HeadsDistinct, ListsAreLinked, LinkedTimers DEF On
  <2>2. due[u] \in Nat
    BY <2>1, WordAssumption DEF IInv, TypeOK, Words
  <2>3. timer_jiffies \in Nat
    BY WordAssumption DEF IInv, TypeOK
  <2>4. m \in Levels
    BY <1>2 DEF Levels
  <2> QED
    BY <1>3, <2>2, <2>3, <2>4, GranType
<1>5. PICK k \in 0 .. due[u] :
         /\ timer_jiffies <= k * G
         /\ k * G <= due[u]
         /\ timer_jiffies # k * G
  <2>1. Placed(u, b[1], b[2])
    BY DEF IInv, Placement
  <2> QED
    BY <1>1, <1>2, <1>3, <2>1 DEF Placed
<1>6. PICK n \in Nat : timer_jiffies = n * G
  <2>1. PICK j \in Nat : timer_jiffies = j * Gran[level]
    BY <1>2 DEF Boundary
  <2>2. PICK c \in Nat : Gran[level] = G * c
    <3>1. CASE m = level
      <4>1. G = G * 1
        BY <1>4
      <4> QED
        BY <1>3, <3>1, <4>1
    <3>2. CASE m # level
      <4>1. m - 1 \in 1 .. 4 /\ level \in (m - 1) + 1 .. 5 /\ (m - 1) + 1 = m
        BY <1>2, <3>2
      <4> QED
        BY <1>3, <4>1, GranDivides
    <3> QED
      BY <3>1, <3>2
  <2>3. \A a, d \in Nat : a * (G * d) = (a * d) * G /\ a * d \in Nat
    BY <1>4
  <2> QED
    BY <2>1, <2>2, <2>3
<1>7. \A a, d \in Nat : a * G < d * G => a * G + G <= d * G
  <2> SUFFICES ASSUME NEW a \in Nat, NEW d \in Nat, a * G < d * G
               PROVE  a * G + G <= d * G
    OBVIOUS
  <2>1. a < d
    <3>1. SUFFICES ASSUME d <= a PROVE FALSE
      OBVIOUS
    <3>2. d * G <= a * G
      BY <1>4, <3>1
    <3> QED
      BY <1>4, <3>2
  <2>2. (a + 1) * G <= d * G
    BY <1>4, <2>1
  <2>3. (a + 1) * G = a * G + G
    BY <1>4
  <2> QED
    BY <2>2, <2>3
<1>8. k \in Nat /\ k * G \in Int /\ n * G \in Int
  BY <1>4, <1>5
<1>9. n * G < k * G
  BY <1>4, <1>5, <1>6, <1>8
<1>10. n * G + G <= k * G
  BY <1>6, <1>7, <1>8, <1>9
<1> QED
  BY <1>1, <1>3, <1>4, <1>5, <1>6, <1>8, <1>10

\* A timer of tv_list is filed in a vector no farther than the one that is
\* being cascaded.
LEMMA CascadePlace ==
    ASSUME IInv, InReach, worker = "cascade", NEW x \in On(TvList) \ misfiled,
           due[x] - timer_jiffies <= IDX_MAX
    PROVE  \E l \in Levels :
              /\ Bucket(expires[x]) = <<l, Index(l, due[x])>>
              /\ l <= 4 => due[x] < timer_jiffies + Gran[l + 1]
              /\ l <= level
<1>1. timer_jiffies \in 0 .. JIFFIES_MAX + 1 /\ timer_jiffies \in Nat
  BY WordAssumption DEF IInv, TypeOK
<1>2. x \in Timers
  BY HeadsDistinct, ListsAreLinked, LinkedTimers DEF On
<1>3. PICK e : e = expires[x]
  OBVIOUS
<1>4. e \in Words /\ e \in Nat
  BY <1>2, <1>3, WordAssumption DEF IInv, TypeOK, Words
<1>5. due[x] = e /\ e \in timer_jiffies .. timer_jiffies + WORD \div 2 - 1
  BY <1>3 DEF IInv, Placement
<1>6. DueTick(e) = e
  <2>1. /\ WORD \in Nat \ {0} /\ WORD \div 2 \in Nat
        /\ 2 * (WORD \div 2) <= WORD
    BY <1>4, WordAssumption DEF Words
  <2>2. /\ e - timer_jiffies \in Int
        /\ 0 <= e - timer_jiffies /\ e - timer_jiffies < WORD \div 2
    BY <1>1, <1>4, <1>5, <2>1
  <2>3. (e - timer_jiffies) % WORD = e - timer_jiffies
    <3>1. /\ -WORD <= e - timer_jiffies /\ e - timer_jiffies < WORD
          /\ ~ (e - timer_jiffies < 0)
      BY <2>1, <2>2
    <3> QED
      BY <2>1, <2>2, <3>1, ModSmall
  <2> QED
    BY <2>2, <2>3 DEF DueTick, TimeAfterEq
<1>7. DueTick(e) - timer_jiffies <= IDX_MAX
  BY <1>5, <1>6
<1>8. PICK l \in Levels :
         /\ Bucket(e) = <<l, Index(l, DueTick(e))>>
         /\ l <= 4 => DueTick(e) < timer_jiffies + Gran[l + 1]
         /\ l > 1 => DueTick(e) >= timer_jiffies + Gran[l]
  BY <1>1, <1>4, <1>7, FileReached
<1>9. level \in 2 .. 5
  BY DEF IInv, TypeOK, WorkerShape
<1>10. l <= level
  <2>1. SUFFICES ASSUME l > level PROVE FALSE
    BY <1>8, <1>9 DEF Levels
  <2>2. level <= 4 /\ level + 1 \in Levels /\ level + 1 <= l /\ l > 1
    BY <1>8, <1>9, <2>1 DEF Levels
  <2>3. e < timer_jiffies + Gran[level + 1]
    BY <1>5, <2>2 DEF InReach
  <2>4. Gran[level + 1] <= Gran[l]
    BY <1>8, <2>2, GranGrows
  <2>5. e >= timer_jiffies + Gran[l]
    BY <1>6, <1>8, <2>2
  <2>6. Gran[level + 1] \in Nat /\ Gran[l] \in Nat
    BY <1>8, <2>2, GranType
  <2> QED
    BY <1>1, <1>4, <2>3, <2>4, <2>5, <2>6
<1> QED
  BY <1>3, <1>5, <1>6, <1>8, <1>10

\* What the cascade of a timer does to the lists.
LEMMA CascadeLists ==
    ASSUME IInv, CascadeTimer
    PROVE  LET x == Head(list[TvList])
               b == Bucket(expires[x])
           IN  /\ x \in On(TvList) /\ x \in Timers
               /\ b \in Buckets
               /\ WellLinked(list')
               /\ \A h \in ListHeads :
                     On(h)' = IF h = b THEN On(h) \cup {x}
                              ELSE IF h = TvList THEN On(h) \ {x} ELSE On(h)
               /\ \A h \in ListHeads :
                     list'[h] = IF h = b THEN Append(list[h], x)
                                ELSE IF h = TvList THEN Tail(list[h])
                                ELSE list[h]
<1>1. PICK x : x = Head(list[TvList])
  OBVIOUS
<1>2. PICK b : b = Bucket(expires[x])
  OBVIOUS
<1>3. PICK P : P = [list EXCEPT ![TvList] = Tail(@)]
  OBVIOUS
<1>4. WellLinked(list) /\ list[TvList] # <<>> /\ TvList \in ListHeads
  BY ListsAreLinked, HeadsDistinct DEF CascadeTimer
<1>5. /\ x \in On(TvList) /\ x \in Timers
      /\ WellLinked(P)
      /\ Range(P[TvList]) = On(TvList) \ {x}
      /\ \A g \in ListHeads : g # TvList => P[g] = list[g]
      /\ \A g \in ListHeads : x \notin Range(P[g])
  BY <1>1, <1>3, <1>4, PopLists
<1>6. P[TvList] = Tail(list[TvList])
  BY <1>3, <1>4 DEF WellLinked
<1>7. timer_jiffies \in 0 .. JIFFIES_MAX + 1 /\ expires[x] \in Words
  BY <1>5 DEF IInv, TypeOK
<1>8. b \in Buckets
  BY <1>2, <1>7, FilePlaced
<1>9. b \in ListHeads /\ b # TvList
  BY <1>8, HeadsDistinct
<1>10. list' = Linked(P, x, b)
  BY <1>1, <1>2, <1>3 DEF CascadeTimer
<1>11. /\ WellLinked(list')
       /\ Range(list'[b]) = Range(P[b]) \cup {x}
       /\ \A h \in ListHeads : h # b => list'[h] = P[h]
  BY <1>5, <1>9, <1>10, LinkLists
<1>12. list'[b] = Append(list[b], x)
  BY <1>5, <1>9, <1>10 DEF Linked, WellLinked
<1>13. \A h \in ListHeads :
          On(h)' = IF h = b THEN On(h) \cup {x}
                   ELSE IF h = TvList THEN On(h) \ {x} ELSE On(h)
  BY <1>5, <1>9, <1>11 DEF On
<1>14. \A h \in ListHeads :
          list'[h] = IF h = b THEN Append(list[h], x)
                     ELSE IF h = TvList THEN Tail(list[h]) ELSE list[h]
  BY <1>5, <1>6, <1>9, <1>11, <1>12
<1> QED
  BY <1>1, <1>2, <1>5, <1>8, <1>11, <1>13, <1>14

\* The cascade of a timer: of the timers due in the same tick it is the first
\* of those left in its vector, and none is in a vector between its old one
\* and its new one.
LEMMA CascadeOrder ==
    ASSUME IInv, Boundary, InReach, InOrder, CascadeTimer,
           \A t \in pending \ misfiled : due[t] - timer_jiffies <= IDX_MAX,
           UNCHANGED <<order, vector>>
    PROVE  InOrder'
<1>1. PICK x : x = Head(list[TvList])
  OBVIOUS
<1>2. PICK b : b = Bucket(expires[x])
  OBVIOUS
<1>3. /\ x \in On(TvList) /\ x \in Timers
      /\ b \in Buckets
      /\ WellLinked(list')
      /\ \A h \in ListHeads :
            On(h)' = IF h = b THEN On(h) \cup {x}
                     ELSE IF h = TvList THEN On(h) \ {x} ELSE On(h)
      /\ \A h \in ListHeads :
            list'[h] = IF h = b THEN Append(list[h], x)
                       ELSE IF h = TvList THEN Tail(list[h])
                       ELSE list[h]
  BY <1>1, <1>2, CascadeLists
<1>4. /\ WellLinked(list) /\ list[TvList] # <<>> /\ worker = "cascade"
      /\ b \in ListHeads /\ TvList \in ListHeads /\ b # TvList
      /\ level \in 2 .. 5
  BY <1>3, ListsAreLinked, HeadsDistinct
  DEF CascadeTimer, IInv, TypeOK, WorkerShape
<1>5. /\ pending' = pending /\ misfiled' = misfiled /\ due' = due
      /\ level' = level
  BY DEF CascadeTimer
<1>6. \A h \in ListHeads : /\ list[h] \in Seq(Timers) /\ IsInjective(list[h])
                           /\ x \in Range(list[h]) => h = TvList
  BY <1>3, <1>4 DEF WellLinked, On
<1> SUFFICES ASSUME NEW t \in pending' \ misfiled',
                    NEW u \in pending' \ misfiled',
                    due'[t] = due'[u], Sooner(list', level', t, u)
             PROVE  Earlier(t, u)'
  BY DEF InOrder
<1>7. t \in pending \ misfiled /\ u \in pending \ misfiled /\ due[t] = due[u]
  BY <1>5
<1>8. SUFFICES Sooner(list, level, t, u)
  <2>1. ASSUME Sooner(list, level, t, u) PROVE Earlier(t, u)
    BY <1>7, <2>1 DEF InOrder
  <2> QED
    BY <2>1 DEF Earlier
<1>9. PICK g \in ListHeads, h \in ListHeads :
         /\ t \in Range(list'[g])
         /\ u \in Range(list'[h])
         /\ \/ Turn(g, level) < Turn(h, level)
            \/ g = h /\ Ahead(list'[g], t, u)
  BY <1>5 DEF Sooner
<1>10. t \in On(g)' /\ u \in On(h)'
  BY <1>9 DEF On
<1>11. Turn(TvList, level) = 2 * level + 1
  BY LocalTurns
<1>12. CASE t # x /\ u # x
  <2>1. t \in On(g) /\ u \in On(h)
    BY <1>3, <1>10, <1>12
  <2>2. Ahead(list'[g], t, u) => Ahead(list[g], t, u)
    <3>1. CASE g = b
      <4>1. list'[g] = Append(list[g], x) /\ x \notin Range(list[g])
        BY <1>3, <1>4, <1>6, <3>1
      <4> QED
        BY <1>3, <1>6, <1>12, <4>1, AheadAppend
    <3>2. CASE g = TvList
      <4>1. list'[g] = Tail(list[g]) /\ list[g] # <<>>
        BY <1>3, <1>4, <3>2
      <4> QED
        BY <1>6, <4>1, AheadTail
    <3>3. CASE g # b /\ g # TvList
      BY <1>3, <3>3
    <3> QED
      BY <3>1, <3>2, <3>3
  <2> QED
    BY <1>9, <2>1, <2>2 DEF Sooner, On
<1>13. CASE t = x
  <2>1. g = b
    BY <1>3, <1>4, <1>6, <1>10, <1>13 DEF On
  <2>2. x \in On(TvList) \ misfiled /\ due[x] - timer_jiffies <= IDX_MAX
    BY <1>3, <1>7, <1>13
  <2>3. PICK l \in Levels :
           /\ Bucket(expires[x]) = <<l, Index(l, due[x])>>
           /\ l <= 4 => due[x] < timer_jiffies + Gran[l + 1]
           /\ l <= level
    BY <1>4, <2>2, CascadePlace
  <2>4. b[1] = l /\ Turn(b, level) = 2 * l
    BY <1>2, <1>3, <2>3, BucketTurn
  <2>5. ~ (g = h /\ Ahead(list'[g], t, u))
    <3> SUFFICES ASSUME Ahead(Append(list[b], x), x, u) PROVE FALSE
      BY <1>3, <1>4, <1>13, <2>1
    <3>1. x \notin Range(list[b]) /\ list[b] \in Seq(Timers)
          /\ IsInjective(list[b])
      BY <1>4, <1>6
    <3>2. Ahead(list[b], x, u)
      BY <1>3, <3>1, AheadAppend
    <3> QED
      BY <3>1, <3>2, AheadProperties
  <2>6. Turn(b, level) < Turn(h, level)
    BY <1>9, <2>1, <2>5
  <2>7. h # b
    BY <2>4, <2>6 DEF Levels
  <2>8. u \in On(h) /\ u # x
    BY <1>3, <1>4, <1>6, <1>10, <2>7 DEF On
  <2>9. CASE h = TvList
    <3>1. Ahead(list[TvList], x, u)
      BY <1>1, <1>4, <1>6, <2>8, <2>9, AheadTail DEF On
    <3> QED
      BY <1>3, <1>4, <1>13, <2>8, <2>9, <3>1 DEF Sooner, On
  <2>10. CASE h \in Buckets
    <3>1. Turn(h, level) = 2 * h[1] /\ h[1] \in Levels
      BY <2>10, BucketTurn
    <3>2. h[1] > l
      BY <2>3, <2>4, <2>6, <3>1 DEF Levels
    <3>3. h[1] > level
      <4>1. SUFFICES ASSUME h[1] <= level PROVE FALSE
        BY <1>4, <3>1 DEF Levels
      <4>2. u \in On(h) \ misfiled /\ h[1] >= 2
        BY <1>7, <2>3, <2>8, <3>1, <3>2 DEF Levels
      <4>3. due[u] >= timer_jiffies + Gran[h[1]]
        BY <2>10, <4>1, <4>2, BlockLater
      <4>4. l <= 4 /\ l + 1 \in Levels /\ l + 1 <= h[1]
        BY <2>3, <3>1, <3>2 DEF Levels
      <4>5. Gran[l + 1] <= Gran[h[1]]
        BY <3>1, <4>4, GranGrows
      <4>6. due[x] < timer_jiffies + Gran[l + 1] /\ due[u] = due[x]
        BY <1>7, <1>13, <2>3, <4>4
      <4>7. Gran[l + 1] \in Nat /\ Gran[h[1]] \in Nat
        BY <3>1, <4>4, GranType
      <4>8. due[x] \in Nat /\ timer_jiffies \in Nat
        <5>1. due[x] \in Nat
          BY <1>3, WordAssumption DEF IInv, TypeOK, Words
        <5>2. timer_jiffies \in Nat
          BY WordAssumption DEF IInv, TypeOK
        <5> QED
          BY <5>1, <5>2
      <4> QED
        BY <4>3, <4>5, <4>6, <4>7, <4>8
    <3>4. Turn(TvList, level) < Turn(h, level)
      BY <1>4, <1>11, <3>1, <3>3 DEF Levels
    <3> QED
      BY <1>3, <1>4, <1>13, <2>8, <3>4 DEF Sooner, On
  <2>11. h # WorkList
    BY <2>3, <2>4, <2>6, LocalTurns DEF Levels
  <2> QED
    BY <2>9, <2>10, <2>11, HeadsAre
<1>14. CASE t # x /\ u = x
  <2>1. h = b
    BY <1>3, <1>4, <1>6, <1>10, <1>14 DEF On
  <2>2. x \in On(TvList) \ misfiled /\ due[x] - timer_jiffies <= IDX_MAX
    BY <1>3, <1>7, <1>14
  <2>3. PICK l \in Levels :
           /\ Bucket(expires[x]) = <<l, Index(l, due[x])>>
           /\ l <= level
    BY <1>4, <2>2, CascadePlace
  <2>4. b[1] = l /\ Turn(b, level) = 2 * l
    BY <1>2, <1>3, <2>3, BucketTurn
  <2>5. t \in On(g)
    BY <1>3, <1>10, <1>14
  <2>6. Turn(g, level) \in Int
    <3>1. CASE g \in Buckets
      BY <3>1, BucketTurn DEF Levels
    <3>2. CASE g \notin Buckets
      BY <1>4, <3>2, HeadsAre, LocalTurns
    <3> QED
      BY <3>1, <3>2
  <2>7. Turn(g, level) <= 2 * l
    BY <1>9, <2>1, <2>4, <2>6 DEF Levels
  <2>8. Turn(g, level) < Turn(TvList, level)
    BY <1>4, <1>11, <2>3, <2>6, <2>7 DEF Levels
  <2> QED
    BY <1>3, <1>4, <1>14, <2>5, <2>8 DEF Sooner, On
<1> QED
  BY <1>12, <1>13, <1>14

\* The cascade of a timer keeps every timer within reach.
LEMMA CascadeReach ==
    ASSUME IInv, Armed, InReach, CascadeTimer,
           \A t \in pending \ misfiled : due[t] - timer_jiffies <= IDX_MAX,
           UNCHANGED <<order, vector>>
    PROVE  InReach'
<1>1. PICK x : x = Head(list[TvList])
  OBVIOUS
<1>2. PICK b : b = Bucket(expires[x])
  OBVIOUS
<1>3. /\ x \in On(TvList) /\ x \in Timers
      /\ b \in Buckets
      /\ \A h \in ListHeads :
            On(h)' = IF h = b THEN On(h) \cup {x}
                     ELSE IF h = TvList THEN On(h) \ {x} ELSE On(h)
  BY <1>1, <1>2, CascadeLists
<1>4. /\ misfiled' = misfiled /\ due' = due /\ level' = level
      /\ timer_jiffies' = timer_jiffies /\ vector' = vector
      /\ worker = "cascade"
  BY DEF CascadeTimer
<1>5. ASSUME NEW c \in Buckets, NEW t \in On(c)' \ misfiled'
      PROVE  Reached(t, c[1], c[2])'
  <2>1. c \in ListHeads /\ c # TvList
    BY HeadsDistinct
  <2>2. CASE t \in On(c)
    <3>1. Reached(t, c[1], c[2])
      BY <1>4, <1>5, <2>2 DEF InReach
    <3> QED
      BY <1>4, <3>1 DEF Reached
  <2>3. CASE t \notin On(c)
    <3>1. c = b /\ t = x
      BY <1>3, <1>5, <2>1, <2>3
    <3>2. x \in On(TvList) \ misfiled /\ x \in pending \ misfiled
      <4>1. x \in pending
        BY <1>3, HeadsDistinct DEF IInv, OnePlaceEach
      <4> QED
        BY <1>3, <1>4, <1>5, <3>1, <4>1
    <3>3. PICK l \in Levels :
             /\ Bucket(expires[x]) = <<l, Index(l, due[x])>>
             /\ l <= 4 => due[x] < timer_jiffies + Gran[l + 1]
             /\ l <= level
      BY <1>4, <3>2, CascadePlace
    <3>4. c[1] = l /\ c[2] = Index(l, due[x])
      BY <1>2, <3>1, <3>3
    <3>5. l <= vector[x]
      <4>1. level <= vector[x] /\ vector[x] \in 0 .. 5
        BY <1>3, <3>2 DEF InReach, Armed
      <4>2. level \in {0} \cup 2 .. 5
        BY DEF IInv, TypeOK
      <4> QED
        BY <3>3, <4>1, <4>2 DEF Levels
    <3> QED
      BY <1>4, <3>1, <3>3, <3>4, <3>5 DEF Reached
  <2> QED
    BY <2>2, <2>3
<1>6. ASSUME NEW t \in On(TvList)' \ misfiled'
      PROVE  (/\ level <= vector[t]
              /\ level <= 4 => due[t] < timer_jiffies + Gran[level + 1])'
  <2>1. TvList \in ListHeads /\ TvList # b
    BY <1>3, HeadsDistinct
  <2>2. t \in On(TvList) \ misfiled
    BY <1>3, <1>4, <1>6, <2>1
  <2> QED
    BY <1>4, <2>2 DEF InReach
<1> QED
  BY <1>5, <1>6 DEF InReach

\* A block of a vector whose index is 0 starts a block of the next vector.
LEMMA NextBlock ==
    ASSUME NEW l \in 1 .. 4, NEW k \in Nat, Index(l, k * Gran[l]) = 0
    PROVE  \E n \in Nat : k * Gran[l] = n * Gran[l + 1]
<1>1. PICK g : g = Gran[l]
  OBVIOUS
<1>2. PICK s : s = Size(l)
  OBVIOUS
<1>3. /\ g \in Nat \ {0} /\ s \in Nat \ {0}
      /\ Gran[l + 1] = g * s
  BY <1>1, <1>2, GranType DEF Levels
<1>4. (k * g) \div g = k
  BY <1>3
<1>5. k % s = 0
  BY <1>1, <1>2, <1>4 DEF Index
<1>6. PICK n \in Nat : k = s * n
  <2>1. k \in Int /\ s \in Nat \ {0}
    BY <1>3
  <2>2. k = s * (k \div s) + (k % s)
    BY <2>1, DivMod
  <2>3. PICK n : n = k \div s
    OBVIOUS
  <2>4. n \in Nat
    BY <1>3, <2>3
  <2>5. k = s * n
    BY <1>3, <1>5, <2>2, <2>3, <2>4
  <2> QED
    BY <2>4, <2>5
<1>7. (s * n) * g = n * (g * s)
  BY <1>3
<1> QED
  BY <1>1, <1>3, <1>6, <1>7

\* cascade takes the bucket of the current tick down.
LEMMA BeginCascadeFifo ==
    ASSUME IInv, Armed, InReach, InOrder, NEW l \in 2 .. 5, BeginCascade(l),
           list[TvList] = <<>>, list[WorkList] = <<>>,
           \E k \in Nat : timer_jiffies = k * Gran[l],
           UNCHANGED <<pending, misfiled, due, order, vector>>
    PROVE  Armed' /\ Boundary' /\ InReach' /\ InOrder'
<1>1. PICK from : from = <<l, Index(l, timer_jiffies)>>
  OBVIOUS
<1>2. WellLinked(list) /\ l \in Levels /\ timer_jiffies \in Nat
  BY ListsAreLinked DEF Levels, IInv, TypeOK
<1>3. from \in Buckets /\ from[1] = l
  BY <1>1, <1>2, IndexType
<1>4. /\ from \in ListHeads /\ from # TvList
      /\ TvList \in ListHeads /\ TvList \in {WorkList, TvList}
  BY <1>3, HeadsDistinct
<1>5. /\ list' = Moved(from, TvList) /\ level' = l
      /\ timer_jiffies' = timer_jiffies
  BY <1>1 DEF BeginCascade
<1>6. /\ list'[TvList] = list[from]
      /\ list'[from] = <<>>
      /\ \A h \in ListHeads \ {from, TvList} : list'[h] = list[h]
  BY <1>2, <1>4, <1>5, MoveLists
<1>7. Armed' /\ Boundary'
  BY <1>5 DEF Armed, Boundary
<1>8. InReach'
  <2>1. ASSUME NEW c \in Buckets, NEW t \in On(c)' \ misfiled'
        PROVE  Reached(t, c[1], c[2])'
    <3>1. c # from
      BY <1>6, <2>1, EmptyList DEF On
    <3>2. c \in ListHeads \ {from, TvList}
      BY <3>1, HeadsDistinct
    <3>3. t \in On(c) \ misfiled
      BY <1>6, <2>1, <3>2 DEF On
    <3>4. Reached(t, c[1], c[2])
      BY <3>3 DEF InReach
    <3> QED
      BY <1>5, <3>4 DEF Reached
  <2>2. ASSUME NEW t \in On(TvList)' \ misfiled'
        PROVE  (/\ level <= vector[t]
                /\ level <= 4 => due[t] < timer_jiffies + Gran[level + 1])'
    <3>1. t \in On(from) \ misfiled
      BY <1>6, <2>2 DEF On
    <3>2. Reached(t, from[1], from[2])
      BY <1>3, <3>1 DEF InReach
    <3> QED
      BY <1>3, <1>5, <3>2 DEF Reached
  <2> QED
    BY <2>1, <2>2 DEF InReach
<1>9. InOrder'
  <2>1. Turn(TvList, level') = 2 * l + 1 /\ level' \in Nat
    BY <1>5, LocalTurns
  <2>2. \A m \in Levels :
           /\ 2 * m < Turn(TvList, level') => m <= from[1]
           /\ Turn(TvList, level') < 2 * m => m >= from[1]
    BY <1>2, <1>3, <2>1 DEF Levels
  <2> QED
    BY <1>2, <1>3, <1>4, <1>5, <2>1, <2>2, MoveOrder
<1> QED
  BY <1>7, <1>8, <1>9

\* The tick's bucket of tv1 becomes the work list.
LEMMA OpenTickFifo ==
    ASSUME IInv, Armed, InReach, InOrder, OpenTick,
           list[TvList] = <<>>, list[WorkList] = <<>>,
           UNCHANGED <<pending, misfiled, due, order, vector>>
    PROVE  Armed' /\ Boundary' /\ InReach' /\ InOrder'
<1>1. PICK from : from = <<1, Index(1, timer_jiffies)>>
  OBVIOUS
<1>2. WellLinked(list) /\ 1 \in Levels /\ timer_jiffies \in Nat
  BY ListsAreLinked DEF Levels, IInv, TypeOK
<1>3. from \in Buckets /\ from[1] = 1
  BY <1>1, <1>2, IndexType
<1>4. /\ from \in ListHeads /\ from # WorkList
      /\ WorkList \in ListHeads /\ WorkList \in {WorkList, TvList}
  BY <1>3, HeadsDistinct
<1>5. /\ list' = Moved(from, WorkList) /\ level' = 0
      /\ timer_jiffies' = timer_jiffies + 1
  BY <1>1 DEF OpenTick
<1>6. /\ list'[from] = <<>>
      /\ \A h \in ListHeads \ {from, WorkList} : list'[h] = list[h]
  BY <1>2, <1>4, <1>5, MoveLists
<1>7. Armed' /\ Boundary'
  BY <1>5 DEF Armed, Boundary
<1>8. InReach'
  <2>1. ASSUME NEW c \in Buckets, NEW t \in On(c)' \ misfiled'
        PROVE  Reached(t, c[1], c[2])'
    <3>1. c # from
      BY <1>6, <2>1, EmptyList DEF On
    <3>2. c \in ListHeads \ {from, WorkList}
      BY <3>1, HeadsDistinct
    <3>3. t \in On(c) \ misfiled
      BY <1>6, <2>1, <3>2 DEF On
    <3>4. Reached(t, c[1], c[2])
      BY <3>3 DEF InReach
    <3>5. due[t] \in Nat
      <4>1. t \in Timers
        BY <1>2, <3>2, <3>3, LinkedTimers DEF On
      <4> QED
        BY <4>1, WordAssumption DEF IInv, TypeOK, Words
    <3>6. c[1] \in Levels
      BY BucketTurn
    <3>7. c[1] <= 4 => Gran[c[1] + 1] \in Nat
      <4>1. c[1] <= 4 => c[1] + 1 \in Levels
        BY <3>6 DEF Levels
      <4> QED
        BY <4>1, GranType
    <3>8. c[1] <= 4 => due[t] < (timer_jiffies + 1) + Gran[c[1] + 1]
      BY <1>2, <3>4, <3>5, <3>7 DEF Reached
    <3> QED
      BY <1>5, <3>4, <3>8 DEF Reached
  <2>2. ASSUME NEW t \in On(TvList)'
        PROVE  FALSE
    <3>1. TvList \in ListHeads \ {from, WorkList}
      BY <1>3, HeadsDistinct
    <3> QED
      BY <1>6, <2>2, <3>1, EmptyList DEF On
  <2> QED
    BY <2>1, <2>2 DEF InReach
<1>9. InOrder'
  <2>1. Turn(WorkList, level') = 0 /\ level' \in Nat
    BY <1>5, LocalTurns
  <2>2. \A m \in Levels :
           /\ 2 * m < Turn(WorkList, level') => m <= from[1]
           /\ Turn(WorkList, level') < 2 * m => m >= from[1]
    BY <1>3, <2>1 DEF Levels
  <2> QED
    BY <1>2, <1>3, <1>4, <1>5, <2>1, <2>2, MoveOrder
<1> QED
  BY <1>7, <1>8, <1>9

\* Steps that leave lists, times and histories alone.
LEMMA QuietFifo ==
    ASSUME Armed, Boundary, InReach, InOrder,
           UNCHANGED <<timer_jiffies, list, level, pending, due, misfiled,
                       order, vector>>
    PROVE  Armed' /\ Boundary' /\ InReach' /\ InOrder'
<1>1. Armed' /\ Boundary'
  BY DEF Armed, Boundary
<1>2. InReach'
  BY DEF InReach, Reached, On
<1>3. InOrder'
  BY DEF InOrder, Earlier
<1> QED
  BY <1>1, <1>2, <1>3

\* The invariant holds at the start.
LEMMA FifoInitial ==
    FifoInit => FifoIInv
<1> SUFFICES ASSUME FifoInit PROVE FifoIInv
  OBVIOUS
<1>1. IInv
  BY InitInvariant DEF FifoInit
<1>2. /\ pending = {} /\ level = 0 /\ order = <<>>
      /\ vector = [t \in Timers |-> 0]
      /\ \A h \in ListHeads : list[h] = <<>>
  BY DEF FifoInit, Init
<1>3. Armed
  BY <1>2, EmptyList DEF Armed
<1>4. \A h \in ListHeads : On(h) = {}
  BY <1>2, EmptyList DEF On
<1>5. InReach
  BY <1>4, HeadsDistinct DEF InReach
<1> QED
  BY <1>1, <1>2, <1>3, <1>5 DEF FifoIInv, Boundary, InOrder

\* The invariant is inductive while no expiry is capped.
LEMMA FifoNextInvariant ==
    FifoIInv /\ WithinReach /\ WithinReach' /\ [FifoNext]_fifoVars => FifoIInv'
<1> SUFFICES ASSUME FifoIInv, WithinReach, WithinReach', [FifoNext]_fifoVars
             PROVE  FifoIInv'
  OBVIOUS
<1>1. IInv /\ Armed /\ Boundary /\ InReach /\ InOrder /\ TypeOK
  BY DEF FifoIInv, IInv
<1>2. [Next]_vars
  BY DEF FifoNext, fifoVars, Arms, Next, Client, RunTimers
<1>3. IInv'
  BY <1>1, <1>2, NextInvariant
<1>4. SUFFICES Armed' /\ Boundary' /\ InReach' /\ InOrder'
  BY <1>3 DEF FifoIInv
<1>5. WorkerShape /\ OnePlaceEach
  BY <1>1 DEF IInv
<1>6. ASSUME NEW x \in Timers, NEW f \in Words, NEW e \in Words,
             Serialized, Arm(x, f, e),
             order' = Append(RemoveFirst(order, x), x),
             vector' = [vector EXCEPT ![x] = VectorOf(x, list')]
      PROVE  Armed' /\ Boundary' /\ InReach' /\ InOrder'
  <2>1. Armed' /\ InOrder'
    BY <1>1, <1>6, ArmArmed, ArmOrder
  <2>2. x \in pending' /\ UNCHANGED <<level, timer_jiffies>>
    BY <1>6 DEF Arm
  <2>3. x \notin misfiled' => due'[x] - timer_jiffies' <= IDX_MAX
    BY <2>2 DEF WithinReach
  <2>4. InReach'
    BY <1>1, <1>6, <2>3, ArmReach
  <2>5. Boundary'
    BY <1>1, <2>2 DEF Boundary
  <2> QED
    BY <2>1, <2>4, <2>5
<1>7. ASSUME NEW x \in Timers, Arms(x),
             order' = Append(RemoveFirst(order, x), x),
             vector' = [vector EXCEPT ![x] = VectorOf(x, list')]
      PROVE  Armed' /\ Boundary' /\ InReach' /\ InOrder'
  <2>1. PICK e \in Timeouts :
           AddTimer(x, e) \/ ModTimer(x, e) \/ ModTimerPending(x, e)
    BY <1>7 DEF Arms
  <2>2. e \in Words /\ expires[x] \in Words
    BY <1>1, TypesOfWords DEF TypeOK
  <2>3. Serialized /\ (Arm(x, e, e) \/ Arm(x, expires[x], e))
    BY <2>1 DEF AddTimer, ModTimer, ModTimerPending
  <2> QED
    BY <1>6, <1>7, <2>2, <2>3
<1>8. ASSUME NEW x \in Timers, DelTimer(x) \/ Expire(x), Forget(x)
      PROVE  Armed' /\ Boundary' /\ InReach' /\ InOrder'
  <2>1. Disarm(x) /\ UNCHANGED <<timer_jiffies, level>>
    BY <1>8 DEF DelTimer, Expire
  <2>2. Armed' /\ InReach' /\ InOrder'
    BY <1>1, <1>8, <2>1, DisarmFifo
  <2> QED
    BY <1>1, <2>1, <2>2 DEF Boundary
<1>9. ASSUME UNCHANGED <<order, vector>>, StartTick
      PROVE  Armed' /\ Boundary' /\ InReach' /\ InOrder'
  <2>1. /\ list[WorkList] = <<>> /\ list[TvList] = <<>>
        /\ UNCHANGED <<pending, misfiled, due, order, vector>>
    BY <1>5, <1>9 DEF StartTick, OnePlaceEach
  <2>2. CASE Index(1, timer_jiffies) = 0
    <3>1. BeginCascade(2)
      BY <1>9, <2>2 DEF StartTick
    <3>2. \E n \in Nat : timer_jiffies = n * Gran[2]
      <4>1. timer_jiffies \in Nat /\ timer_jiffies * Gran[1] = timer_jiffies
        BY <1>1, GranType, WordAssumption DEF TypeOK
      <4>2. 1 \in 1 .. 4 /\ 1 + 1 = 2
        OBVIOUS
      <4>3. Index(1, timer_jiffies * Gran[1]) = 0
        BY <2>2, <4>1
      <4>4. \E n \in Nat : timer_jiffies * Gran[1] = n * Gran[1 + 1]
        BY <4>1, <4>2, <4>3, NextBlock
      <4> QED
        BY <4>1, <4>2, <4>4
    <3> QED
      BY <1>1, <2>1, <3>1, <3>2, BeginCascadeFifo
  <2>3. CASE Index(1, timer_jiffies) # 0
    <3>1. OpenTick
      BY <1>9, <2>3 DEF StartTick
    <3> QED
      BY <1>1, <2>1, <3>1, OpenTickFifo
  <2> QED
    BY <2>2, <2>3
<1>10. ASSUME UNCHANGED <<order, vector>>, CascadeTimer
       PROVE  Armed' /\ Boundary' /\ InReach' /\ InOrder'
  <2>1. \A t \in pending \ misfiled : due[t] - timer_jiffies <= IDX_MAX
    BY DEF WithinReach
  <2>2. InReach' /\ InOrder'
    BY <1>1, <1>10, <2>1, CascadeReach, CascadeOrder
  <2>3. UNCHANGED <<pending, level, timer_jiffies>>
    BY <1>10 DEF CascadeTimer
  <2> QED
    BY <1>1, <1>10, <2>2, <2>3 DEF Armed, Boundary
<1>11. ASSUME UNCHANGED <<order, vector>>, CascadeDone
       PROVE  Armed' /\ Boundary' /\ InReach' /\ InOrder'
  <2>1. /\ list[WorkList] = <<>> /\ list[TvList] = <<>>
        /\ UNCHANGED <<pending, misfiled, due, order, vector>>
        /\ level \in 2 .. 5
    BY <1>1, <1>5, <1>11
    DEF CascadeDone, OnePlaceEach, WorkerShape, TypeOK
  <2>2. CASE level < 5 /\ Index(level, timer_jiffies) = 0
    <3>1. BeginCascade(level + 1)
      BY <1>11, <2>2 DEF CascadeDone
    <3>2. \E n \in Nat : timer_jiffies = n * Gran[level + 1]
      <4>1. PICK k \in Nat : timer_jiffies = k * Gran[level]
        BY <1>1, <2>1 DEF Boundary
      <4>2. level \in 1 .. 4 /\ Index(level, k * Gran[level]) = 0
        BY <2>1, <2>2, <4>1
      <4> QED
        BY <4>1, <4>2, NextBlock
    <3>3. PICK l \in 2 .. 5 : l = level + 1
      BY <2>1, <2>2
    <3> QED
      BY <1>1, <2>1, <3>1, <3>2, <3>3, BeginCascadeFifo
  <2>3. CASE ~ (level < 5 /\ Index(level, timer_jiffies) = 0)
    <3>1. OpenTick
      BY <1>11, <2>3 DEF CascadeDone
    <3> QED
      BY <1>1, <2>1, <3>1, OpenTickFifo
  <2> QED
    BY <2>2, <2>3
<1>12. ASSUME UNCHANGED <<order, vector>>,
              \/ Lock \/ FnReturn \/ EndRun
              \/ \E k \in Advances : Wake(k)
       PROVE  Armed' /\ Boundary' /\ InReach' /\ InOrder'
  BY <1>1, <1>12, QuietFifo DEF Lock, FnReturn, EndRun, Wake
<1>13. CASE UNCHANGED fifoVars
  BY <1>1, <1>13, QuietFifo DEF fifoVars, vars
<1> QED
  BY <1>7, <1>8, <1>9, <1>10, <1>11, <1>12, <1>13 DEF FifoNext

\* The invariant in terms of the work list.
LEMMA InOrderFifo ==
    FifoIInv => FifoPerVector
<1> SUFFICES ASSUME FifoIInv, NEW t \in pending \ misfiled,
                    NEW u \in pending \ misfiled,
                    Ahead(list[WorkList], t, u)
             PROVE  Earlier(t, u)
  BY DEF FifoPerVector, Earlier
<1>1. IInv /\ InOrder /\ WellLinked(list) /\ WorkList \in ListHeads
  BY ListsAreLinked, HeadsDistinct DEF FifoIInv
<1>2. t \in On(WorkList) /\ u \in On(WorkList)
  <2>1. list[WorkList] \in Seq(Timers) /\ IsInjective(list[WorkList])
    BY <1>1 DEF WellLinked
  <2> QED
    BY <2>1, AheadProperties DEF On
<1>3. due[t] = due[u]
  BY <1>1, <1>2 DEF IInv, Placement
<1>4. Sooner(list, level, t, u)
  BY <1>1, <1>2 DEF Sooner, On
<1> QED
  BY <1>1, <1>3, <1>4 DEF InOrder

\* Of two timers due in the same tick and filed in the same vector the one
\* armed first runs first, through every cascade of __run_timers, as long as
\* no timer is filed by a capped expiry.
THEOREM FifoUncapped == FifoSpec /\ []WithinReach => []FifoPerVector
<1>1. FifoInit => FifoIInv
  BY FifoInitial
<1>2. FifoIInv /\ WithinReach /\ WithinReach' /\ [FifoNext]_fifoVars
         => FifoIInv'
  BY FifoNextInvariant
<1>3. FifoIInv => FifoPerVector
  BY InOrderFifo
<1> QED
  BY <1>1, <1>2, <1>3, PTL DEF FifoSpec

\* The specification with the histories is the wheel.
LEMMA FifoInvariance ==
    FifoSpec => []IInv
<1>1. FifoInit => IInv
  BY InitInvariant DEF FifoInit
<1>2. IInv /\ [FifoNext]_fifoVars => IInv'
  <2>1. [FifoNext]_fifoVars => [Next]_vars
    BY DEF FifoNext, fifoVars, Arms, Next, Client, RunTimers
  <2> QED
    BY <2>1, NextInvariant
<1> QED
  BY <1>1, <1>2, PTL DEF FifoSpec

\* Half a word is within reach of a wheel whose IDX_MAX is no less.
LEMMA ShortWords ==
    ASSUME WORD \div 2 <= IDX_MAX + 1, IInv
    PROVE  WithinReach
<1>1. /\ timer_jiffies \in Nat /\ WORD \div 2 \in Nat /\ IDX_MAX \in Nat
  BY WordAssumption DEF IInv, TypeOK
<1>2. TVR_SIZE <= IDX_MAX
  <2>1. Gran[2] <= Gran[5] /\ Gran[2] = TVR_SIZE
    <3>1. 2 \in Levels /\ 5 \in Levels /\ 2 <= 5
      BY DEF Levels
    <3>2. Gran[2] <= Gran[5]
      BY <3>1, GranGrows
    <3> QED
      BY <3>2 DEF Gran
  <2>2. Gran[5] <= IDX_MAX /\ Gran[5] \in Nat
    BY GranType DEF Levels
  <2> QED
    BY <1>1, <2>1, <2>2, WheelAssumption
<1> SUFFICES ASSUME NEW t \in pending \ misfiled
             PROVE  due[t] - timer_jiffies <= IDX_MAX
  BY DEF WithinReach
<1>3. PICK h \in ListHeads : t \in On(h)
  BY DEF IInv, OnePlaceEach
<1>4. due[t] \in Nat
  <2>1. t \in Timers
    BY DEF IInv, TypeOK
  <2> QED
    BY <2>1, WordAssumption DEF IInv, TypeOK, Words
<1>5. CASE h \in Buckets
  <2>1. Placed(t, h[1], h[2])
    BY <1>3, <1>5 DEF IInv, Placement
  <2>2. CASE h[1] = 1
    <3>1. due[t] \in timer_jiffies .. timer_jiffies + TVR_SIZE - 1
      BY <2>1, <2>2 DEF Placed
    <3> QED
      BY <1>1, <1>2, <1>4, <3>1, WheelAssumption
  <2>3. CASE h[1] # 1
    <3>1. due[t] < timer_jiffies + WORD \div 2
      BY <2>1, <2>3 DEF Placed
    <3> QED
      BY <1>1, <1>4, <3>1
  <2> QED
    BY <2>2, <2>3
<1>6. CASE h = TvList
  <2>1. due[t] \in timer_jiffies .. timer_jiffies + WORD \div 2 - 1
    BY <1>3, <1>6 DEF IInv, Placement
  <2> QED
    BY <1>1, <1>4, <2>1
<1>7. CASE h = WorkList
  <2>1. due[t] = timer_jiffies - 1
    BY <1>3, <1>7 DEF IInv, Placement
  <2> QED
    BY <1>1, <1>4, <2>1
<1> QED
  BY <1>5, <1>6, <1>7, HeadsAre

\* Where unsigned long has 32 bits no expiry is ever capped, whatever the
\* clients ask for: the order of internal_add_timer's comment, vector by
\* vector, without a condition.
THEOREM FifoOnShortWords ==
    ASSUME WORD \div 2 <= IDX_MAX + 1
    PROVE  FifoSpec => []FifoPerVector
<1>1. IInv => WithinReach
  BY ShortWords
<1> QED
  BY <1>1, FifoInvariance, FifoUncapped, PTL
=============================================================================
