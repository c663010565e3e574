-------------------------- MODULE UtilitiesProofs --------------------------
(***************************************************************************)
(* Proofs about the parts of base/ that a single thread runs, which share  *)
(* nothing: Date for every day after January 1, 1900; TimeZone for every   *)
(* zone file and every time; ReadSmallFile for all sizes of the file and   *)
(* of the buffer and all changes by others; Logging for every clock, every *)
(* fork and every line.                                                    *)
(***************************************************************************)
EXTENDS Date, TimeZone, ReadSmallFile, Logging, WellFoundedInduction, TLAPS

-----------------------------------------------------------------------------
(* Recursive functions *)

\* A set of natural numbers that is not empty has a smallest element.
LEMMA Smallest ==
    ASSUME NEW T \in SUBSET Nat, T # {}
    PROVE  \E x \in T : \A y \in T : x <= y
<1>1. PICK x \in T : \A y \in T : <<y, x>> \notin OpToRel(<, Nat)
  BY NatLessThanWellFounded, WFMin, Zenon
<1>2. \A y \in T : ~(y < x)
  BY <1>1 DEF OpToRel
<1> QED BY <1>2

\* step makes a value in V for each x in S from the values of lower rank.
Descends(S, V, rank, step) ==
    /\ V # {} /\ rank \in [S -> Nat] /\ step \in [S -> [[S -> V] -> V]]
    /\ \A x \in S : \A f, g \in [S -> V] :
          (\A y \in S : rank[y] < rank[x] => f[y] = g[y]) => step[x][f] = step[x][g]

\* The functions that do what step says below n.
Below(S, V, rank, step, n) ==
    {g \in [S -> V] : \A x \in S : rank[x] < n => g[x] = step[x][g]}

\* A function that is defined from its own values at lower ranks exists.
LEMMA Recursion ==
    ASSUME NEW S, NEW V, NEW rank, NEW step, Descends(S, V, rank, step)
    PROVE  \E F \in [S -> V] : \A x \in S : F[x] = step[x][F]
<1> USE DEF Descends
<1> DEFINE B(n) == Below(S, V, rank, step, n)
<1>1. \A x \in S : rank[x] \in Nat
  OBVIOUS
<1>2. ASSUME NEW n \in Nat, NEW g \in B(n)
      PROVE  \E h \in B(n + 1) : TRUE
  <2> DEFINE h == [x \in S |-> step[x][g]]
  <2>1. g \in [S -> V] /\ \A x \in S : rank[x] < n => g[x] = step[x][g]
    BY <1>2 DEF Below
  <2>2. \A x \in S : step[x][g] \in V
    BY <2>1
  <2>3. h \in [S -> V] /\ \A x \in S : h[x] = step[x][g]
    BY <2>2
  <2> HIDE DEF h
  <2>4. \A y \in S : rank[y] < n => g[y] = h[y]
    BY <2>1, <2>3
  <2>5. ASSUME NEW x \in S, rank[x] < n + 1 PROVE h[x] = step[x][h]
    <3>1. \A y \in S : rank[y] < rank[x] => g[y] = h[y]
      BY <1>1, <2>4, <2>5
    <3> QED BY <2>1, <2>3, <3>1
  <2>6. h \in B(n + 1)
    BY <2>3, <2>5 DEF Below
  <2> QED BY <2>6
<1>3. \A n \in Nat : B(n) # {}
  <2> DEFINE T == {n \in Nat : B(n) = {}}
  <2>1. SUFFICES ASSUME T # {} PROVE FALSE
    OBVIOUS
  <2> HIDE DEF B
  <2>2. PICK n \in T : \A j \in T : n <= j
    BY <2>1, Smallest
  <2>3. n # 0
    <3>1. PICK v \in V : TRUE
      OBVIOUS
    <3>2. [x \in S |-> v] \in [S -> V]
      OBVIOUS
    <3>3. \A x \in S : ~(rank[x] < 0)
      BY <1>1
    <3>4. [x \in S |-> v] \in B(0)
      BY <3>2, <3>3 DEF B, Below
    <3> QED BY <3>4
  <2>4. n \in Nat /\ n - 1 \in Nat /\ (n - 1) + 1 = n
    BY <2>3
  <2>5. PICK g : g \in B(n - 1)
    <3>1. n - 1 \notin T
      <4> HIDE DEF T
      <4> QED BY <2>2, <2>4
    <3> QED BY <2>4, <3>1
  <2>6. \E h \in B(n) : TRUE
    BY <1>2, <2>4, <2>5
  <2> QED BY <2>6
<1>4. ASSUME NEW n \in Nat, NEW m \in Nat, NEW g \in B(n), NEW h \in B(m)
      PROVE  \A x \in S : rank[x] < n /\ rank[x] < m => g[x] = h[x]
  <2> DEFINE T == {k \in Nat : \E x \in S : rank[x] = k /\ k < n /\ k < m /\ g[x] # h[x]}
  <2>1. SUFFICES ASSUME T # {} PROVE FALSE
    BY <1>1
  <2>2. /\ g \in [S -> V] /\ \A x \in S : rank[x] < n => g[x] = step[x][g]
        /\ h \in [S -> V] /\ \A x \in S : rank[x] < m => h[x] = step[x][h]
    BY <1>4 DEF Below
  <2>3. PICK k \in T : \A j \in T : k <= j
    BY <2>1, Smallest
  <2>4. PICK x \in S : rank[x] = k /\ k < n /\ k < m /\ g[x] # h[x]
    BY <2>3
  <2>5. \A y \in S : rank[y] < rank[x] => g[y] = h[y]
    BY <1>1, <2>3, <2>4
  <2>6. step[x][g] = step[x][h]
    BY <2>2, <2>5
  <2>7. g[x] = step[x][g] /\ h[x] = step[x][h]
    BY <2>2, <2>4
  <2> QED BY <2>4, <2>6, <2>7
<1> DEFINE G(n) == CHOOSE g : g \in B(n)
           F == [x \in S |-> G(rank[x] + 1)[x]]
<1>5. \A n \in Nat : G(n) \in B(n)
  BY <1>3
<1>6. \A n \in Nat : G(n) \in [S -> V] /\ \A x \in S : rank[x] < n => G(n)[x] = step[x][G(n)]
  BY <1>5 DEF Below
<1> HIDE DEF G, B
<1>7. F \in [S -> V] /\ \A x \in S : F[x] = G(rank[x] + 1)[x]
  <2>1. \A x \in S : G(rank[x] + 1)[x] \in V
    BY <1>1, <1>6
  <2> QED BY <2>1
<1> HIDE DEF F
<1>8. ASSUME NEW x \in S PROVE F[x] = step[x][F]
  <2> DEFINE n == rank[x] + 1
  <2>1. n \in Nat /\ rank[x] < n
    BY <1>1
  <2>2. ASSUME NEW y \in S, rank[y] < rank[x] PROVE F[y] = G(n)[y]
    <3>1. rank[y] + 1 \in Nat /\ rank[y] < rank[y] + 1 /\ rank[y] < n
      BY <1>1, <2>2
    <3> HIDE DEF n
    <3> QED BY <1>4, <1>5, <1>7, <2>1, <3>1
  <2> HIDE DEF n
  <2>3. G(n) \in [S -> V] /\ G(n)[x] = step[x][G(n)]
    BY <1>6, <2>1
  <2>4. step[x][F] = step[x][G(n)]
    BY <1>7, <2>2, <2>3
  <2> QED BY <1>7, <2>3, <2>4 DEF n
<1> QED BY <1>7, <1>8

-----------------------------------------------------------------------------
(* Date *)

\* The year that begins in March, its month counted from 0, and the day number
\* of a date in it.
Shifted(y, m, day) == day + (153 * m + 2) \div 5 + y * 365 + y \div 4 - y \div 100 + y \div 400 - 32045

LEMMA EarlyMonths ==
    ASSUME NEW year \in Nat, NEW month \in 1..2, NEW day \in Nat
    PROVE  getJulianDayNum(year, month, day) = Shifted(year + 4799, month + 9, day)
<1>1. (14 - month) \div 12 = 1
  OBVIOUS
<1>2. year + 4800 - 1 = year + 4799 /\ month + 12 * 1 - 3 = month + 9
  OBVIOUS
<1> QED BY <1>1, <1>2 DEF getJulianDayNum, Shifted

LEMMA LateMonths ==
    ASSUME NEW year \in Nat, NEW month \in 3..12, NEW day \in Nat
    PROVE  getJulianDayNum(year, month, day) = Shifted(year + 4800, month - 3, day)
<1>1. (14 - month) \div 12 = 0
  OBVIOUS
<1>2. year + 4800 - 0 = year + 4800 /\ month + 12 * 0 - 3 = month - 3
  OBVIOUS
<1> QED BY <1>1, <1>2 DEF getJulianDayNum, Shifted

\* The months from March on.
LEMMA Months ==
    /\ (153 * 0 + 2) \div 5 = 0 /\ (153 * 1 + 2) \div 5 = 31 /\ (153 * 2 + 2) \div 5 = 61
    /\ (153 * 3 + 2) \div 5 = 92 /\ (153 * 4 + 2) \div 5 = 122 /\ (153 * 5 + 2) \div 5 = 153
    /\ (153 * 6 + 2) \div 5 = 184 /\ (153 * 7 + 2) \div 5 = 214 /\ (153 * 8 + 2) \div 5 = 245
    /\ (153 * 9 + 2) \div 5 = 275 /\ (153 * 10 + 2) \div 5 = 306 /\ (153 * 11 + 2) \div 5 = 337
OBVIOUS

Leap(y) == y % 400 = 0 \/ (y % 100 # 0 /\ y % 4 = 0)

\* How many days the leap days of the centuries add from one year to the next.
LEMMA LeapDays ==
    ASSUME NEW y \in Nat
    PROVE  /\ (y + 1) \div 4 = y \div 4 + (IF (y + 1) % 4 = 0 THEN 1 ELSE 0)
           /\ (y + 1) \div 100 = y \div 100 + (IF (y + 1) % 100 = 0 THEN 1 ELSE 0)
           /\ (y + 1) \div 400 = y \div 400 + (IF (y + 1) % 400 = 0 THEN 1 ELSE 0)
           /\ (y + 1) % 400 = 0 => (y + 1) % 100 = 0
           /\ (y + 1) % 100 = 0 => (y + 1) % 4 = 0
<1>1. (y + 1) \div 4 = y \div 4 + (IF (y + 1) % 4 = 0 THEN 1 ELSE 0)
  OBVIOUS
<1>2. (y + 1) \div 100 = y \div 100 + (IF (y + 1) % 100 = 0 THEN 1 ELSE 0)
  OBVIOUS
<1>3. (y + 1) \div 400 = y \div 400 + (IF (y + 1) % 400 = 0 THEN 1 ELSE 0)
  OBVIOUS
<1>4. (y + 1) % 400 = 0 => (y + 1) % 100 = 0
  OBVIOUS
<1>5. (y + 1) % 100 = 0 => (y + 1) % 4 = 0
  OBVIOUS
<1> QED BY <1>1, <1>2, <1>3, <1>4, <1>5

LEMMA LeapAgrees ==
    ASSUME NEW year \in Nat
    PROVE  isLeapYear(year) <=> Leap((year + 4799) + 1)
<1>1. ((year + 4799) + 1) % 400 = year % 400
  OBVIOUS
<1>2. ((year + 4799) + 1) % 100 = year % 100
  OBVIOUS
<1>3. ((year + 4799) + 1) % 4 = year % 4
  OBVIOUS
<1> QED BY <1>1, <1>2, <1>3 DEF isLeapYear, Leap

\* From February of one such year to March of the next.
LEMMA FebruaryToMarch ==
    ASSUME NEW y \in Nat, NEW day \in Nat
    PROVE  Shifted(y + 1, 0, 1) = Shifted(y, 11, day) + (29 - day) + (IF Leap(y + 1) THEN 1 ELSE 0)
<1> DEFINE a == y \div 4
           b == y \div 100
           c == y \div 400
           l4 == IF (y + 1) % 4 = 0 THEN 1 ELSE 0
           l100 == IF (y + 1) % 100 = 0 THEN 1 ELSE 0
           l400 == IF (y + 1) % 400 = 0 THEN 1 ELSE 0
<1>1. a \in Int /\ b \in Int /\ c \in Int /\ l4 \in Int /\ l100 \in Int /\ l400 \in Int
  OBVIOUS
<1>2. (l4 - l100) + l400 = IF Leap(y + 1) THEN 1 ELSE 0
  BY LeapDays DEF Leap
<1>3. (y + 1) \div 4 = a + l4 /\ (y + 1) \div 100 = b + l100 /\ (y + 1) \div 400 = c + l400
  BY LeapDays
<1>4. Shifted(y, 11, day) = day + 337 + y * 365 + a - b + c - 32045
  BY Months DEF Shifted
<1>5. Shifted(y + 1, 0, 1) = 1 + 0 + (y + 1) * 365 + (a + l4) - (b + l100) + (c + l400) - 32045
  BY <1>3, Months DEF Shifted
<1> HIDE DEF a, b, c, l4, l100, l400
<1>6. Shifted(y + 1, 0, 1) = Shifted(y, 11, day) + (29 - day) + ((l4 - l100) + l400)
  BY <1>1, <1>4, <1>5
<1> QED BY <1>2, <1>6

\* The day of such a year, and the month in which it is.
DayOfYearOK(m, day, k) ==
    /\ k \in 0..337 /\ (day - 1) + k \in 0..365
    /\ (5 * ((day - 1) + k) + 2) \div 153 = m
    /\ (day - 1) + k = 365 => m = 11 /\ day = 29

LEMMA DayOfYear ==
    ASSUME NEW m \in 0..11, NEW day \in 1..31,
           NEW k \in Int, k = (153 * m + 2) \div 5,
           m \in {1, 3, 6, 8} => day <= 30, m = 11 => day <= 29
    PROVE  DayOfYearOK(m, day, k)
<1> USE Months DEF DayOfYearOK
<1>1. CASE m = 0
  BY <1>1
<1>2. CASE m = 1
  BY <1>2
<1>3. CASE m = 2
  BY <1>3
<1>4. CASE m = 3
  BY <1>4
<1>5. CASE m = 4
  BY <1>5
<1>6. CASE m = 5
  BY <1>6
<1>7. CASE m = 6
  BY <1>7
<1>8. CASE m = 7
  BY <1>8
<1>9. CASE m = 8
  BY <1>9
<1>10. CASE m = 9
  BY <1>10
<1>11. CASE m = 10
  BY <1>11
<1>12. CASE m = 11
  BY <1>12
<1> HIDE Months DEF DayOfYearOK
<1>13. \/ m = 0 \/ m = 1 \/ m = 2 \/ m = 3 \/ m = 4 \/ m = 5
       \/ m = 6 \/ m = 7 \/ m = 8 \/ m = 9 \/ m = 10 \/ m = 11
  OBVIOUS
<1> QED BY <1>1, <1>2, <1>3, <1>4, <1>5, <1>6, <1>7, <1>8, <1>9, <1>10, <1>11, <1>12, <1>13, Zenon

LEMMA CenturyQuotient ==
    ASSUME NEW b \in Int, NEW r \in Int, 0 <= r, r <= 146096
    PROVE  (146097 * b + r) \div 146097 = b
OBVIOUS

LEMMA CenturyRemainder ==
    ASSUME NEW c \in Nat, c <= 36524, NEW q \in 0..3, c = 36524 => q = 3
    PROVE  (4 * c + 3) - q \in Int /\ 0 <= (4 * c + 3) - q /\ (4 * c + 3) - q <= 146096
<1>1. CASE c = 36524
  BY <1>1
<1>2. CASE c <= 36523
  BY <1>2
<1> QED BY <1>1, <1>2

LEMMA YearQuotient ==
    ASSUME NEW d \in Int, NEW r \in Int, 0 <= r, r <= 1460
    PROVE  (1461 * d + r) \div 1461 = d
OBVIOUS

\* The conversion back, from the century to the day, of a date of such a year.
InMonth(y, m, day) ==
    /\ m \in {1, 3, 6, 8} => day <= 30
    /\ m = 11 => day <= 29
    /\ m = 11 /\ day = 29 => Leap(y + 1)

ComesBack(y, m, day) ==
    getYearMonthDay(Shifted(y, m, day)) =
        [year |-> y - 4800 + m \div 10, month |-> m + 3 - 12 * (m \div 10), day |-> day]

LEMMA RoundTrip ==
    ASSUME NEW y \in Nat, NEW m \in 0..11, NEW day \in 1..31, InMonth(y, m, day)
    PROVE  ComesBack(y, m, day)
<1> USE DEF InMonth
<1> DEFINE k == (153 * m + 2) \div 5
           e == (day - 1) + k
           b == y \div 100
           d == y % 100
           c == (365 * d + d \div 4) + e
           a == Shifted(y, m, day) + 32044
<1>1. k \in 0..337 /\ e \in 0..365 /\ (5 * e + 2) \div 153 = m /\ (e = 365 => Leap(y + 1))
  <2>1. k \in Int /\ k = (153 * m + 2) \div 5
    OBVIOUS
  <2> HIDE DEF k
  <2>2. DayOfYearOK(m, day, k)
    BY <2>1, DayOfYear
  <2> QED BY <2>2 DEF DayOfYearOK
<1>2. b \in Nat /\ d \in 0..99 /\ y = 100 * b + d
  OBVIOUS
<1>3. y \div 4 = 25 * b + d \div 4 /\ y \div 400 = b \div 4
  <2>1. y \div 4 = 25 * b + d \div 4
    OBVIOUS
  <2>2. y \div 400 = b \div 4
    OBVIOUS
  <2> QED BY <2>1, <2>2
<1>4. e = 365 => d % 4 = 3 /\ (d = 99 => b % 4 = 3)
  <2> HIDE DEF e
  <2>1. (y + 1) % 4 = 0 => d % 4 = 3
    OBVIOUS
  <2>2. (y + 1) % 400 = 0 => (y + 1) % 4 = 0
    OBVIOUS
  <2>3. d = 99 => (y + 1) % 100 = 0
    OBVIOUS
  <2>4. d = 99 /\ (y + 1) % 400 = 0 => b % 4 = 3
    OBVIOUS
  <2> QED BY <1>1, <2>1, <2>2, <2>3, <2>4 DEF Leap
<1>5. a = (36524 * b + b \div 4) + c
  <2>1. a = ((day + k + y * 365 + (25 * b + d \div 4) - b + b \div 4) - 32045) + 32044
    BY <1>3 DEF Shifted
  <2>2. b \div 4 \in Int /\ d \div 4 \in Int
    BY <1>2
  <2> DEFINE p == b \div 4
             q == d \div 4
  <2> HIDE DEF a, b, d, p, q, k
  <2>3. a = ((day + k + y * 365 + (25 * b + q) - b + p) - 32045) + 32044
    BY <2>1 DEF p, q
  <2>4. p \in Int /\ q \in Int
    BY <2>2 DEF p, q
  <2>5. a = (36524 * b + p) + ((365 * d + q) + ((day - 1) + k))
    BY <1>1, <1>2, <2>3, <2>4
  <2> QED BY <2>5 DEF p, q
<1> HIDE DEF a, b, d, k, e
<1>6. c \in Nat /\ c <= 36524 /\ (c = 36524 => b % 4 = 3)
  <2>1. d \div 4 \in 0..24 /\ (d = 99 => d \div 4 = 24)
    BY <1>2
  <2>2. d <= 98 => 365 * d + d \div 4 <= 35794
    BY <1>2
  <2>3. d = 99 => 365 * d + d \div 4 = 36159
    BY <1>2
  <2>4. e = 365 /\ d = 99 => b % 4 = 3
    BY <1>4
  <2> DEFINE q == d \div 4
  <2>5. q \in 0..24
    BY <2>1
  <2> HIDE DEF q
  <2>6. (365 * d + q) + e \in Nat
    BY <1>1, <1>2, <2>5
  <2>7. /\ d <= 98 => 365 * d + q <= 35794
        /\ d = 99 => 365 * d + q = 36159
    BY <2>2, <2>3 DEF q
  <2>8. (365 * d + q) + e <= 36524 /\ ((365 * d + q) + e = 36524 => e = 365 /\ d = 99)
    <3>1. CASE d <= 98
      BY <1>1, <1>2, <2>5, <2>7, <3>1
    <3>2. CASE d = 99
      BY <1>1, <1>2, <2>5, <2>7, <3>2
    <3> QED BY <1>2, <3>1, <3>2
  <2> QED BY <2>4, <2>6, <2>8 DEF q
<1> HIDE DEF c
<1>7. (4 * a + 3) \div 146097 = b
  <2> DEFINE p == b \div 4
             q == b % 4
  <2>1. p \in Nat /\ q \in 0..3 /\ b = 4 * p + q
    BY <1>2
  <2> HIDE DEF p, q
  <2>2. a = (36524 * b + p) + c
    BY <1>5 DEF p
  <2>3. c = 36524 => q = 3
    BY <1>6 DEF q
  <2>4. 4 * a + 3 = 146097 * b + ((4 * c + 3) - q)
    BY <1>2, <1>6, <2>1, <2>2
  <2>5. c \in Nat /\ c <= 36524
    BY <1>6
  <2>6. (4 * c + 3) - q \in Int /\ 0 <= (4 * c + 3) - q /\ (4 * c + 3) - q <= 146096
    BY <2>1, <2>3, <2>5, CenturyRemainder
  <2>7. (146097 * b + ((4 * c + 3) - q)) \div 146097 = b
    <3> DEFINE r == (4 * c + 3) - q
    <3> HIDE DEF r
    <3>1. r \in Int /\ 0 <= r /\ r <= 146096
      BY <2>6 DEF r
    <3>2. (146097 * b + r) \div 146097 = b
      BY <1>2, <3>1, CenturyQuotient
    <3> QED BY <3>2 DEF r
  <2> QED BY <2>4, <2>7
<1>8. a - (b * 146097) \div 4 = c
  <2>1. (b * 146097) \div 4 = 36524 * b + b \div 4
    BY <1>2
  <2>2. b \div 4 \in Int
    BY <1>2
  <2> DEFINE p == b \div 4
  <2> HIDE DEF p
  <2>3. ((36524 * b + p) + c) - (36524 * b + p) = c
    BY <1>2, <1>6, <2>2 DEF p
  <2> QED BY <1>5, <2>1, <2>3 DEF p
<1>9. (4 * c + 3) \div 1461 = d
  <2> DEFINE p == d \div 4
             q == d % 4
  <2>1. p \in Nat /\ q \in 0..3 /\ d = 4 * p + q
    BY <1>2
  <2>2. c = (365 * d + p) + e
    BY DEF c
  <2> HIDE DEF p, q
  <2>3. e = 365 => q = 3
    BY <1>4 DEF q
  <2>4. 4 * c + 3 = 1461 * d + ((4 * e + 3) - q)
    BY <1>1, <1>2, <2>1, <2>2
  <2>5. (4 * e + 3) - q \in 0..1460
    BY <1>1, <2>1, <2>3
  <2> DEFINE r == (4 * e + 3) - q
  <2> HIDE DEF r
  <2>6. r \in Int /\ 0 <= r /\ r <= 1460
    BY <1>1, <2>1, <2>5 DEF r
  <2>7. (1461 * d + r) \div 1461 = d
    BY <1>2, <2>6, YearQuotient
  <2> QED BY <2>4, <2>7 DEF r
<1>10. c - (1461 * d) \div 4 = e
  <2>1. (1461 * d) \div 4 = 365 * d + d \div 4
    BY <1>2
  <2> DEFINE p == d \div 4
  <2>2. p \in Int
    BY <1>2
  <2> HIDE DEF p
  <2>3. ((365 * d + p) + e) - (365 * d + p) = e
    BY <1>1, <1>2, <2>2
  <2> QED BY <2>1, <2>3 DEF p, c
<1>11. e - k + 1 = day
  BY <1>1 DEF e
<1>12. b * 100 + d = y
  BY <1>2
<1>13. getYearMonthDay(Shifted(y, m, day)) =
          [year |-> b * 100 + d - 4800 + m \div 10, month |-> m + 3 - 12 * (m \div 10),
           day |-> e - (153 * m + 2) \div 5 + 1]
  <2> DEFINE jd == Shifted(y, m, day)
  <2>1. b = (4 * (jd + 32044) + 3) \div 146097 /\ c = (jd + 32044) - (b * 146097) \div 4
    BY <1>7, <1>8 DEF a
  <2>2. d = (4 * c + 3) \div 1461 /\ e = c - (1461 * d) \div 4 /\ m = (5 * e + 2) \div 153
    BY <1>1, <1>9, <1>10
  <2>0. jd \in Int /\ b \in Int /\ c \in Int /\ d \in Int /\ e \in Int /\ m \in Int
    BY <1>1, <1>2, <1>6 DEF Shifted
  <2> HIDE DEF jd
  <2>3. getYearMonthDay(jd) =
          [year |-> b * 100 + d - 4800 + m \div 10, month |-> m + 3 - 12 * (m \div 10),
           day |-> e - (153 * m + 2) \div 5 + 1]
    BY <2>0, <2>1, <2>2 DEF getYearMonthDay
  <2> QED BY <2>3 DEF jd
<1>14. e - (153 * m + 2) \div 5 + 1 = day
  BY <1>11 DEF k
<1> DEFINE yy == b * 100 + d - 4800 + m \div 10
           dd == e - (153 * m + 2) \div 5 + 1
<1>15. yy = y - 4800 + m \div 10
  BY <1>2
<1>16. dd = day
  BY <1>14
<1>17. getYearMonthDay(Shifted(y, m, day)) =
          [year |-> yy, month |-> m + 3 - 12 * (m \div 10), day |-> dd]
  BY <1>13
<1> HIDE DEF yy, dd
<1> QED BY <1>15, <1>16, <1>17 DEF ComesBack

\* Inside a year that begins in March only the days before the month and in it
\* count.
LEMMA SameYear ==
    ASSUME NEW y \in Nat, NEW m \in Nat, NEW n \in Nat, NEW d1 \in Nat, NEW d2 \in Nat,
           d1 + (153 * m + 2) \div 5 = d2 + (153 * n + 2) \div 5 + 1
    PROVE  Shifted(y, m, d1) = Shifted(y, n, d2) + 1
<1> DEFINE r == y * 365 + y \div 4 - y \div 100 + y \div 400 - 32045
           k == (153 * m + 2) \div 5
           l == (153 * n + 2) \div 5
<1>1. r \in Int /\ k \in Int /\ l \in Int
  OBVIOUS
<1>2. Shifted(y, m, d1) = d1 + k + r
  BY DEF Shifted
<1>3. Shifted(y, n, d2) = d2 + l + r
  BY DEF Shifted
<1>4. d1 + k = d2 + l + 1
  OBVIOUS
<1> HIDE DEF r, k, l
<1> QED BY <1>1, <1>2, <1>3, <1>4

LEMMA Lengths ==
    ASSUME NEW year \in Nat
    PROVE  /\ daysOfMonth(year, 1) = 31 /\ daysOfMonth(year, 3) = 31 /\ daysOfMonth(year, 4) = 30
           /\ daysOfMonth(year, 5) = 31 /\ daysOfMonth(year, 6) = 30 /\ daysOfMonth(year, 7) = 31
           /\ daysOfMonth(year, 8) = 31 /\ daysOfMonth(year, 9) = 30 /\ daysOfMonth(year, 10) = 31
           /\ daysOfMonth(year, 11) = 30 /\ daysOfMonth(year, 12) = 31
           /\ isLeapYear(year) => daysOfMonth(year, 2) = 29
           /\ ~isLeapYear(year) => daysOfMonth(year, 2) = 28
BY DEF daysOfMonth

LEMMA NextShifted ==
    ASSUME NEW y \in Nat, NEW m \in Nat, NEW d \in Nat
    PROVE  Shifted(y, m, d + 1) = Shifted(y, m, d) + 1
<1> DEFINE r == y * 365 + y \div 4 - y \div 100 + y \div 400 - 32045
           k == (153 * m + 2) \div 5
<1>1. r \in Int /\ k \in Int
  OBVIOUS
<1>2. Shifted(y, m, d + 1) = (d + 1) + k + r
  BY DEF Shifted
<1>3. Shifted(y, m, d) = d + k + r
  BY DEF Shifted
<1> HIDE DEF r, k
<1> QED BY <1>1, <1>2, <1>3

\* The next day of the month.
LEMMA NextOfMonth ==
    ASSUME NEW year \in Nat, NEW month \in 1..12, NEW day \in Nat
    PROVE  getJulianDayNum(year, month, day + 1) = getJulianDayNum(year, month, day) + 1
<1>1. CASE month <= 2
  <2>1. Shifted(year + 4799, month + 9, day + 1) = Shifted(year + 4799, month + 9, day) + 1
    BY <1>1, NextShifted
  <2>2. month \in 1..2 /\ day + 1 \in Nat
    BY <1>1
  <2> QED BY <2>1, <2>2, EarlyMonths
<1>2. CASE ~(month <= 2)
  <2>1. Shifted(year + 4800, month - 3, day + 1) = Shifted(year + 4800, month - 3, day) + 1
    BY <1>2, NextShifted
  <2>2. month \in 3..12 /\ day + 1 \in Nat
    BY <1>2
  <2> QED BY <2>1, <2>2, LateMonths
<1> QED BY <1>1, <1>2

\* The first of a month comes after the last of the month before.
LEMMA NextMonth ==
    ASSUME NEW year \in Nat, NEW month \in 1..11
    PROVE  getJulianDayNum(year, month + 1, 1)
               = getJulianDayNum(year, month, daysOfMonth(year, month)) + 1
<1>1. CASE month = 1
  <2>1. /\ getJulianDayNum(year, 2, 1) = Shifted(year + 4799, 11, 1)
        /\ getJulianDayNum(year, 1, 31) = Shifted(year + 4799, 10, 31)
    BY EarlyMonths, LateMonths
  <2>2. Shifted(year + 4799, 11, 1) = Shifted(year + 4799, 10, 31) + 1
    BY SameYear, Months
  <2> QED BY <1>1, <2>1, <2>2, Lengths
<1>2. CASE month = 2
  <2>1. /\ getJulianDayNum(year, 3, 1) = Shifted(year + 4800, 0, 1)
        /\ getJulianDayNum(year, 2, 29) = Shifted(year + 4799, 11, 29)
        /\ getJulianDayNum(year, 2, 28) = Shifted(year + 4799, 11, 28)
    BY EarlyMonths, LateMonths
  <2>5. Shifted(year + 4799, 11, 29) \in Int /\ Shifted(year + 4799, 11, 28) \in Int
    BY DEF Shifted
  <2>2. (year + 4799) + 1 = year + 4800
    OBVIOUS
  <2>3. CASE isLeapYear(year)
    <3>1. Leap((year + 4799) + 1)
      BY <2>3, LeapAgrees
    <3>2. Shifted((year + 4799) + 1, 0, 1) = Shifted(year + 4799, 11, 29) + (29 - 29) + 1
      BY <3>1, FebruaryToMarch
    <3> QED BY <1>2, <2>1, <2>2, <2>3, <2>5, <3>2, Lengths
  <2>4. CASE ~isLeapYear(year)
    <3>1. ~Leap((year + 4799) + 1)
      BY <2>4, LeapAgrees
    <3>2. Shifted((year + 4799) + 1, 0, 1) = Shifted(year + 4799, 11, 28) + (29 - 28) + 0
      BY <3>1, FebruaryToMarch
    <3> QED BY <1>2, <2>1, <2>2, <2>4, <2>5, <3>2, Lengths
  <2> QED BY <2>3, <2>4
<1>3. CASE month = 3
  <2>1. /\ getJulianDayNum(year, 4, 1) = Shifted(year + 4800, 1, 1)
        /\ getJulianDayNum(year, 3, 31) = Shifted(year + 4800, 0, 31)
    BY EarlyMonths, LateMonths
  <2>2. Shifted(year + 4800, 1, 1) = Shifted(year + 4800, 0, 31) + 1
    BY SameYear, Months
  <2> QED BY <1>3, <2>1, <2>2, Lengths
<1>4. CASE month = 4
  <2>1. /\ getJulianDayNum(year, 5, 1) = Shifted(year + 4800, 2, 1)
        /\ getJulianDayNum(year, 4, 30) = Shifted(year + 4800, 1, 30)
    BY EarlyMonths, LateMonths
  <2>2. Shifted(year + 4800, 2, 1) = Shifted(year + 4800, 1, 30) + 1
    BY SameYear, Months
  <2> QED BY <1>4, <2>1, <2>2, Lengths
<1>5. CASE month = 5
  <2>1. /\ getJulianDayNum(year, 6, 1) = Shifted(year + 4800, 3, 1)
        /\ getJulianDayNum(year, 5, 31) = Shifted(year + 4800, 2, 31)
    BY EarlyMonths, LateMonths
  <2>2. Shifted(year + 4800, 3, 1) = Shifted(year + 4800, 2, 31) + 1
    BY SameYear, Months
  <2> QED BY <1>5, <2>1, <2>2, Lengths
<1>6. CASE month = 6
  <2>1. /\ getJulianDayNum(year, 7, 1) = Shifted(year + 4800, 4, 1)
        /\ getJulianDayNum(year, 6, 30) = Shifted(year + 4800, 3, 30)
    BY EarlyMonths, LateMonths
  <2>2. Shifted(year + 4800, 4, 1) = Shifted(year + 4800, 3, 30) + 1
    BY SameYear, Months
  <2> QED BY <1>6, <2>1, <2>2, Lengths
<1>7. CASE month = 7
  <2>1. /\ getJulianDayNum(year, 8, 1) = Shifted(year + 4800, 5, 1)
        /\ getJulianDayNum(year, 7, 31) = Shifted(year + 4800, 4, 31)
    BY EarlyMonths, LateMonths
  <2>2. Shifted(year + 4800, 5, 1) = Shifted(year + 4800, 4, 31) + 1
    BY SameYear, Months
  <2> QED BY <1>7, <2>1, <2>2, Lengths
<1>8. CASE month = 8
  <2>1. /\ getJulianDayNum(year, 9, 1) = Shifted(year + 4800, 6, 1)
        /\ getJulianDayNum(year, 8, 31) = Shifted(year + 4800, 5, 31)
    BY EarlyMonths, LateMonths
  <2>2. Shifted(year + 4800, 6, 1) = Shifted(year + 4800, 5, 31) + 1
    BY SameYear, Months
  <2> QED BY <1>8, <2>1, <2>2, Lengths
<1>9. CASE month = 9
  <2>1. /\ getJulianDayNum(year, 10, 1) = Shifted(year + 4800, 7, 1)
        /\ getJulianDayNum(year, 9, 30) = Shifted(year + 4800, 6, 30)
    BY EarlyMonths, LateMonths
  <2>2. Shifted(year + 4800, 7, 1) = Shifted(year + 4800, 6, 30) + 1
    BY SameYear, Months
  <2> QED BY <1>9, <2>1, <2>2, Lengths
<1>10. CASE month = 10
  <2>1. /\ getJulianDayNum(year, 11, 1) = Shifted(year + 4800, 8, 1)
        /\ getJulianDayNum(year, 10, 31) = Shifted(year + 4800, 7, 31)
    BY EarlyMonths, LateMonths
  <2>2. Shifted(year + 4800, 8, 1) = Shifted(year + 4800, 7, 31) + 1
    BY SameYear, Months
  <2> QED BY <1>10, <2>1, <2>2, Lengths
<1>11. CASE month = 11
  <2>1. /\ getJulianDayNum(year, 12, 1) = Shifted(year + 4800, 9, 1)
        /\ getJulianDayNum(year, 11, 30) = Shifted(year + 4800, 8, 30)
    BY EarlyMonths, LateMonths
  <2>2. Shifted(year + 4800, 9, 1) = Shifted(year + 4800, 8, 30) + 1
    BY SameYear, Months
  <2> QED BY <1>11, <2>1, <2>2, Lengths
<1> QED BY <1>1, <1>2, <1>3, <1>4, <1>5, <1>6, <1>7, <1>8, <1>9, <1>10, <1>11

\* January 1 comes after December 31.
LEMMA NextYear ==
    ASSUME NEW year \in Nat
    PROVE  getJulianDayNum(year + 1, 1, 1) = getJulianDayNum(year, 12, 31) + 1
<1>1. /\ getJulianDayNum(year + 1, 1, 1) = Shifted((year + 1) + 4799, 10, 1)
      /\ getJulianDayNum(year, 12, 31) = Shifted(year + 4800, 9, 31)
  BY EarlyMonths, LateMonths
<1>2. (year + 1) + 4799 = year + 4800
  OBVIOUS
<1>3. Shifted(year + 4800, 10, 1) = Shifted(year + 4800, 9, 31) + 1
  BY SameYear, Months
<1> QED BY <1>1, <1>2, <1>3

(* The walk *)

WalkInv ==
    /\ date \in [year: Nat, month: 1..12, day: 1..31]
    /\ date.day <= daysOfMonth(date.year, date.month)
    /\ julianDayNumber = getJulianDayNum(date.year, date.month, date.day)
    /\ julianDayNumber \in Nat \ {0}
    /\ weekDay = weekDayOf(julianDayNumber)

LEMMA WalkInit ==
    ASSUME FirstYear = 1900, FirstJulianDay = 2415021, FirstWeekDay = 1, DateInit
    PROVE  WalkInv
<1>1. date.year = 1900 /\ date.month = 1 /\ date.day = 1
  BY DEF DateInit
<1>2. getJulianDayNum(1900, 1, 1) = 2415021
  BY DEF getJulianDayNum
<1>3. weekDayOf(2415021) = 1
  BY DEF weekDayOf, NumDaysPerWeek
<1>4. daysOfMonth(1900, 1) = 31
  BY Lengths
<1> QED BY <1>1, <1>2, <1>3, <1>4 DEF WalkInv, DateInit

LEMMA WalkNext ==
    ASSUME WalkInv, [nextDay]_dateVars
    PROVE  WalkInv'
<1>1. CASE UNCHANGED dateVars
  BY <1>1 DEF dateVars, WalkInv
<1>2. CASE nextDay
  <2> DEFINE y == date.year
             m == date.month
             d == date.day
  <2>1. /\ y \in Nat /\ m \in 1..12 /\ d \in 1..31 /\ d <= daysOfMonth(y, m)
        /\ date = [year |-> y, month |-> m, day |-> d]
        /\ julianDayNumber = getJulianDayNum(y, m, d) /\ julianDayNumber \in Nat \ {0}
    BY DEF WalkInv
  <2>2. weekDay' = weekDayOf(julianDayNumber') /\ julianDayNumber' \in Nat \ {0}
    <3>1. weekDay = (julianDayNumber + 1) % 7
      BY DEF WalkInv, weekDayOf, NumDaysPerWeek
    <3>2. (((julianDayNumber + 1) % 7) + 1) % 7 = ((julianDayNumber + 1) + 1) % 7
      BY <2>1
    <3> QED BY <1>2, <2>1, <3>1, <3>2 DEF nextDay, weekDayOf, NumDaysPerWeek
  <2>3. daysOfMonth(y, m) \in 28..31
    <3> HIDE DEF y, m, d
    <3> QED BY <2>1, Lengths
  <2>4. julianDayNumber' = getJulianDayNum(y, m, d) + 1
    BY <1>2, <2>1 DEF nextDay
  <2>5. CASE /\ d < daysOfMonth(y, m)
             /\ date' = [date EXCEPT !.day = @ + 1]
    <3>1. date' = [year |-> y, month |-> m, day |-> d + 1]
      BY <2>1, <2>5
    <3>2. getJulianDayNum(y, m, d + 1) = getJulianDayNum(y, m, d) + 1
      <4>1. y \in Nat /\ m \in 1..12 /\ d \in Nat
        BY <2>1
      <4> HIDE DEF y, m, d
      <4> QED BY <4>1, NextOfMonth
    <3> HIDE DEF y, m, d
    <3>3. d + 1 \in 1..31 /\ d + 1 <= daysOfMonth(y, m)
      BY <2>1, <2>3, <2>5
    <3> QED BY <2>1, <2>2, <2>4, <3>1, <3>2, <3>3 DEF WalkInv
  <2>6. CASE /\ d = daysOfMonth(y, m) /\ m < kMonthsOfYear
             /\ date' = [date EXCEPT !.month = @ + 1, !.day = 1]
    <3>1. date' = [year |-> y, month |-> m + 1, day |-> 1]
      BY <2>1, <2>6
    <3> HIDE DEF y, m, d
    <3>2. m \in 1..11 /\ m + 1 \in 1..12
      BY <2>1, <2>6 DEF kMonthsOfYear
    <3>3. getJulianDayNum(y, m + 1, 1) = getJulianDayNum(y, m, d) + 1
      BY <2>1, <2>6, <3>2, NextMonth
    <3>4. daysOfMonth(y, m + 1) \in 28..31
      <4> DEFINE n == m + 1
      <4>1. n \in 1..12
        BY <3>2
      <4> HIDE DEF n
      <4>2. daysOfMonth(y, n) \in 28..31
        BY <2>1, <4>1, Lengths
      <4> QED BY <4>2 DEF n
    <3> QED BY <2>1, <2>2, <2>4, <3>1, <3>2, <3>3, <3>4 DEF WalkInv
  <2>7. CASE /\ d = daysOfMonth(y, m) /\ m = kMonthsOfYear
             /\ date' = [year |-> y + 1, month |-> 1, day |-> 1]
    <3> HIDE DEF y, m, d
    <3>1. m = 12 /\ d = 31
      BY <2>1, <2>7, Lengths DEF kMonthsOfYear
    <3>2. getJulianDayNum(y + 1, 1, 1) = getJulianDayNum(y, m, d) + 1
      BY <2>1, <3>1, NextYear
    <3>3. y + 1 \in Nat /\ daysOfMonth(y + 1, 1) = 31
      BY <2>1, Lengths
    <3> QED BY <2>1, <2>2, <2>4, <2>7, <3>2, <3>3 DEF WalkInv
  <2> QED BY <1>2, <2>5, <2>6, <2>7 DEF nextDay
<1> QED BY <1>1, <1>2

LEMMA WalkIsCalendar ==
    ASSUME WalkInv
    PROVE  DateIsCalendar
<1> DEFINE y == date.year
           m == date.month
           d == date.day
           jd == julianDayNumber
<1>1. /\ y \in Nat /\ m \in 1..12 /\ d \in 1..31 /\ d <= daysOfMonth(y, m)
      /\ date = [year |-> y, month |-> m, day |-> d]
      /\ jd = getJulianDayNum(y, m, d) /\ jd \in Nat \ {0}
  BY DEF WalkInv
<1>2. weekDayOf(jd) = weekDay /\ validDate(jd)
  BY <1>1 DEF WalkInv, validDate
<1>3. fromTm([tm_year |-> y - 1900, tm_mon |-> m - 1, tm_mday |-> d]) = jd
  <2>1. (y - 1900) + 1900 = y /\ (m - 1) + 1 = m
    BY <1>1
  <2> HIDE DEF y, m, d, jd
  <2> QED BY <1>1, <2>1 DEF fromTm
<1> HIDE DEF y, m, d, jd
<1>4. getJulianDayNum(y, 3, 1) - getJulianDayNum(y, 2, 29) = IF isLeapYear(y) THEN 1 ELSE 0
  <2>1. /\ getJulianDayNum(y, 3, 1) = Shifted(y + 4800, 0, 1)
        /\ getJulianDayNum(y, 2, 29) = Shifted(y + 4799, 11, 29)
    BY <1>1, EarlyMonths, LateMonths
  <2>2. (y + 4799) + 1 = y + 4800 /\ y + 4799 \in Nat
    BY <1>1
  <2>3. Shifted(y + 4799, 11, 29) \in Int
    BY <1>1 DEF Shifted
  <2>4. Shifted((y + 4799) + 1, 0, 1)
           = Shifted(y + 4799, 11, 29) + (29 - 29) + (IF Leap((y + 4799) + 1) THEN 1 ELSE 0)
    BY <2>2, FebruaryToMarch
  <2>5. isLeapYear(y) <=> Leap((y + 4799) + 1)
    BY <1>1, LeapAgrees
  <2>6. CASE isLeapYear(y)
    BY <2>1, <2>2, <2>3, <2>4, <2>5, <2>6
  <2>7. CASE ~isLeapYear(y)
    BY <2>1, <2>2, <2>3, <2>4, <2>5, <2>7
  <2> QED BY <2>6, <2>7
<1>5. getYearMonthDay(jd) = [year |-> y, month |-> m, day |-> d]
  <2>1. CASE m <= 2
    <3> DEFINE n == m + 9
               z == y + 4799
    <3>1. n \in 10..11 /\ z \in Nat /\ n \div 10 = 1
      BY <1>1, <2>1
    <3>2. n = 11 => m = 2
      BY <1>1
    <3>3. n = 11 => d <= 29 /\ (d = 29 => Leap(z + 1))
      BY <1>1, <3>2, Lengths, LeapAgrees
    <3>4. jd = Shifted(z, n, d)
      <4>1. m \in 1..2 /\ d \in Nat
        BY <1>1, <2>1
      <4> QED BY <1>1, <4>1, EarlyMonths
    <3>5. z - 4800 + 1 = y /\ n + 3 - 12 * 1 = m
      BY <1>1
    <3> HIDE DEF n, z
    <3>6. getYearMonthDay(Shifted(z, n, d)) =
             [year |-> z - 4800 + n \div 10, month |-> n + 3 - 12 * (n \div 10), day |-> d]
      <4>1. n \in 0..11 /\ InMonth(z, n, d)
        BY <1>1, <3>1, <3>3 DEF InMonth
      <4>2. ComesBack(z, n, d)
        BY <1>1, <3>1, <4>1, RoundTrip
      <4> QED BY <4>2 DEF ComesBack
    <3> QED BY <3>1, <3>4, <3>5, <3>6
  <2>2. CASE ~(m <= 2)
    <3> DEFINE n == m - 3
               z == y + 4800
    <3>1. n \in 0..9 /\ z \in Nat /\ n \div 10 = 0
      BY <1>1, <2>2
    <3>2. (n = 1 => m = 4) /\ (n = 3 => m = 6) /\ (n = 6 => m = 9) /\ (n = 8 => m = 11)
      BY <1>1
    <3>3. n \in {1, 3, 6, 8} => d <= 30
      BY <1>1, <3>2, Lengths
    <3>4. jd = Shifted(z, n, d)
      <4>1. m \in 3..12 /\ d \in Nat
        BY <1>1, <2>2
      <4> QED BY <1>1, <4>1, LateMonths
    <3>5. z - 4800 + 0 = y /\ n + 3 - 12 * 0 = m
      BY <1>1
    <3> HIDE DEF n, z
    <3>6. getYearMonthDay(Shifted(z, n, d)) =
             [year |-> z - 4800 + n \div 10, month |-> n + 3 - 12 * (n \div 10), day |-> d]
      <4>1. n \in 0..11 /\ InMonth(z, n, d)
        BY <1>1, <3>1, <3>3 DEF InMonth
      <4>2. ComesBack(z, n, d)
        BY <1>1, <3>1, <4>1, RoundTrip
      <4> QED BY <4>2 DEF ComesBack
    <3> QED BY <3>1, <3>4, <3>5, <3>6
  <2> QED BY <2>1, <2>2
<1> QED BY <1>1, <1>2, <1>3, <1>4, <1>5 DEF y, m, d, jd, DateIsCalendar

\* From January 1, 1900, a Monday and day 2415021, on: Date agrees with the
\* calendar on every day, whatever the last year.
THEOREM DatesAreCalendar ==
    ASSUME FirstYear = 1900, FirstJulianDay = 2415021, FirstWeekDay = 1
    PROVE  DateInit /\ [][nextDay]_dateVars => []DateIsCalendar
<1>1. DateInit => WalkInv
  BY WalkInit
<1>2. WalkInv /\ [nextDay]_dateVars => WalkInv'
  BY WalkNext
<1>3. WalkInv => DateIsCalendar
  BY WalkIsCalendar
<1> QED BY <1>1, <1>2, <1>3, PTL

-----------------------------------------------------------------------------
(* TimeZone *)

\* One turn of the loop of lower_bound, by what f does with the halves.
Turn(keys, t, f, len) ==
    [first \in Nat |->
        LET half == len \div 2
        IN  IF len = 0 THEN first
            ELSE IF keys[first + half + 1] < t THEN f[len - half - 1][first + half + 1]
            ELSE f[half][first]]

LEMMA Halves ==
    ASSUME NEW len \in Nat, len # 0
    PROVE  /\ len \div 2 \in Nat /\ len \div 2 < len
           /\ len - (len \div 2) - 1 \in Nat /\ len - (len \div 2) - 1 < len
OBVIOUS

\* A turn depends on f only below len.
LEMMA TurnDepends ==
    ASSUME NEW keys, NEW t, NEW f, NEW g, NEW len \in Nat,
           \A k \in Nat : k < len => f[k] = g[k]
    PROVE  Turn(keys, t, f, len) = Turn(keys, t, g, len)
<1>1. CASE len = 0
  BY <1>1 DEF Turn
<1>2. CASE len # 0
  <2>1. f[len \div 2] = g[len \div 2] /\ f[len - (len \div 2) - 1] = g[len - (len \div 2) - 1]
    BY <1>2, Halves
  <2> QED BY <2>1 DEF Turn
<1> QED BY <1>1, <1>2

LEMMA TurnType ==
    ASSUME NEW keys, NEW t, NEW f, NEW len \in Nat,
           \A k \in Nat : k < len => f[k] \in [Nat -> Nat]
    PROVE  Turn(keys, t, f, len) \in [Nat -> Nat]
<1>1. ASSUME NEW first \in Nat
      PROVE  (IF len = 0 THEN first
              ELSE IF keys[first + (len \div 2) + 1] < t
                   THEN f[len - (len \div 2) - 1][first + (len \div 2) + 1]
              ELSE f[len \div 2][first]) \in Nat
  <2>1. CASE len = 0
    BY <2>1
  <2>2. CASE len # 0
    <3>1. /\ len \div 2 \in Nat /\ first + (len \div 2) + 1 \in Nat
          /\ f[len \div 2] \in [Nat -> Nat] /\ f[len - (len \div 2) - 1] \in [Nat -> Nat]
      BY <2>2, Halves
    <3>2. f[len \div 2][first] \in Nat
      BY <3>1
    <3>3. f[len - (len \div 2) - 1][first + (len \div 2) + 1] \in Nat
      BY <3>1
    <3> QED BY <2>2, <3>2, <3>3
  <2> QED BY <2>1, <2>2
<1> QED BY <1>1 DEF Turn

\* The loop is well defined: it does in turn after turn what one turn does.
LEMMA HalvingIs ==
    ASSUME NEW keys, NEW t
    PROVE  \A len \in Nat : halving(keys, t)[len] = Turn(keys, t, halving(keys, t), len)
<1> DEFINE V == [Nat -> Nat]
           step == [len \in Nat |-> [f \in [Nat -> V] |-> Turn(keys, t, f, len)]]
           rank == [len \in Nat |-> len]
<1>1. \A f \in [Nat -> V] : \A len \in Nat : Turn(keys, t, f, len) \in V
  BY TurnType
<1>2. V # {}
  <2>1. [k \in Nat |-> k] \in V
    OBVIOUS
  <2> QED BY <2>1
<1> HIDE DEF V
<1>3. step \in [Nat -> [[Nat -> V] -> V]]
  BY <1>1
<1>4. rank \in [Nat -> Nat] /\ \A len \in Nat : rank[len] = len
  OBVIOUS
<1>5. \A f \in [Nat -> V] : \A len \in Nat : step[len][f] = Turn(keys, t, f, len)
  OBVIOUS
<1> HIDE DEF step, rank
<1>6. \A len \in Nat : \A f, g \in [Nat -> V] :
         (\A k \in Nat : rank[k] < rank[len] => f[k] = g[k]) => step[len][f] = step[len][g]
  <2> SUFFICES ASSUME NEW len \in Nat, NEW f \in [Nat -> V], NEW g \in [Nat -> V],
                      \A k \in Nat : rank[k] < rank[len] => f[k] = g[k]
               PROVE  step[len][f] = step[len][g]
      OBVIOUS
  <2>1. \A k \in Nat : k < len => f[k] = g[k]
    BY <1>4
  <2>2. Turn(keys, t, f, len) = Turn(keys, t, g, len)
    BY <2>1, TurnDepends
  <2> QED BY <1>5, <2>2
<1>7. PICK F \in [Nat -> V] : \A len \in Nat : F[len] = step[len][F]
  <2>1. Descends(Nat, V, rank, step)
    BY <1>2, <1>3, <1>4, <1>6 DEF Descends
  <2> QED BY <2>1, Recursion
<1>8. F = [n \in Nat |-> Turn(keys, t, F, n)]
  <2>1. \A n \in Nat : F[n] = Turn(keys, t, F, n)
    BY <1>5, <1>7
  <2>2. F = [n \in Nat |-> F[n]]
    OBVIOUS
  <2> QED BY <2>1, <2>2
<1>9. halving(keys, t) = CHOOSE s : s = [n \in Nat |-> Turn(keys, t, s, n)]
  BY DEF halving, Turn
<1>10. halving(keys, t) = [n \in Nat |-> Turn(keys, t, halving(keys, t), n)]
  BY <1>8, <1>9
<1> DEFINE H == halving(keys, t)
<1> HIDE DEF H
<1>11. \A n \in Nat : H[n] = Turn(keys, t, H, n)
  BY <1>10 DEF H
<1> QED BY <1>11 DEF H

\* Where the loop ends, the element before is before t and the element behind is
\* not, whether or not the elements are in order.
LEMMA LowerBound ==
    ASSUME NEW n \in Nat, NEW keys \in [1..n -> Int], NEW t \in Int, Len(keys) = n
    PROVE  /\ lower_bound(keys, t) \in 0..n
           /\ lower_bound(keys, t) > 0 => keys[lower_bound(keys, t)] < t
           /\ lower_bound(keys, t) < n => ~(keys[lower_bound(keys, t) + 1] < t)
<1> DEFINE Ends(r) == r \in 0..n /\ (r > 0 => keys[r] < t) /\ (r < n => ~(keys[r + 1] < t))
           H == halving(keys, t)
           Before(first) == first > 0 => keys[first] < t
           Behind(last) == last < n => ~(keys[last + 1] < t)
           Good(len) == \A first \in Nat : first + len <= n /\ Before(first) /\ Behind(first + len)
                                              => Ends(H[len][first])
           T == {len \in Nat : ~Good(len)}
<1>1. \A len \in Nat : H[len] = Turn(keys, t, H, len)
  BY HalvingIs
<1> HIDE DEF H
<1>2. ASSUME T # {} PROVE FALSE
  <2>1. PICK len \in T : \A j \in T : len <= j
    <3> HIDE DEF Good
    <3> QED BY <1>2, Smallest
  <2>2. len \in Nat /\ ~Good(len) /\ \A k \in Nat : k < len => Good(k)
    <3> HIDE DEF Good
    <3> QED BY <2>1
  <2>3. PICK first \in Nat : /\ first + len <= n /\ Before(first) /\ Behind(first + len)
                             /\ ~Ends(H[len][first])
    BY <2>2
  <2> DEFINE half == len \div 2
  <2>4. H[len][first] = IF len = 0 THEN first
                        ELSE IF keys[first + half + 1] < t THEN H[len - half - 1][first + half + 1]
                        ELSE H[half][first]
    <3>1. H[len] = Turn(keys, t, H, len)
      BY <1>1, <2>2
    <3> HIDE DEF Good, Before, Behind, Ends
    <3> QED BY <3>1 DEF Turn
  <2>5. CASE len = 0
    BY <2>3, <2>4, <2>5
  <2>6. CASE len # 0
    <3>1. /\ half \in Nat /\ half < len
          /\ len - half - 1 \in Nat /\ len - half - 1 < len
      BY <2>2, <2>6, Halves
    <3> HIDE DEF half
    <3>2. Good(half) /\ Good(len - half - 1)
      BY <2>2, <3>1
    <3>3. CASE keys[first + half + 1] < t
      <4>1. /\ first + half + 1 \in Nat /\ (first + half + 1) + (len - half - 1) = first + len
        <5>1. len \in Nat
          BY <2>2
        <5> HIDE DEF Good, Before, Behind, Ends, T
        <5> QED BY <3>1, <5>1
      <4>2. Ends(H[len - half - 1][first + half + 1])
        <5> HIDE DEF Ends
        <5> QED BY <2>3, <3>2, <3>3, <4>1
      <4> QED BY <2>3, <2>4, <2>6, <3>3, <4>2
    <3>4. CASE ~(keys[first + half + 1] < t)
      <4>1. first + half \in Nat /\ first + half <= n /\ Behind(first + half)
        BY <2>2, <2>3, <3>1, <3>4
      <4>2. Ends(H[half][first])
        <5> HIDE DEF Ends
        <5> QED BY <2>3, <3>2, <4>1
      <4> QED BY <2>3, <2>4, <2>6, <3>4, <4>2
    <3> QED BY <3>3, <3>4
  <2> QED BY <2>5, <2>6
<1>3. Good(n)
  <2> HIDE DEF Good
  <2> QED BY <1>2
<1>4. Ends(H[n][0])
  <2> HIDE DEF Ends
  <2> QED BY <1>3
<1> QED BY <1>4 DEF H, lower_bound

-----------------------------------------------------------------------------
(* What findLocalTime finds *)

Transition == [gmtime: Int, localtime: Int, localtimeIdx: Nat]

\* What a constructor makes: every transition has its local time.
DataOK(data) ==
    /\ data \in [transitions: Seq(Transition), localtimes: Seq(Int), null: BOOLEAN]
    /\ \A i \in 1..Len(data.transitions) :
           data.transitions[i].localtimeIdx < Len(data.localtimes)

ZoneInv == /\ DataOK(m_spDate) /\ sentry \in Int \X BOOLEAN
           /\ \/ local = Nothing
              \/ local = Crashed /\ file # NoFile
              \/ ~m_spDate.null /\ local = findLocalTime(m_spDate, sentry[1], sentry[2])

LEMMA FileIsData ==
    ASSUME NEW f \in ZoneFiles, ~indexesEmpty(f)
    PROVE  DataOK(readTimeZoneFile(f))
<1>1. /\ f.numbers \in Seq(Int) /\ timecnt(f) \in Nat /\ typecnt(f) \in Nat
      /\ \A i \in 1..timecnt(f) :
            localIdx(f, i) \in Nat /\ (typecnt(f) > 0 => localIdx(f, i) < typecnt(f))
  BY ZoneAssumption
<1>2. \A i \in Nat \ {0} : number(f, i) \in Int
  BY <1>1 DEF number
<1>3. localtimesOf(f) \in Seq(Int) /\ Len(localtimesOf(f)) = typecnt(f)
  <2>1. \A i \in 1..typecnt(f) : 2 + 2 * timecnt(f) + i \in Nat \ {0}
    BY <1>1
  <2>2. localtimesOf(f) \in [1..typecnt(f) -> Int]
    BY <1>2, <2>1 DEF localtimesOf
  <2> QED BY <1>1, <2>2
<1> SUFFICES ASSUME f.opens, f.head = "TZif"
             PROVE  DataOK([transitions |-> transitionsOf(f), localtimes |-> localtimesOf(f),
                            null |-> FALSE])
  <2>1. DataOK([transitions |-> <<>>, localtimes |-> <<>>, null |-> FALSE]) /\ DataOK(NoData)
    BY DEF DataOK, NoData
  <2> QED BY <2>1 DEF readTimeZoneFile
<1>7. \A i \in 1..timecnt(f) : localIdx(f, i) < typecnt(f)
  BY <1>1 DEF indexesEmpty
<1>4. /\ transitionsOf(f) \in Seq(Transition)
      /\ Len(transitionsOf(f)) = timecnt(f)
      /\ \A i \in 1..timecnt(f) : transitionsOf(f)[i].localtimeIdx = localIdx(f, i)
  <2> DEFINE tr(i) == [gmtime |-> number(f, 2 + i),
                       localtime |-> number(f, 2 + i) + localtimesOf(f)[localIdx(f, i) + 1],
                       localtimeIdx |-> localIdx(f, i)]
  <2>1. ASSUME NEW i \in 1..timecnt(f) PROVE tr(i) \in Transition
    <3>1. number(f, 2 + i) \in Int /\ localIdx(f, i) \in Nat
      BY <1>1, <1>2
    <3>2. localtimesOf(f)[localIdx(f, i) + 1] \in Int
      <4>1. localIdx(f, i) + 1 \in 1..Len(localtimesOf(f))
        BY <1>1, <1>3, <1>7, <3>1
      <4> QED BY <1>3, <4>1
    <3>3. tr(i).localtime \in Int
      BY <3>1, <3>2
    <3> QED BY <3>1, <3>3 DEF Transition
  <2>2. transitionsOf(f) = [i \in 1..timecnt(f) |-> tr(i)]
    BY DEF transitionsOf
  <2> HIDE DEF tr
  <2>3. [i \in 1..timecnt(f) |-> tr(i)] \in [1..timecnt(f) -> Transition]
    BY <2>1
  <2>4. \A i \in 1..timecnt(f) : [j \in 1..timecnt(f) |-> tr(j)][i].localtimeIdx = localIdx(f, i)
    BY DEF tr
  <2> QED BY <1>1, <2>2, <2>3, <2>4
<1> QED BY <1>1, <1>3, <1>4, <1>7 DEF DataOK

LEMMA ZoneInvInit == ZoneInit => ZoneInv
<1> SUFFICES ASSUME ZoneInit PROVE ZoneInv
    OBVIOUS
<1>1. DataOK(m_spDate)
  BY DEF ZoneInit, DataOK, NoData
<1>2. sentry \in Int \X BOOLEAN /\ local = Nothing
  <2>1. 0 \in Int
    OBVIOUS
  <2> QED BY <2>1, Zenon DEF ZoneInit
<1> QED BY <1>1, <1>2 DEF ZoneInv

LEMMA ZoneInvNext == ZoneInv /\ [ZoneStep]_zoneVars => ZoneInv'
<1> SUFFICES ASSUME ZoneInv, [ZoneStep]_zoneVars PROVE ZoneInv'
    OBVIOUS
<1>1. NoData.null = TRUE
  BY DEF NoData
<1>2. CASE openZone
  <2>1. PICK f \in ZoneFiles :
           /\ file' = f
           /\ \/ indexesEmpty(f) /\ local' = Crashed /\ UNCHANGED m_spDate
              \/ ~indexesEmpty(f) /\ m_spDate' = readTimeZoneFile(f) /\ UNCHANGED local
    BY <1>2 DEF openZone
  <2>2. local = Nothing /\ sentry' = sentry /\ DataOK(m_spDate)
    BY <1>1, <1>2 DEF ZoneInv, openZone
  <2>3. CASE indexesEmpty(f)
    <3>1. f.opens = TRUE /\ NoFile.opens = FALSE
      BY <2>3, ZoneAssumption DEF indexesEmpty, NoFile
    <3>2. f # NoFile
      BY <3>1
    <3> QED BY <2>1, <2>2, <2>3, <3>2 DEF ZoneInv
  <2>4. CASE ~indexesEmpty(f)
    <3>1. DataOK(m_spDate')
      BY <2>1, <2>4, FileIsData
    <3> QED BY <2>1, <2>2, <2>4, <3>1 DEF ZoneInv
  <2> QED BY <2>3, <2>4
<1>3. CASE fixedZone
  <2>1. DataOK(m_spDate')
    BY <1>3, ZoneAssumption DEF fixedZone, DataOK
  <2>2. local = Nothing
    BY <1>1, <1>3 DEF ZoneInv, fixedZone
  <2> QED BY <1>3, <2>1, <2>2 DEF fixedZone, ZoneInv
<1>4. CASE find
  <2>1. PICK t \in Seconds, compareGMT \in BOOLEAN :
            sentry' = <<t, compareGMT>> /\ local' = findLocalTime(m_spDate, t, compareGMT)
    BY <1>4 DEF find
  <2>2. t \in Int /\ sentry'[1] = t /\ sentry'[2] = compareGMT /\ sentry' \in Int \X BOOLEAN
    BY <2>1, ZoneAssumption
  <2>3. m_spDate' = m_spDate /\ ~m_spDate.null
    BY <1>4 DEF find, valid
  <2> QED BY <2>1, <2>2, <2>3 DEF ZoneInv
<1>5. CASE UNCHANGED zoneVars
  BY <1>5 DEF zoneVars, ZoneInv
<1> QED BY <1>2, <1>3, <1>4, <1>5 DEF ZoneStep

LEMMA ZoneInvHolds == ZoneSpec => []ZoneInv
BY ZoneInvInit, ZoneInvNext, PTL DEF ZoneSpec

\* findLocalTime takes the first local time before all transitions, and else that
\* of a transition that is past while the next is not, or that is just now.
LEMMA FindIs ==
    ASSUME NEW data, DataOK(data), NEW t \in Int, NEW gmt \in BOOLEAN
    PROVE  LET n == Len(data.transitions)
               at(i) == key(data.transitions[i], gmt)
               idx(i) == data.transitions[i].localtimeIdx
           IN  /\ n \in Nat /\ \A i \in 1..n : at(i) \in Int /\ idx(i) \in Nat
               /\ \/ /\ n = 0 \/ t < at(1)
                     /\ findLocalTime(data, t, gmt) =
                           IF data.localtimes = <<>> THEN Undefined ELSE Found(data.localtimes[1])
                  \/ \E p \in 1..n :
                        /\ at(p) <= t /\ (p < n => t < at(p + 1) \/ t = at(p))
                        /\ findLocalTime(data, t, gmt) =
                              IF idx(p) < Len(data.localtimes) THEN Found(data.localtimes[idx(p) + 1])
                              ELSE Undefined
<1> DEFINE n == Len(data.transitions)
           at(i) == key(data.transitions[i], gmt)
           idx(i) == data.transitions[i].localtimeIdx
           keys == [i \in 1..n |-> at(i)]
           r == lower_bound(keys, t)
           localOf(i) == IF data.transitions[i + 1].localtimeIdx < Len(data.localtimes)
                         THEN Found(data.localtimes[data.transitions[i + 1].localtimeIdx + 1])
                         ELSE Undefined
<1>1. n \in Nat /\ \A i \in 1..n : data.transitions[i] \in Transition
  BY DEF DataOK
<1>2. \A i \in 1..n : at(i) \in Int /\ idx(i) \in Nat
  BY <1>1 DEF key, Transition
<1>3. /\ keys \in [1..n -> Int] /\ Len(keys) = n /\ (keys = <<>> <=> n = 0)
      /\ \A i \in 1..n : keys[i] = at(i)
  <2>1. keys \in [1..n -> Int] /\ \A i \in 1..n : keys[i] = at(i)
    BY <1>2
  <2> HIDE DEF at, keys
  <2>2. Len(keys) = n /\ keys \in Seq(Int)
    BY <1>1, <2>1
  <2> QED BY <2>1, <2>2
<1>4. r \in 0..n /\ (r > 0 => keys[r] < t) /\ (r < n => ~(keys[r + 1] < t))
  BY <1>1, <1>3, LowerBound
<1>5. findLocalTime(data, t, gmt) =
         CASE beforeFirst(keys, t) ->
                 IF data.localtimes = <<>> THEN Undefined ELSE Found(data.localtimes[1])
           [] ~beforeFirst(keys, t) /\ r = Len(keys) -> localOf(r - 1)
           [] ~beforeFirst(keys, t) /\ r < Len(keys) /\ t = keys[r + 1] -> localOf(r)
           [] OTHER -> IF r = 0 THEN Failed ELSE localOf(r - 1)
  BY DEF findLocalTime
<1> HIDE DEF keys, r, localOf
<1>6. CASE n = 0 \/ t < at(1)
  <2>1. beforeFirst(keys, t)
    <3>1. CASE n = 0
      BY <1>3, <3>1 DEF beforeFirst
    <3>2. CASE n # 0
      BY <1>1, <1>3, <1>6, <3>2 DEF beforeFirst
    <3> QED BY <3>1, <3>2
  <2>2. findLocalTime(data, t, gmt) =
           IF data.localtimes = <<>> THEN Undefined ELSE Found(data.localtimes[1])
    BY <1>5, <2>1
  <2> QED BY <1>1, <1>2, <1>6, <2>2
<1>7. CASE ~(n = 0 \/ t < at(1))
  <2>1. 1 \in 1..n /\ keys[1] = at(1) /\ at(1) <= t /\ ~beforeFirst(keys, t)
    BY <1>1, <1>2, <1>3, <1>7 DEF beforeFirst
  <2> DEFINE Here(p) == /\ at(p) <= t /\ (p < n => t < at(p + 1) \/ t = at(p))
                        /\ findLocalTime(data, t, gmt) =
                              IF idx(p) < Len(data.localtimes) THEN Found(data.localtimes[idx(p) + 1])
                              ELSE Undefined
  <2>2. CASE r < n /\ t = keys[r + 1]
    <3>1. findLocalTime(data, t, gmt) = localOf(r)
      BY <1>1, <1>3, <1>4, <1>5, <2>1, <2>2
    <3>2. r + 1 \in 1..n /\ at(r + 1) = t
      BY <1>1, <1>3, <1>4, <2>2
    <3>3. Here(r + 1)
      BY <1>2, <3>1, <3>2 DEF localOf
    <3> QED BY <1>1, <1>2, <3>2, <3>3
  <2>3. CASE ~(r < n /\ t = keys[r + 1])
    <3>1. r # 0
      BY <1>1, <1>3, <1>4, <2>1, <2>3
    <3>2. findLocalTime(data, t, gmt) = localOf(r - 1)
      BY <1>1, <1>3, <1>4, <1>5, <2>1, <2>3, <3>1
    <3>3. r \in 1..n /\ (r - 1) + 1 = r /\ (r < n => r + 1 \in 1..n)
      BY <1>1, <1>4, <3>1
    <3>4. at(r) <= t /\ (r < n => t < at(r + 1))
      BY <1>1, <1>2, <1>3, <1>4, <2>3, <3>3
    <3>5. Here(r)
      BY <3>2, <3>3, <3>4 DEF localOf
    <3> QED BY <1>1, <1>2, <3>3, <3>5
  <2> QED BY <2>2, <2>3
<1> QED BY <1>6, <1>7

\* findLocalTime finds the local time in force for every zone whose transitions
\* are in order, and for every other its search ends inside the vector.
THEOREM LocalTimeIsFound == ZoneSpec => []FindsLocalTime
<1>1. ZoneInv => FindsLocalTime
  <2> SUFFICES ASSUME ZoneInv PROVE FindsLocalTime
      OBVIOUS
  <2>1. \A o : Found(o) # Nothing /\ Found(o) # Failed /\ Found(o) # Undefined
    BY DEF Found, Nothing, Failed, Undefined
  <2>2. /\ \A o \in {Nothing, Crashed} : o.what # "found" /\ o # Failed /\ o # Undefined
        /\ Undefined.what # "found" /\ Undefined # Failed
    BY DEF Nothing, Crashed, Failed, Undefined
  <2>3. CASE local \in {Nothing, Crashed}
    BY <2>2, <2>3 DEF FindsLocalTime
  <2>4. CASE local \notin {Nothing, Crashed}
    <3> DEFINE n == Len(m_spDate.transitions)
               idx(i) == m_spDate.transitions[i].localtimeIdx
               t == sentry[1]
    <3>1. DataOK(m_spDate) /\ t \in Int /\ sentry[2] \in BOOLEAN
          /\ local = findLocalTime(m_spDate, sentry[1], sentry[2])
      BY <2>4 DEF ZoneInv
    <3>2. /\ n \in Nat /\ \A i \in 1..n : Key(i) \in Int /\ idx(i) \in Nat
          /\ \/ /\ n = 0 \/ t < Key(1)
                /\ local = IF m_spDate.localtimes = <<>> THEN Undefined
                           ELSE Found(m_spDate.localtimes[1])
             \/ \E p \in 1..n :
                   /\ Key(p) <= t /\ (p < n => t < Key(p + 1) \/ t = Key(p))
                   /\ local = IF idx(p) < Len(m_spDate.localtimes)
                              THEN Found(m_spDate.localtimes[idx(p) + 1]) ELSE Undefined
      BY <3>1, FindIs DEF Key
    <3>3. CASE /\ n = 0 \/ t < Key(1)
               /\ local = IF m_spDate.localtimes = <<>> THEN Undefined
                          ELSE Found(m_spDate.localtimes[1])
      <4>1. Ascending => Past = {}
        <5> SUFFICES ASSUME Ascending, NEW i \in 1..n, Key(i) <= t PROVE FALSE
            BY DEF Past
        <5>1. n \in Nat /\ 1 \in 1..n /\ n # 0 /\ Key(1) \in Int /\ Key(i) \in Int
          BY <3>2
        <5>2. i # 1 => Key(1) < Key(i)
          BY <5>1 DEF Ascending
        <5>3. t < Key(1)
          BY <3>3, <5>1
        <5> QED BY <3>1, <5>1, <5>2, <5>3
      <4>2. Ascending => InForce = m_spDate.localtimes[1]
        BY <4>1 DEF InForce
      <4>3. m_spDate.localtimes = <<>> => m_spDate.transitions = <<>>
        <5>1. m_spDate.localtimes = <<>> => n = 0
          <6> SUFFICES ASSUME m_spDate.localtimes = <<>>, n # 0 PROVE FALSE
              OBVIOUS
          <6>1. 1 \in 1..n /\ idx(1) \in Nat
            BY <3>2
          <6>2. idx(1) < Len(m_spDate.localtimes)
            BY <3>1, <6>1 DEF DataOK
          <6> QED BY <6>1, <6>2
        <5>2. m_spDate.transitions \in Seq(Transition)
          BY <3>1 DEF DataOK
        <5> QED BY <5>1, <5>2
      <4> QED BY <2>1, <2>2, <3>3, <4>2, <4>3 DEF FindsLocalTime
    <3>4. ASSUME NEW p \in 1..n, Key(p) <= t, p < n => t < Key(p + 1) \/ t = Key(p),
                 local = IF idx(p) < Len(m_spDate.localtimes)
                         THEN Found(m_spDate.localtimes[idx(p) + 1]) ELSE Undefined
          PROVE  FindsLocalTime
      <4>1. ASSUME Ascending PROVE p \in Past /\ \A j \in Past : j <= p
        <5>1. p \in Past
          BY <3>4 DEF Past
        <5>2. ASSUME NEW j \in 1..n, Key(j) <= t, p < j PROVE FALSE
          <6>1. p + 1 \in 1..n /\ p < n /\ (p + 1 = j \/ p + 1 < j)
            BY <3>2, <5>2
          <6>2. Key(p) < Key(j) /\ Key(p + 1) <= Key(j)
            BY <3>2, <4>1, <5>2, <6>1 DEF Ascending
          <6> QED BY <3>1, <3>2, <3>4, <5>2, <6>1, <6>2
        <5>3. \A j \in Past : j \in 1..n /\ Key(j) <= t
          BY DEF Past
        <5> QED BY <3>2, <5>1, <5>2, <5>3
      <4>2. ASSUME Ascending PROVE InForce = m_spDate.localtimes[idx(p) + 1]
        <5>1. Past # {} /\ Past \subseteq Int
          BY <4>1, <4>2 DEF Past
        <5>2. (CHOOSE i \in Past : \A j \in Past : j <= i) = p
          <6>1. p \in Past /\ \A j \in Past : j <= p
            BY <4>1, <4>2
          <6>2. ASSUME NEW i \in Past, \A j \in Past : j <= i PROVE i = p
            BY <5>1, <6>1, <6>2
          <6> QED BY <6>1, <6>2
        <5> QED BY <5>1, <5>2 DEF InForce
      <4>3. idx(p) < Len(m_spDate.localtimes)
        BY <3>1 DEF DataOK
      <4> QED BY <2>1, <2>2, <3>4, <4>2, <4>3 DEF FindsLocalTime
    <3> QED BY <3>2, <3>3, <3>4
  <2> QED BY <2>3, <2>4
<1> QED BY <1>1, ZoneInvHolds, PTL

-----------------------------------------------------------------------------
(* ReadSmallFile *)

\* While the string is read, the bytes in it were counted by the offset and fit
\* into maxSize, and until another process changes the file the loop's limit is
\* the smaller of maxSize and the size.
FileInv ==
    /\ FileTypeOK
    /\ caller = "read" => readed <= offset /\ (readSize <= maxSize \/ readSize = 0)
    /\ caller \in {"read", "returned"} => readed = 0 \/ readed <= maxSize
    /\ caller \in {"read", "returned"} /\ fileSize # Unset /\ changes = 0
          => readSize = min(maxSize, size)
    /\ caller = "returned" /\ err = OK /\ offset = readed /\ changes = 0
          => readed >= readSize \/ readed >= size

LEMMA MinOf ==
    ASSUME NEW a \in Int, NEW b \in Int
    PROVE  min(a, b) \in Int /\ min(a, b) <= a /\ min(a, b) <= b /\ min(a, b) \in {a, b}
BY DEF min

LEMMA FileInvInit == FileInit => FileInv
BY SizeAssumption DEF FileInit, FileInv, FileTypeOK, Kinds, OK, ENOENT, EIO, EISDIR, Unset, min

LEMMA FileInvNext ==
    ASSUME FileInv, [FileNext]_readVars
    PROVE  FileInv'
<1> USE SizeAssumption DEF FileInv, FileTypeOK, OK, ENOENT, EIO, EISDIR, Unset,
                           fileVars, objectVars, argVars
<1>1. CASE ChangeFile
  BY <1>1 DEF ChangeFile
<1>2. CASE fstat
  <2>1. PICK max \in MaxSizes :
           /\ maxSize' = max
           /\ \/ fileSize' = Unset /\ readSize' = 0
              \/ fileSize' = size /\ readSize' = min(max, size)
           /\ err' \in {OK, ENOENT, EIO, EISDIR}
    BY <1>2 DEF fstat, readLimit, m_fdValid
  <2>2. /\ caller' = "read" /\ readed' = 0
        /\ UNCHANGED <<kind, size, changes, m_err, offset>>
    BY <1>2 DEF fstat
  <2>3. max \in Int /\ size \in Int
    OBVIOUS
  <2>4. min(max, size) \in Int /\ min(max, size) <= max
    BY <2>3, MinOf
  <2> HIDE DEF Unset, OK, ENOENT, EIO, EISDIR
  <2>5. readSize' \in Int /\ (readSize' <= maxSize' \/ readSize' = 0)
    BY <2>1, <2>3, <2>4
  <2>6. fileSize' # Unset => readSize' = min(maxSize', size')
    BY <2>1, <2>2
  <2>7. fileSize' \in {Unset} \cup 0..MaxFile /\ maxSize' \in MaxSizes \cup {0}
    BY <2>1
  <2> QED BY <2>1, <2>2, <2>3, <2>5, <2>6, <2>7
<1>3. CASE callReadToBuffer
  BY <1>3 DEF callReadToBuffer, m_fdValid
<1>4. CASE readSome
  <2>1. BuffSize \in Int /\ maxSize - readed \in Int /\ need_read = min(BuffSize, maxSize - readed)
    BY DEF need_read
  <2>2. need_read \in Int /\ need_read <= maxSize - readed
    BY <2>1, MinOf
  <2>3. size - offset \in Int
    OBVIOUS
  <2>4. min(need_read, size - offset) \in Int /\ min(need_read, size - offset) <= need_read
        /\ min(need_read, size - offset) <= size - offset
    BY <2>2, <2>3, MinOf
  <2>5. PICK n \in 1..min(need_read, size - offset) : readed' = readed + n /\ offset' = offset + n
    BY <1>4 DEF readSome
  <2>6. /\ n \in Nat /\ n <= maxSize - readed /\ n <= size - offset /\ n >= 1
        /\ readed' = readed + n /\ offset' = offset + n
    BY <2>2, <2>3, <2>4, <2>5
  <2>7. /\ caller = "read" /\ readed < readSize
        /\ UNCHANGED <<kind, size, changes, m_err, caller, maxSize, fileSize, readSize, err>>
    BY <1>4 DEF readSome
  <2>8. /\ offset' \in 0..MaxFile /\ readed' \in 0..MaxFile /\ readed' <= offset'
        /\ readed' <= maxSize'
    BY <2>6, <2>7
  <2>9. readed' < readSize' => maxSize' - readed' > 0
    BY <2>6, <2>7
  <2> QED BY <2>7, <2>8, <2>9
<1>5. CASE endOfFile
  BY <1>5 DEF endOfFile
<1>6. CASE loopEnds
  BY <1>6 DEF loopEnds
<1>7. CASE readFails
  BY <1>7 DEF readFails, EINTR
<1>8. CASE pread
  <2>1. min(BuffSize - 1, size) \in 0..MaxFile
    BY DEF min
  <2> QED BY <1>8, <2>1 DEF pread
<1>9. CASE preadFails
  BY <1>9 DEF preadFails
<1>10. CASE preadAgain
  BY <1>10 DEF preadAgain
<1>11. CASE Return
  BY <1>11 DEF Return
<1>12. CASE UNCHANGED readVars
  BY <1>12 DEF readVars
<1> QED BY <1>1, <1>2, <1>3, <1>4, <1>5, <1>6, <1>7, <1>8, <1>9, <1>10, <1>11, <1>12
        DEF FileNext, ReadStep, BufferStep

LEMMA FileInvHolds == FileSpec => []FileInv
<1>1. FileInit => FileInv
  BY FileInvInit
<1>2. FileInv /\ [FileNext]_readVars => FileInv'
  BY FileInvNext
<1> QED BY <1>1, <1>2, PTL DEF FileSpec

\* Every variable of ReadSmallFile keeps its type, however the file grows and
\* shrinks; maxSize - data.size(), which the code computes without a sign, is
\* positive whenever it is computed.
THEOREM FileTypeCorrect == FileSpec => []FileTypeOK
BY FileInvHolds, PTL DEF FileInv

\* readToString never exceeds maxSize and misses nothing of a file that stays as
\* it is, for every size of m_buff and every sequence of short reads.
THEOREM SmallFilesReadExactly == FileSpec => []ReadExact
<1>1. FileInv => ReadExact
  <2> SUFFICES ASSUME FileInv PROVE ReadExact
      OBVIOUS
  <2>1. maxSize \in Int /\ size \in Int /\ readed \in Int
    BY SizeAssumption DEF FileInv, FileTypeOK
  <2>2. min(maxSize, size) \in Int /\ min(maxSize, size) <= size
    BY <2>1, MinOf
  <2> QED BY <2>1, <2>2 DEF FileInv, ReadExact
<1> QED BY <1>1, FileInvHolds, PTL

-----------------------------------------------------------------------------
(* Logging *)

\* The caches are those of the second and the tid they were made for, and the
\* tid is that of the thread or none; a line in the making is of this thread,
\* has the cached time behind it when the prefix is written, and both in it then.
StampInv ==
    /\ t_time = t_lastSecond
    /\ t_cachedtid \in {0, tid} /\ t_tidString = t_cachedtid
    /\ pc \in {"idle", "format", "prefix", "insert", "aborted"}
    /\ pc = "idle" /\ wanted # <<>> => stamp = <<m_time, logger>>
    /\ pc = "aborted" /\ wanted # <<>> => stamp = <<m_time, logger>>
    /\ pc \in {"format", "prefix", "insert"} => logger = tid
    /\ pc \in {"format", "prefix"} => wanted = <<>>
    /\ pc = "prefix" => t_time = m_time
    /\ pc = "insert" => stamp = <<m_time, logger>>

LEMMA StampInvNext == StampInv /\ [Next]_vars => StampInv'
<1> SUFFICES ASSUME StampInv, [Next]_vars PROVE StampInv'
    OBVIOUS
<1> USE DEF StampInv, globalVars, cacheVars, tidVars, loggerVars, streamVars
<1>1. CASE Tick
  BY <1>1 DEF Tick
<1>2. CASE setLogLevel
  BY <1>2 DEF setLogLevel
<1>3. CASE setTimeZone
  BY <1>3 DEF setTimeZone
<1>4. CASE fork
  BY <1>4 DEF fork, afterFork, cacheTid
<1>5. ASSUME NEW level \in Levels, log(level) PROVE StampInv'
  BY <1>5 DEF log
<1>6. CASE format
  BY <1>6 DEF format, newSecond
<1>7. CASE prefix
  BY <1>7 DEF prefix, cacheTid
<1>8. CASE insertPart
  BY <1>8 DEF insertPart
<1>9. CASE finish
  BY <1>9 DEF finish
<1>10. CASE UNCHANGED vars
  BY <1>10 DEF vars
<1> QED BY <1>1, <1>2, <1>3, <1>4, <1>5, <1>6, <1>7, <1>8, <1>9, <1>10 DEF Next

\* Every line carries the second in which it was logged and the tid of the thread
\* that logged it, whatever the clock does and however often the program forks.
THEOREM StampsAreCurrent == Spec => []StampIsCurrent
<1>1. Init => StampInv
  BY DEF Init, StampInv
<1>2. StampInv => StampIsCurrent
  BY DEF StampInv, StampIsCurrent, Output
<1> QED BY <1>1, <1>2, StampInvNext, PTL DEF Spec

-----------------------------------------------------------------------------
(* LogStream: powers *)

\* The powers of a base exist, and each is the base times the one before.
LEMMA PowerIs ==
    ASSUME NEW base \in {10, 16}
    PROVE  /\ Power(base)[0] = 1
           /\ \A w \in Nat : Power(base)[w] \in Nat \ {0} /\ Power(base)[w + 1] = base * Power(base)[w]
<1> DEFINE turn(f, w) == IF w = 0 THEN 1 ELSE base * f[w - 1]
           step == [w \in Nat |-> [f \in [Nat -> Nat] |-> turn(f, w)]]
           rank == [w \in Nat |-> w]
<1>1. ASSUME NEW f \in [Nat -> Nat], NEW w \in Nat PROVE turn(f, w) \in Nat
  <2>1. CASE w = 0
    BY <2>1
  <2>2. CASE w # 0
    <3>1. f[w - 1] \in Nat
      BY <2>2
    <3> QED BY <2>2, <3>1
  <2> QED BY <2>1, <2>2
<1>2. step \in [Nat -> [[Nat -> Nat] -> Nat]]
  <2> HIDE DEF turn
  <2> QED BY <1>1
<1>3. rank \in [Nat -> Nat] /\ \A w \in Nat : rank[w] = w
  OBVIOUS
<1>4. \A f \in [Nat -> Nat] : \A w \in Nat : step[w][f] = turn(f, w)
  OBVIOUS
<1> HIDE DEF step, rank
<1>5. \A w \in Nat : \A f, g \in [Nat -> Nat] :
         (\A k \in Nat : rank[k] < rank[w] => f[k] = g[k]) => step[w][f] = step[w][g]
  <2> SUFFICES ASSUME NEW w \in Nat, NEW f \in [Nat -> Nat], NEW g \in [Nat -> Nat],
                      \A k \in Nat : rank[k] < rank[w] => f[k] = g[k]
               PROVE  step[w][f] = step[w][g]
      OBVIOUS
  <2>1. w # 0 => f[w - 1] = g[w - 1]
    BY <1>3
  <2> QED BY <1>4, <2>1
<1>6. PICK F \in [Nat -> Nat] : \A w \in Nat : F[w] = step[w][F]
  <2>1. Descends(Nat, Nat, rank, step)
    BY <1>2, <1>3, <1>5 DEF Descends
  <2> DEFINE V == Nat
  <2>2. Descends(Nat, V, rank, step)
    BY <2>1
  <2> HIDE DEF V
  <2>3. \E F \in [Nat -> V] : \A w \in Nat : F[w] = step[w][F]
    BY <2>2, Recursion
  <2> QED BY <2>3 DEF V
<1>7. F = [w \in Nat |-> turn(F, w)]
  <2>1. \A w \in Nat : F[w] = turn(F, w)
    BY <1>4, <1>6
  <2>2. F = [w \in Nat |-> F[w]]
    OBVIOUS
  <2> HIDE DEF turn
  <2> QED BY <2>1, <2>2
<1>8. Power(base) = CHOOSE p : p = [w \in Nat |-> turn(p, w)]
  BY DEF Power
<1>9. Power(base) = [w \in Nat |-> turn(Power(base), w)]
  <2> HIDE DEF turn
  <2> QED BY <1>7, <1>8
<1> DEFINE P == Power(base)
<1> HIDE DEF P
<1>10. \A w \in Nat : P[w] = turn(P, w)
  <2> HIDE DEF turn
  <2> QED BY <1>9 DEF P
<1>11. P[0] = 1 /\ \A w \in Nat : P[w + 1] = base * P[w]
  BY <1>10
<1> DEFINE T == {w \in Nat : P[w] \notin Nat \ {0}}
<1>12. ASSUME T # {} PROVE FALSE
  <2>1. PICK w \in T : \A v \in T : w <= v
    BY <1>12, Smallest
  <2>2. w # 0
    BY <1>11
  <2>3. w - 1 \in Nat /\ w - 1 \notin T /\ (w - 1) + 1 = w
    <3>1. w \in Nat /\ w - 1 \in Nat
      BY <2>2
    <3> HIDE DEF T
    <3> QED BY <2>1, <3>1
  <2>4. P[w - 1] \in Nat \ {0} /\ P[w] = base * P[w - 1]
    BY <1>11, <2>3
  <2> QED BY <2>4
<1> QED BY <1>11, <1>12 DEF P

\* A higher power is not smaller.
LEMMA PowerGrows ==
    ASSUME NEW base \in {10, 16}, NEW v \in Nat, NEW w \in Nat, v <= w
    PROVE  Power(base)[v] <= Power(base)[w]
<1> DEFINE P == Power(base)
           T == {k \in Nat : ~(P[v] <= P[v + k])}
<1>1. \A k \in Nat : P[k] \in Nat \ {0} /\ P[k + 1] = base * P[k]
  BY PowerIs
<1> HIDE DEF P
<1>2. ASSUME T # {} PROVE FALSE
  <2>1. PICK k \in T : \A j \in T : k <= j
    BY <1>2, Smallest
  <2>2. k # 0
    BY <1>1
  <2>3. k \in Nat /\ k - 1 \in Nat /\ v + (k - 1) \in Nat /\ (v + (k - 1)) + 1 = v + k
    BY <2>2
  <2>4. k - 1 \notin T
    <3> HIDE DEF T
    <3> QED BY <2>1, <2>3
  <2>5. P[v] <= P[v + (k - 1)] /\ P[v + (k - 1)] \in Nat /\ P[v + k] = base * P[v + (k - 1)]
    BY <1>1, <2>3, <2>4
  <2>6. P[v] <= P[v + k]
    BY <1>1, <2>5
  <2> QED BY <2>6
<1>3. w - v \in Nat /\ v + (w - v) = w
  OBVIOUS
<1>4. P[v] <= P[v + (w - v)]
  BY <1>2, <1>3
<1> QED BY <1>3, <1>4 DEF P

-----------------------------------------------------------------------------
(* LogStream: the loop of the conversions *)

Abs(i) == IF i >= 0 THEN i ELSE -i

\* The division of C brings a number closer to zero and keeps its sign.
LEMMA Divides ==
    ASSUME NEW i \in Int, NEW base \in {10, 16}
    PROVE  /\ cdiv(i, base) \in Int /\ crem(i, base) \in Int /\ Abs(i) \in Nat
           /\ Abs(cdiv(i, base)) \in Nat
           /\ cdiv(i, base) # 0 => Abs(cdiv(i, base)) < Abs(i)
           /\ i >= 0 => /\ cdiv(i, base) = i \div base /\ crem(i, base) = i % base
                        /\ i \div base \in Nat /\ i % base \in 0..(base - 1)
           /\ cdiv(-i, base) = -cdiv(i, base) /\ crem(-i, base) = -crem(i, base)
<1>1. CASE base = 10
  BY <1>1 DEF cdiv, crem, Abs
<1>2. CASE base = 16
  BY <1>2 DEF cdiv, crem, Abs
<1> QED BY <1>1, <1>2

\* What one turn of the loop puts before the digits that follow.
Digit(base, table, first, f, i) ==
    <<table[crem(i, base) + first]>> \o (IF cdiv(i, base) # 0 THEN f[cdiv(i, base)] ELSE <<>>)

Entries(table) == {table[k] : k \in Int}

\* The loop ends for every number, and each of its turns is one digit.
LEMMA BackwardsIs ==
    ASSUME NEW base \in {10, 16}, NEW table, NEW first \in Int
    PROVE  LET b == backwards(base, table, first)
           IN  \A i \in Int : b[i] = Digit(base, table, first, b, i) /\ b[i] \in Seq(Entries(table))
<1> DEFINE V == Seq(Entries(table))
           step == [i \in Int |-> [f \in [Int -> V] |-> Digit(base, table, first, f, i)]]
           rank == [i \in Int |-> Abs(i)]
<1>0. \A i \in Int : /\ cdiv(i, base) \in Int /\ crem(i, base) \in Int /\ Abs(i) \in Nat
                     /\ Abs(cdiv(i, base)) \in Nat
                     /\ cdiv(i, base) # 0 => Abs(cdiv(i, base)) < Abs(i)
  BY Divides
<1>1. ASSUME NEW f, NEW i \in Int,
             cdiv(i, base) # 0 => f[cdiv(i, base)] \in V
      PROVE  Digit(base, table, first, f, i) \in V
  <2>1. crem(i, base) + first \in Int
    <3> HIDE DEF V
    <3> QED BY <1>0
  <2>2. table[crem(i, base) + first] \in Entries(table)
    BY <2>1 DEF Entries
  <2>3. <<table[crem(i, base) + first]>> \in V
    BY <2>2
  <2> QED BY <1>1, <2>3 DEF Digit
<1>2. V # {}
  <2>1. <<>> \in V
    OBVIOUS
  <2> QED BY <2>1
<1> HIDE DEF V
<1>3. step \in [Int -> [[Int -> V] -> V]]
  <2>1. \A i \in Int : \A f \in [Int -> V] : Digit(base, table, first, f, i) \in V
    BY <1>0, <1>1
  <2> QED BY <2>1
<1>4. rank \in [Int -> Nat] /\ \A i \in Int : rank[i] = Abs(i)
  <2>1. \A i \in Int : Abs(i) \in Nat
    BY DEF Abs
  <2> QED BY <2>1
<1>5. \A f \in [Int -> V] : \A i \in Int : step[i][f] = Digit(base, table, first, f, i)
  OBVIOUS
<1> HIDE DEF step, rank
<1>6. \A i \in Int : \A f, g \in [Int -> V] :
         (\A k \in Int : rank[k] < rank[i] => f[k] = g[k]) => step[i][f] = step[i][g]
  <2> SUFFICES ASSUME NEW i \in Int, NEW f \in [Int -> V], NEW g \in [Int -> V],
                      \A k \in Int : rank[k] < rank[i] => f[k] = g[k]
               PROVE  step[i][f] = step[i][g]
      OBVIOUS
  <2>1. cdiv(i, base) # 0 => f[cdiv(i, base)] = g[cdiv(i, base)]
    BY <1>0, <1>4
  <2>2. Digit(base, table, first, f, i) = Digit(base, table, first, g, i)
    BY <2>1 DEF Digit
  <2> QED BY <1>5, <2>2
<1>7. PICK F \in [Int -> V] : \A i \in Int : F[i] = step[i][F]
  <2>1. Descends(Int, V, rank, step)
    BY <1>2, <1>3, <1>4, <1>6 DEF Descends
  <2> QED BY <2>1, Recursion
<1>8. F = [i \in Int |-> Digit(base, table, first, F, i)]
  <2>1. \A i \in Int : F[i] = Digit(base, table, first, F, i)
    BY <1>5, <1>7
  <2>2. F = [i \in Int |-> F[i]]
    OBVIOUS
  <2> QED BY <2>1, <2>2
<1> DEFINE H == backwards(base, table, first)
<1>9. H = CHOOSE b : b = [i \in Int |-> Digit(base, table, first, b, i)]
  BY DEF backwards, Digit
<1>10. H = [i \in Int |-> Digit(base, table, first, H, i)]
  <2> HIDE DEF H
  <2> QED BY <1>8, <1>9
<1> HIDE DEF H
<1>11. \A i \in Int : H[i] = Digit(base, table, first, H, i)
  BY <1>10
<1> DEFINE T == {n \in Nat : \E i \in Int : Abs(i) = n /\ H[i] \notin V}
<1>12. ASSUME T # {} PROVE FALSE
  <2>1. PICK n \in T : \A j \in T : n <= j
    BY <1>12, Smallest
  <2>2. PICK i \in Int : Abs(i) = n /\ H[i] \notin V
    BY <2>1
  <2>3. cdiv(i, base) # 0 => H[cdiv(i, base)] \in V
    BY <1>0, <2>1, <2>2
  <2> QED BY <1>1, <1>11, <2>2, <2>3
<1>13. \A i \in Int : H[i] \in V
  BY <1>0, <1>12
<1> QED BY <1>11, <1>13 DEF H, V

-----------------------------------------------------------------------------
(* LogStream: numerals *)

\* The quotient lies between its bounds,
LEMMA DivAt ==
    ASSUME NEW n \in Nat, NEW x \in Nat \ {0}
    PROVE  n \div x \in Nat /\ x * (n \div x) <= n /\ n < x * (n \div x) + x
OBVIOUS

\* and is the only number that does.
LEMMA DivIs ==
    ASSUME NEW n \in Nat, NEW x \in Nat \ {0}, NEW q \in Nat, x * q <= n, n < x * q + x
    PROVE  n \div x = q
OBVIOUS

\* The quotient and the remainder of a base.
LEMMA BaseAt ==
    ASSUME NEW base \in {10, 16}, NEW n \in Nat
    PROVE  /\ n \div base \in Nat /\ base * (n \div base) <= n /\ n < base * (n \div base) + base
           /\ n % base \in 0..(base - 1) /\ (n \div base = 0 <=> n < base)
           /\ n < base => n % base = n
           /\ n >= base => n \div base < n
<1>1. CASE base = 10
  BY <1>1
<1>2. CASE base = 16
  BY <1>2
<1> QED BY <1>1, <1>2

\* Dividing by the base and then by x is dividing by their product.
LEMMA DivDiv ==
    ASSUME NEW base \in {10, 16}, NEW n \in Nat, NEW x \in Nat \ {0}
    PROVE  (n \div base) \div x = n \div (base * x)
<1> DEFINE m == n \div base
           q == m \div x
           z == x * q
<1>1. m \in Nat /\ base * m <= n /\ n < base * m + base
  BY BaseAt
<1>2. q \in Nat /\ x * q <= m /\ m < x * q + x
  BY <1>1, DivAt
<1> HIDE DEF m, q
<1>3. z \in Nat /\ z <= m /\ m < z + x
  BY <1>2
<1>4. (base * x) * q = base * z /\ base * x \in Nat \ {0}
  BY <1>2
<1> HIDE DEF z
<1>5. base * z <= n /\ n < base * z + base * x
  <2>1. CASE base = 10
    BY <1>1, <1>3, <2>1
  <2>2. CASE base = 16
    BY <1>1, <1>3, <2>2
  <2> QED BY <2>1, <2>2
<1>6. n \div (base * x) = q
  BY <1>2, <1>4, <1>5, DivIs
<1> QED BY <1>6 DEF q, m

\* A number has w places if it lies between two powers.
LEMMA PlacesIs ==
    ASSUME NEW base \in {10, 16}, NEW n \in Nat, NEW w \in 1..kMaxNumericSize,
           n < Power(base)[w], w = 1 \/ n >= Power(base)[w - 1]
    PROVE  Places(n, base) = w
<1> DEFINE P == Power(base)
           Right(v) == n < P[v] /\ (v = 1 \/ n >= P[v - 1])
<1>1. \A v \in Nat : P[v] \in Nat
  BY PowerIs
<1>2. \A u, v \in Nat : u <= v => P[u] <= P[v]
  BY PowerGrows
<1>3. Places(n, base) = CHOOSE v \in 1..kMaxNumericSize : Right(v)
  BY DEF Places
<1> HIDE DEF P
<1>4. ASSUME NEW v \in 1..kMaxNumericSize, Right(v) PROVE v = w
  <2>1. w \in Nat /\ v \in Nat /\ w - 1 \in Nat /\ v - 1 \in Nat
    BY BoundAssumption
  <2>2. Right(w)
    BY DEF P
  <2>3. ~(v < w)
    <3> SUFFICES ASSUME v < w PROVE FALSE
        OBVIOUS
    <3>1. P[v] <= P[w - 1]
      BY <1>2, <2>1
    <3> QED BY <1>1, <1>4, <2>1, <2>2, <3>1
  <2>4. ~(w < v)
    <3> SUFFICES ASSUME w < v PROVE FALSE
        OBVIOUS
    <3>1. P[w] <= P[v - 1]
      BY <1>2, <2>1
    <3> QED BY <1>1, <1>4, <2>1, <2>2, <3>1
  <2> QED BY <2>1, <2>3, <2>4
<1>5. Right(w)
  BY DEF P
<1> HIDE DEF Right
<1> QED BY <1>3, <1>4, <1>5

\* The digits from the last to the first are the numeral, reversed.
Reads(base, n, s) ==
    /\ Len(s) \in Nat /\ Len(s) >= 1
    /\ n < Power(base)[Len(s)] /\ (Len(s) = 1 \/ n >= Power(base)[Len(s) - 1])
    /\ Len(s) <= kMaxNumericSize => Reverse(s) = Numeral(n, base)

\* The last digit.
LEMMA ReadsShort ==
    ASSUME NEW base \in {10, 16}, NEW n \in Nat, n < base
    PROVE  Reads(base, n, <<digitsHex[n + 1]>>)
<1> DEFINE P == Power(base)
           s == <<digitsHex[n + 1]>>
<1>1. P[0] = 1 /\ P[1] = base
  <2>1. P[0] = 1 /\ P[0 + 1] = base * P[0]
    BY PowerIs
  <2> QED BY <2>1
<1>2. Len(s) = 1 /\ Reverse(s) = s
  BY DEF Reverse
<1>3. ASSUME 1 <= kMaxNumericSize PROVE Numeral(n, base) = s
  <2>1. Places(n, base) = 1
    <3>1. 1 \in 1..kMaxNumericSize
      BY <1>3, BoundAssumption
    <3> QED BY <1>1, <3>1, PlacesIs
  <2>2. n \div P[1 - 1] = n /\ n % base = n
    BY <1>1, BaseAt
  <2>3. Numeral(n, base) = [k \in 1..1 |-> digitsHex[((n \div P[1 - k]) % base) + 1]]
    BY <2>1 DEF Numeral
  <2> QED BY <2>2, <2>3
<1> QED BY <1>1, <1>2, <1>3 DEF Reads

\* A digit more.
LEMMA ReadsLong ==
    ASSUME NEW base \in {10, 16}, NEW n \in Nat, n >= base,
           NEW C, NEW s \in Seq(C), Reads(base, n \div base, s),
           NEW d, d = digitsHex[(n % base) + 1]
    PROVE  Reads(base, n, <<d>> \o s)
<1> DEFINE P == Power(base)
           m == n \div base
           v == Len(s)
           u == <<d>> \o s
<1>1. m \in Nat /\ base * m <= n /\ n < base * m + base /\ m # 0
  BY BaseAt
<1>2. P[0] = 1 /\ \A w \in Nat : P[w] \in Nat \ {0} /\ P[w + 1] = base * P[w]
  BY PowerIs
<1>3. v \in Nat /\ v >= 1 /\ m < P[v] /\ (v = 1 \/ m >= P[v - 1])
  BY DEF Reads
<1>4. /\ Len(u) = v + 1 /\ u[1] = d
      /\ \A k \in 1..v : u[k + 1] = s[k]
  <2>1. s \in Seq(C \cup {d}) /\ <<d>> \in Seq(C \cup {d})
    OBVIOUS
  <2> QED BY <2>1
<1> HIDE DEF m, v, u, P
<1>5. n < P[v + 1]
  <2>1. P[v + 1] = base * P[v] /\ P[v] \in Nat
    BY <1>2, <1>3
  <2>2. m + 1 <= P[v]
    BY <1>1, <1>3, <2>1
  <2> QED BY <1>1, <2>1, <2>2
<1>6. n >= P[v]
  <2>1. CASE v = 1
    <3>1. P[0 + 1] = base * P[0]
      BY <1>2
    <3> QED BY <1>2, <2>1, <3>1
  <2>2. CASE v # 1
    <3>1. v - 1 \in Nat /\ (v - 1) + 1 = v
      BY <1>3
    <3>2. P[v] = base * P[v - 1] /\ P[v - 1] \in Nat /\ P[v - 1] <= m
      BY <1>2, <1>3, <2>2, <3>1
    <3> QED BY <1>1, <3>2
  <2> QED BY <2>1, <2>2
<1>7. ASSUME v + 1 <= kMaxNumericSize PROVE Reverse(u) = Numeral(n, base)
  <2>1. v + 1 \in 1..kMaxNumericSize /\ v \in 1..kMaxNumericSize /\ (v + 1) - 1 = v
    BY <1>3, <1>7, BoundAssumption
  <2>2. Places(n, base) = v + 1 /\ Places(m, base) = v
    BY <1>1, <1>3, <1>5, <1>6, <2>1, PlacesIs DEF P
  <2>3. Reverse(s) = Numeral(m, base)
    BY <1>3, <1>7, BoundAssumption DEF Reads, v, m
  <2>4. Reverse(u) = [k \in 1..(v + 1) |-> u[((v + 1) - k) + 1]]
    BY <1>4 DEF Reverse
  <2>5. Numeral(n, base) = [k \in 1..(v + 1) |-> digitsHex[((n \div P[(v + 1) - k]) % base) + 1]]
    BY <2>2 DEF Numeral, P
  <2>6. ASSUME NEW k \in 1..v PROVE s[(v - k) + 1] = digitsHex[((m \div P[v - k]) % base) + 1]
    <3>1. Reverse(s)[k] = s[(v - k) + 1]
      BY DEF Reverse, v
    <3>2. Numeral(m, base)[k] = digitsHex[((m \div P[v - k]) % base) + 1]
      BY <2>2 DEF Numeral, P
    <3> QED BY <2>3, <3>1, <3>2
  <2>7. ASSUME NEW k \in 1..(v + 1)
        PROVE  u[((v + 1) - k) + 1] = digitsHex[((n \div P[(v + 1) - k]) % base) + 1]
    <3>1. CASE k = v + 1
      <4>1. ((v + 1) - k) + 1 = 1 /\ (v + 1) - k = 0 /\ n \div 1 = n
        BY <1>3, <3>1
      <4> QED BY <1>2, <1>4, <4>1
    <3>2. CASE k # v + 1
      <4>1. /\ k \in 1..v /\ v - k \in Nat /\ (v - k) + 1 \in 1..v
            /\ (v + 1) - k = (v - k) + 1
        <5>1. v \in Nat
          BY <1>3
        <5> QED BY <3>2, <5>1
      <4>2. u[((v - k) + 1) + 1] = s[(v - k) + 1]
        BY <1>4, <4>1
      <4>3. P[(v - k) + 1] = base * P[v - k] /\ P[v - k] \in Nat \ {0}
        BY <1>2, <4>1
      <4>4. m \div P[v - k] = n \div P[(v - k) + 1]
        <5> DEFINE x == P[v - k]
        <5>1. x \in Nat \ {0} /\ P[(v - k) + 1] = base * x
          BY <4>3
        <5> HIDE DEF x
        <5>2. (n \div base) \div x = n \div (base * x)
          BY <5>1, DivDiv
        <5>3. m \div x = n \div P[(v - k) + 1]
          BY <5>1, <5>2 DEF m
        <5> QED BY <5>3 DEF x
      <4>5. s[(v - k) + 1] = digitsHex[((m \div P[v - k]) % base) + 1]
        BY <2>6, <4>1
      <4> QED BY <4>1, <4>2, <4>4, <4>5
    <3> QED BY <3>1, <3>2
  <2> QED BY <2>4, <2>5, <2>7
<1>8. (v + 1) - 1 = v /\ v + 1 \in Nat /\ v + 1 >= 1
  BY <1>3
<1>9. Reads(base, n, u)
  BY <1>4, <1>5, <1>6, <1>7, <1>8 DEF Reads, P
<1> QED BY <1>9 DEF u

\* The tables hold each digit at its place, that of convert on both sides of
\* its middle.
LEMMA Tables ==
    /\ \A d \in 0..9 : digits[d + zero] = digitsHex[d + 1] /\ digits[-d + zero] = digits[d + zero]
    /\ zero \in Int
<1>1. ASSUME NEW d \in 0..9
      PROVE  digits[d + 10] = digitsHex[d + 1] /\ digits[-d + 10] = digits[d + 10]
  <2>1. d = 0 \/ d = 1 \/ d = 2 \/ d = 3 \/ d = 4 \/ d = 5 \/ d = 6 \/ d = 7 \/ d = 8 \/ d = 9
    OBVIOUS
  <2> QED BY <2>1 DEF digits, digitsHex
<1> QED BY <1>1 DEF zero

\* The loop finds every digit.
LEMMA LoopReads ==
    ASSUME NEW base \in {10, 16}, NEW table, NEW first \in Int,
           \A d \in 0..(base - 1) : table[d + first] = digitsHex[d + 1],
           NEW n \in Nat
    PROVE  Reads(base, n, backwards(base, table, first)[n])
<1> DEFINE H == backwards(base, table, first)
           T == {k \in Nat : ~Reads(base, k, H[k])}
<1>1. \A i \in Int : H[i] = Digit(base, table, first, H, i) /\ H[i] \in Seq(Entries(table))
  BY BackwardsIs
<1> HIDE DEF H
<1>2. ASSUME T # {} PROVE FALSE
  <2>1. PICK k \in T : \A j \in T : k <= j
    BY <1>2, Smallest
  <2>2. k \in Nat /\ k \in Int /\ k >= 0 /\ ~Reads(base, k, H[k])
    BY <2>1
  <2>3. /\ cdiv(k, base) = k \div base /\ crem(k, base) = k % base
        /\ k \div base \in Nat /\ k % base \in 0..(base - 1)
    BY <2>2, Divides
  <2>4. table[(k % base) + first] = digitsHex[(k % base) + 1]
    BY <2>3
  <2>5. H[k] = <<digitsHex[(k % base) + 1]>> \o (IF k \div base # 0 THEN H[k \div base] ELSE <<>>)
    BY <1>1, <2>2, <2>3, <2>4 DEF Digit
  <2>6. CASE k < base
    <3>1. k \div base = 0 /\ k % base = k
      BY <2>2, <2>6, BaseAt
    <3>2. H[k] = <<digitsHex[k + 1]>> \o <<>>
      BY <2>5, <3>1
    <3>3. \A x : <<x>> \o <<>> = <<x>>
      OBVIOUS
    <3>4. H[k] = <<digitsHex[k + 1]>>
      BY <3>2, <3>3
    <3> QED BY <2>2, <2>6, <3>4, ReadsShort
  <2>7. CASE k >= base
    <3>1. k \div base # 0 /\ k \div base < k
      BY <2>2, <2>7, BaseAt
    <3>2. Reads(base, k \div base, H[k \div base])
      <4>1. k \div base \notin T
        <5> HIDE DEF T
        <5> QED BY <2>1, <2>2, <2>3, <3>1
      <4> QED BY <2>3, <4>1
    <3>3. H[k \div base] \in Seq(Entries(table))
      BY <1>1, <2>3
    <3>4. Reads(base, k, <<digitsHex[(k % base) + 1]>> \o H[k \div base])
      BY <2>2, <2>7, <3>2, <3>3, ReadsLong
    <3> QED BY <2>2, <2>5, <3>1, <3>4
  <2> QED BY <2>2, <2>6, <2>7
<1> QED BY <1>2 DEF H

\* A negative number has the digits of its absolute value.
LEMMA LoopNegative ==
    ASSUME NEW n \in Nat
    PROVE  backwards(10, digits, zero)[-n] = backwards(10, digits, zero)[n]
<1> DEFINE H == backwards(10, digits, zero)
           T == {k \in Nat : H[-k] # H[k]}
<1>1. \A i \in Int : H[i] = Digit(10, digits, zero, H, i)
  BY BackwardsIs, Tables
<1> HIDE DEF H
<1>2. ASSUME T # {} PROVE FALSE
  <2>1. PICK k \in T : \A j \in T : k <= j
    BY <1>2, Smallest
  <2>2. k \in Nat /\ k \in Int /\ -k \in Int /\ H[-k] # H[k]
    BY <2>1
  <2> DEFINE q == k \div 10
             r == k % 10
  <2>3. /\ cdiv(k, 10) = q /\ crem(k, 10) = r /\ q \in Nat /\ r \in 0..(10 - 1)
        /\ cdiv(-k, 10) = -q /\ crem(-k, 10) = -r
    BY <2>2, Divides
  <2>4. q # 0 => q < k
    BY <2>2
  <2> HIDE DEF q, r
  <2>5. digits[-r + zero] = digits[r + zero]
    BY <2>3, Tables
  <2>6. q # 0 => H[-q] = H[q]
    <3> SUFFICES ASSUME q # 0 PROVE q \notin T
        BY <2>3
    <3> HIDE DEF T
    <3> QED BY <2>1, <2>2, <2>3, <2>4
  <2>7. -q # 0 <=> q # 0
    BY <2>3
  <2>8. H[k] = <<digits[r + zero]>> \o (IF q # 0 THEN H[q] ELSE <<>>)
    BY <1>1, <2>2, <2>3 DEF Digit
  <2>9. H[-k] = <<digits[-r + zero]>> \o (IF -q # 0 THEN H[-q] ELSE <<>>)
    BY <1>1, <2>2, <2>3 DEF Digit
  <2> QED BY <2>2, <2>5, <2>6, <2>7, <2>8, <2>9
<1> QED BY <1>2 DEF H

-----------------------------------------------------------------------------
(* LogStream: the conversions *)

\* The characters of a line: those of the program, those of the Logger and of
\* the prefixes of numbers, and digits.
Own == {"-", "0", "x", "time", "us", "Z", "tid", "level", "strerror", "(errno=", ")",
        "dash", "file", ":", "\n"}
Char == STRING \cup Own \cup Entries(digits) \cup Entries(digitsHex)

\* A sequence over a set is one over a larger set.
LEMMA Wider ==
    ASSUME NEW C, NEW D, C \subseteq D, NEW s \in Seq(C)
    PROVE  s \in Seq(D)
OBVIOUS

\* Two sequences over a set, one after the other.
LEMMA Joined ==
    ASSUME NEW C, NEW s \in Seq(C), NEW t \in Seq(C)
    PROVE  s \o t \in Seq(C) /\ Len(s \o t) = Len(s) + Len(t)
OBVIOUS

\* Concatenation is associative.
LEMMA Regrouped ==
    ASSUME NEW C, NEW s \in Seq(C), NEW t \in Seq(C), NEW u \in Seq(C)
    PROVE  (s \o t) \o u = s \o (t \o u)
OBVIOUS

\* Reverse keeps the elements and the length.
LEMMA ReverseIs ==
    ASSUME NEW C, NEW s \in Seq(C)
    PROVE  Reverse(s) \in Seq(C) /\ Len(Reverse(s)) = Len(s)
<1>1. \A k \in 1..Len(s) : (Len(s) - k) + 1 \in 1..Len(s)
  OBVIOUS
<1>2. \A k \in 1..Len(s) : s[(Len(s) - k) + 1] \in C
  BY <1>1
<1> QED BY <1>2 DEF Reverse

\* The sign, written last, comes first.
LEMMA ReverseSign ==
    ASSUME NEW C, NEW s \in Seq(C), NEW d \in C
    PROVE  Reverse(s \o <<d>>) = <<d>> \o Reverse(s)
<1> DEFINE v == Len(s)
           u == s \o <<d>>
           l == Reverse(u)
           r == <<d>> \o Reverse(s)
<1>1. v \in Nat /\ Len(u) = v + 1 /\ u[v + 1] = d /\ \A k \in 1..v : u[k] = s[k]
  OBVIOUS
<1>2. u \in Seq(C)
  OBVIOUS
<1>3. Reverse(s) \in Seq(C) /\ Len(Reverse(s)) = v /\ \A k \in 1..v : Reverse(s)[k] = s[(v - k) + 1]
  BY ReverseIs DEF Reverse
<1>4. l \in Seq(C) /\ Len(l) = v + 1
  BY <1>1, <1>2, ReverseIs
<1>5. \A k \in 1..(v + 1) : l[k] = u[((v + 1) - k) + 1]
  BY <1>1 DEF Reverse
<1>6. r \in Seq(C) /\ Len(r) = v + 1 /\ r[1] = d /\ \A k \in 2..(v + 1) : r[k] = Reverse(s)[k - 1]
  BY <1>1, <1>3
<1> HIDE DEF v, u, l, r
<1>7. ASSUME NEW k \in 1..(v + 1) PROVE l[k] = r[k]
  <2>1. CASE k = 1
    <3>1. ((v + 1) - k) + 1 = v + 1
      BY <1>1, <2>1
    <3> QED BY <1>1, <1>5, <1>6, <2>1, <3>1
  <2>2. CASE k # 1
    <3>1. /\ k \in 2..(v + 1) /\ k - 1 \in 1..v
          /\ ((v + 1) - k) + 1 \in 1..v /\ ((v + 1) - k) + 1 = (v - (k - 1)) + 1
      BY <1>1, <2>2
    <3>2. l[k] = s[((v + 1) - k) + 1]
      BY <1>1, <1>5, <3>1
    <3>3. r[k] = s[(v - (k - 1)) + 1]
      BY <1>3, <1>6, <3>1
    <3> QED BY <3>1, <3>2, <3>3
  <2> QED BY <2>1, <2>2
<1>8. l = r
  BY <1>4, <1>6, <1>7
<1> QED BY <1>8 DEF l, r, u

\* convert writes the numeral of every integer, with its sign.
LEMMA ConvertIs ==
    ASSUME NEW n \in Int
    PROVE  /\ convert(n) \in Seq(Char)
           /\ Len(convert(n)) < kMaxNumericSize =>
                 convert(n) = IF n < 0 THEN <<"-">> \o Numeral(-n, 10) ELSE Numeral(n, 10)
<1> DEFINE H == backwards(10, digits, zero)
<1>1. \A i \in Int : H[i] \in Seq(Entries(digits))
  BY BackwardsIs, Tables
<1>2. \A k \in Nat : Reads(10, k, H[k])
  <2>1. \A d \in 0..(10 - 1) : digits[d + zero] = digitsHex[d + 1]
    BY Tables
  <2> QED BY <2>1, Tables, LoopReads
<1>3. \A k \in Nat : H[-k] = H[k]
  BY LoopNegative
<1>4. convert(n) = Reverse(H[n] \o (IF n < 0 THEN <<"-">> ELSE <<>>))
  BY DEF convert
<1> HIDE DEF H
<1>5. \A i \in Int : H[i] \in Seq(Char) /\ Reverse(H[i]) \in Seq(Char) /\ Len(Reverse(H[i])) = Len(H[i])
  <2>1. Entries(digits) \subseteq Char
    BY DEF Char
  <2>2. \A i \in Int : H[i] \in Seq(Char)
    BY <1>1, <2>1
  <2> QED BY <2>2, ReverseIs
<1>6. CASE n >= 0
  <2>1. n \in Nat /\ ~(n < 0)
    BY <1>6
  <2>2. H[n] \o <<>> = H[n]
    BY <1>5
  <2>3. convert(n) = Reverse(H[n])
    BY <1>4, <2>1, <2>2
  <2>4. Reads(10, n, H[n])
    BY <1>2, <2>1
  <2>5. Len(H[n]) < kMaxNumericSize => Reverse(H[n]) = Numeral(n, 10)
    BY <2>4, BoundAssumption DEF Reads
  <2> QED BY <1>5, <2>1, <2>3, <2>5
<1>7. CASE n < 0
  <2>1. -n \in Nat /\ -n \in Int
    BY <1>7
  <2>2. H[n] = H[-n]
    <3>1. -(-n) = n
      OBVIOUS
    <3> QED BY <1>3, <2>1, <3>1
  <2>3. "-" \in Char
    BY DEF Char, Own
  <2>4. convert(n) = <<"-">> \o Reverse(H[-n])
    BY <1>4, <1>5, <1>7, <2>1, <2>2, <2>3, ReverseSign
  <2>5. <<"-">> \in Seq(Char) /\ Reverse(H[-n]) \in Seq(Char)
    BY <1>5, <2>1, <2>3
  <2>6. convert(n) \in Seq(Char) /\ Len(convert(n)) = 1 + Len(H[-n])
    <3>1. Len(<<"-">>) = 1 /\ Len(Reverse(H[-n])) = Len(H[-n])
      BY <1>5, <2>1
    <3> QED BY <2>4, <2>5, <3>1, Joined
  <2>7. Reads(10, -n, H[-n])
    BY <1>2, <2>1
  <2>8. Len(H[-n]) < kMaxNumericSize => Reverse(H[-n]) = Numeral(-n, 10)
    BY <2>7, BoundAssumption DEF Reads
  <2>9. Len(H[-n]) \in Nat
    BY <2>7 DEF Reads
  <2>10. Len(convert(n)) < kMaxNumericSize => Len(H[-n]) < kMaxNumericSize
    BY <2>6, <2>9, BoundAssumption
  <2> QED BY <1>7, <2>4, <2>6, <2>8, <2>10
<1> QED BY <1>6, <1>7

\* convertHex writes the hexadecimal numeral of every address.
LEMMA ConvertHexIs ==
    ASSUME NEW n \in Nat
    PROVE  /\ convertHex(n) \in Seq(Char)
           /\ Len(convertHex(n)) < kMaxNumericSize => convertHex(n) = Numeral(n, 16)
<1> DEFINE H == backwards(16, digitsHex, 1)
<1>1. H[n] \in Seq(Entries(digitsHex))
  BY BackwardsIs
<1>2. Reads(16, n, H[n])
  <2>1. \A d \in 0..(16 - 1) : digitsHex[d + 1] = digitsHex[d + 1]
    OBVIOUS
  <2> QED BY <2>1, LoopReads
<1>3. convertHex(n) = Reverse(H[n])
  BY DEF convertHex
<1> HIDE DEF H
<1>4. H[n] \in Seq(Char)
  <2>1. Entries(digitsHex) \subseteq Char
    BY DEF Char
  <2> QED BY <1>1, <2>1
<1>5. Reverse(H[n]) \in Seq(Char) /\ Len(Reverse(H[n])) = Len(H[n])
  BY <1>4, ReverseIs
<1>6. Len(H[n]) < kMaxNumericSize => Reverse(H[n]) = Numeral(n, 16)
  BY <1>2, BoundAssumption DEF Reads
<1> QED BY <1>3, <1>5, <1>6

-----------------------------------------------------------------------------
(* LogStream: insertions *)

\* A buffer whose characters and bytes lie within its size.
Buffers == {b \in [text : Seq(Char), top : Nat] : Len(b.text) <= b.top /\ b.top <= SIZE}

Fitting == {part \in [kind : {"text", "integer", "pointer", "double"}, text : Seq(Char), number : Int] :
               Fits(part)}

\* A part is written out in full, or left out if its room is not there.
Extended(line, part) ==
    IF SIZE - Len(line) >= Need(part) THEN line \o Rendered(part) ELSE line

\* What fits keeps the buffer within its size.
LEMMA AddIs ==
    ASSUME NEW b \in Buffers, NEW s \in Seq(Char), NEW nul \in {0, 1},
           Len(b.text) + Len(s) + nul <= SIZE
    PROVE  add(b, s, nul) \in Buffers /\ add(b, s, nul).text = b.text \o s
<1>1. /\ b.text \in Seq(Char) /\ b.top \in Nat /\ Len(b.text) <= b.top /\ b.top <= SIZE
      /\ Len(b.text) \in Nat /\ Len(s) \in Nat
  BY DEF Buffers
<1> DEFINE end == Len(b.text) + Len(s) + nul
           top == IF end > b.top THEN end ELSE b.top
           line == b.text \o s
<1>2. line \in Seq(Char) /\ Len(line) = Len(b.text) + Len(s)
  BY <1>1
<1>3. top \in Nat /\ Len(line) <= top /\ top <= SIZE
  BY <1>1, <1>2, BoundAssumption
<1>4. add(b, s, nul) = [text |-> line, top |-> top]
  BY DEF add, length
<1> HIDE DEF line, top
<1>5. add(b, s, nul) \in Buffers /\ add(b, s, nul).text = line
  BY <1>2, <1>3, <1>4 DEF Buffers
<1> QED BY <1>5 DEF line

\* An operator << writes a part out in full or leaves the buffer alone.
LEMMA InsertIs ==
    ASSUME NEW b \in Buffers, NEW part \in Fitting
    PROVE  /\ insert(b, part) \in Buffers
           /\ insert(b, part).text = Extended(b.text, part)
<1>1. part.kind \in {"text", "integer", "pointer", "double"} /\ part.number \in Int /\ Fits(part)
  BY DEF Fitting
<1>2. part.text \in Seq(Char) /\ Len(part.text) \in Nat
  BY DEF Fitting
<1>3. b.text \in Seq(Char) /\ Len(b.text) \in Nat /\ avail(b) = SIZE - Len(b.text)
  BY DEF Buffers, avail, length
<1>4. CASE part.kind = "text"
  <2>1. insert(b, part) = append(b, part.text)
    BY <1>4 DEF insert
  <2>2. Need(part) = Len(part.text) /\ Rendered(part) = part.text
    BY <1>4 DEF Need, Rendered
  <2>3. CASE avail(b) >= Len(part.text)
    <3>1. Len(b.text) + Len(part.text) + 0 <= SIZE
      <4> DEFINE l == Len(part.text)
                 v == Len(b.text)
                 a == avail(b)
      <4>1. l \in Nat /\ v \in Nat /\ a = SIZE - v /\ a >= l
        BY <1>2, <1>3, <2>3
      <4> HIDE DEF l, v, a
      <4>2. v + l + 0 <= SIZE
        BY <4>1, BoundAssumption
      <4> QED BY <4>2 DEF l, v
    <3>2. add(b, part.text, 0) \in Buffers /\ add(b, part.text, 0).text = b.text \o part.text
      BY <1>2, <3>1, AddIs
    <3> QED BY <1>3, <2>1, <2>2, <2>3, <3>2 DEF append, Extended
  <2>4. CASE ~(avail(b) >= Len(part.text))
    BY <1>3, <2>1, <2>2, <2>4 DEF append, Extended
  <2> QED BY <2>3, <2>4
<1>5. CASE part.kind = "integer"
  <2> DEFINE s == convert(part.number)
  <2>1. insert(b, part) = IF roomForNumber(b) THEN add(b, s, 1) ELSE b
    BY <1>5 DEF insert, formatInteger
  <2>2. s \in Seq(Char) /\ Len(s) < kMaxNumericSize /\ Rendered(part) = s
    BY <1>1, <1>5, ConvertIs DEF Fits, Rendered
  <2>3. Need(part) = kMaxNumericSize
    BY <1>5 DEF Need
  <2> HIDE DEF s
  <2>4. CASE roomForNumber(b)
    <3>1. Len(b.text) + Len(s) + 1 <= SIZE
      BY <1>3, <2>2, <2>4, BoundAssumption DEF roomForNumber
    <3>2. add(b, s, 1) \in Buffers /\ add(b, s, 1).text = b.text \o s
      BY <2>2, <3>1, AddIs
    <3> QED BY <1>3, <2>1, <2>2, <2>3, <2>4, <3>2 DEF roomForNumber, Extended
  <2>5. CASE ~roomForNumber(b)
    BY <1>3, <2>1, <2>3, <2>5 DEF roomForNumber, Extended
  <2> QED BY <2>4, <2>5
<1>6. CASE part.kind = "pointer"
  <2> DEFINE s == convertHex(part.number)
             x == <<"0", "x">>
  <2>1. insert(b, part) = IF roomForNumber(b) THEN add(append(b, x), s, 1) ELSE b
    BY <1>6 DEF insert, insertPointer
  <2>2. /\ part.number \in Nat /\ Len(s) + 2 < kMaxNumericSize
        /\ s \in Seq(Char) /\ Len(s) \in Nat
    <3>1. part.number \in Nat /\ Len(s) + 2 < kMaxNumericSize
      BY <1>1, <1>6 DEF Fits
    <3>2. s \in Seq(Char)
      BY <3>1, ConvertHexIs
    <3> HIDE DEF s
    <3>3. Len(s) \in Nat
      BY <3>2
    <3> QED BY <3>1, <3>2, <3>3
  <2>3. s = Numeral(part.number, 16)
    <3>1. Len(s) < kMaxNumericSize
      <4> HIDE DEF s
      <4> QED BY <2>2, BoundAssumption
    <3> QED BY <2>2, <3>1, ConvertHexIs
  <2>4. Need(part) = kMaxNumericSize /\ Rendered(part) = x \o s
    BY <1>6, <2>3 DEF Need, Rendered
  <2>5. x \in Seq(Char) /\ Len(x) = 2
    <3>1. "0" \in Char /\ "x" \in Char
      BY DEF Char, Own
    <3> QED BY <3>1
  <2> HIDE DEF s, x
  <2>6. CASE roomForNumber(b)
    <3> DEFINE c == append(b, x)
    <3>1. Len(b.text) + Len(x) + 0 <= SIZE /\ avail(b) >= Len(x)
      BY <1>3, <2>2, <2>5, <2>6, BoundAssumption DEF roomForNumber
    <3>2. c \in Buffers /\ c.text = b.text \o x
      BY <2>5, <3>1, AddIs DEF append
    <3> HIDE DEF c
    <3>3. Len(c.text) = Len(b.text) + 2
      <4> DEFINE y == b.text
      <4>1. y \in Seq(Char)
        BY <1>3
      <4> HIDE DEF y
      <4>2. Len(y \o x) = Len(y) + 2
        BY <2>5, <4>1, Joined
      <4> QED BY <3>2, <4>2 DEF y
    <3>4. Len(c.text) + Len(s) + 1 <= SIZE
      BY <1>3, <2>2, <2>6, <3>3, BoundAssumption DEF roomForNumber
    <3>5. add(c, s, 1) \in Buffers /\ add(c, s, 1).text = (b.text \o x) \o s
      BY <2>2, <3>2, <3>4, AddIs
    <3>6. (b.text \o x) \o s = b.text \o (x \o s)
      <4> DEFINE y == b.text
      <4>1. y \in Seq(Char)
        BY <1>3
      <4> HIDE DEF y
      <4>2. (y \o x) \o s = y \o (x \o s)
        BY <2>2, <2>5, <4>1, Regrouped
      <4> QED BY <4>2 DEF y
    <3>7. insert(b, part) = add(c, s, 1)
      BY <2>1, <2>6 DEF c
    <3> QED BY <1>3, <2>4, <2>6, <3>5, <3>6, <3>7 DEF roomForNumber, Extended
  <2>7. CASE ~roomForNumber(b)
    BY <1>3, <2>1, <2>4, <2>7 DEF roomForNumber, Extended
  <2> QED BY <2>6, <2>7
<1>7. CASE part.kind = "double"
  <2> DEFINE s == part.text
  <2>1. insert(b, part) = IF roomForNumber(b) THEN add(b, s, 1) ELSE b
    BY <1>7 DEF insert, insertDouble
  <2>2. s \in Seq(Char) /\ Len(s) < kMaxNumericSize /\ Rendered(part) = s
    BY <1>1, <1>2, <1>7 DEF Fits, Rendered
  <2>3. Need(part) = kMaxNumericSize
    BY <1>7 DEF Need
  <2> HIDE DEF s
  <2>4. CASE roomForNumber(b)
    <3>1. Len(b.text) + Len(s) + 1 <= SIZE
      BY <1>3, <2>2, <2>4, BoundAssumption DEF roomForNumber
    <3>2. add(b, s, 1) \in Buffers /\ add(b, s, 1).text = b.text \o s
      BY <2>2, <3>1, AddIs
    <3> QED BY <1>3, <2>1, <2>2, <2>3, <2>4, <3>2 DEF roomForNumber, Extended
  <2>5. CASE ~roomForNumber(b)
    BY <1>3, <2>1, <2>3, <2>5 DEF roomForNumber, Extended
  <2> QED BY <2>4, <2>5
<1> QED BY <1>1, <1>4, <1>5, <1>6, <1>7

\* What is written for a part are characters.
LEMMA RenderedIs ==
    ASSUME NEW part \in Fitting
    PROVE  Rendered(part) \in Seq(Char)
<1>1. part.kind \in {"text", "integer", "pointer", "double"} /\ part.number \in Int /\ Fits(part)
  BY DEF Fitting
<1>2. part.text \in Seq(Char)
  BY DEF Fitting
<1>3. CASE part.kind \in {"text", "double"}
  BY <1>2, <1>3 DEF Rendered
<1>4. CASE part.kind = "integer"
  BY <1>1, <1>4, ConvertIs DEF Fits, Rendered
<1>5. CASE part.kind = "pointer"
  <2> DEFINE s == convertHex(part.number)
             x == <<"0", "x">>
  <2>1. part.number \in Nat /\ Len(s) + 2 < kMaxNumericSize
    BY <1>1, <1>5 DEF Fits
  <2>2. s \in Seq(Char)
    BY <2>1, ConvertHexIs
  <2>3. Len(s) < kMaxNumericSize
    <3> HIDE DEF s
    <3>1. Len(s) \in Nat
      BY <2>2
    <3> QED BY <2>1, <3>1, BoundAssumption
  <2>4. s = Numeral(part.number, 16)
    BY <2>1, <2>3, ConvertHexIs
  <2>5. Rendered(part) = x \o s
    BY <1>5, <2>4 DEF Rendered
  <2>6. x \in Seq(Char)
    <3>1. "0" \in Char /\ "x" \in Char
      BY DEF Char, Own
    <3> QED BY <3>1
  <2> HIDE DEF s, x
  <2> QED BY <2>2, <2>5, <2>6, Joined
<1> QED BY <1>1, <1>3, <1>4, <1>5

-----------------------------------------------------------------------------
(* LogStream: a line, part after part *)

\* What holds at 0 and is passed on holds up to N.
LEMMA Upwards ==
    ASSUME NEW N \in Nat, NEW S, 0 \in S, \A n \in 1..N : n - 1 \in S => n \in S
    PROVE  \A n \in 0..N : n \in S
<1> DEFINE T == {n \in Nat : n <= N /\ n \notin S}
<1>1. ASSUME T # {} PROVE FALSE
  <2>1. PICK n \in T : \A j \in T : n <= j
    BY <1>1, Smallest
  <2>2. n \in Nat /\ n <= N /\ n \notin S /\ n # 0
    BY <2>1
  <2>3. n \in 1..N /\ n - 1 \in Nat /\ n - 1 <= N /\ ~(n <= n - 1)
    BY <2>2
  <2>4. n - 1 \notin T
    <3> HIDE DEF T
    <3> QED BY <2>1, <2>3
  <2>5. n - 1 \in S
    BY <2>3, <2>4
  <2> QED BY <2>2, <2>3, <2>5
<1> QED BY <1>1

\* The functions of 0..N with a first value and these steps.
Chains(N, V, a, next) ==
    {F \in [0..N -> V] : F[0] = a /\ \A n \in 1..N : F[n] = next[n][F[n - 1]]}

\* There is one.
LEMMA Chain ==
    ASSUME NEW N \in Nat, NEW V, NEW a \in V, NEW next \in [1..N -> [V -> V]]
    PROVE  Chains(N, V, a, next) # {}
<1> DEFINE S == 0..N
           turn(f, n) == IF n = 0 THEN a ELSE next[n][f[n - 1]]
           step == [n \in S |-> [f \in [S -> V] |-> turn(f, n)]]
           rank == [n \in S |-> n]
<1>1. \A n \in S : n \in Nat /\ (n # 0 => n \in 1..N /\ n - 1 \in S /\ n - 1 < n)
  OBVIOUS
<1>2. 0 \in S /\ \A n \in 1..N : n \in S /\ n # 0
  OBVIOUS
<1> HIDE DEF S
<1>3. ASSUME NEW f \in [S -> V], NEW n \in S PROVE turn(f, n) \in V
  <2>1. CASE n = 0
    BY <2>1
  <2>2. CASE n # 0
    <3>1. n \in 1..N /\ f[n - 1] \in V
      BY <1>1, <2>2
    <3> QED BY <2>2, <3>1
  <2> QED BY <2>1, <2>2
<1>4. step \in [S -> [[S -> V] -> V]]
  <2> HIDE DEF turn
  <2> QED BY <1>3
<1>5. rank \in [S -> Nat] /\ \A n \in S : rank[n] = n
  BY <1>1
<1>6. \A f \in [S -> V] : \A n \in S : step[n][f] = turn(f, n)
  <2> HIDE DEF turn
  <2> QED OBVIOUS
<1> HIDE DEF step, rank
<1>7. \A n \in S : \A f, g \in [S -> V] :
         (\A k \in S : rank[k] < rank[n] => f[k] = g[k]) => step[n][f] = step[n][g]
  <2> SUFFICES ASSUME NEW n \in S, NEW f \in [S -> V], NEW g \in [S -> V],
                      \A k \in S : rank[k] < rank[n] => f[k] = g[k]
               PROVE  step[n][f] = step[n][g]
      OBVIOUS
  <2>1. n # 0 => f[n - 1] = g[n - 1]
    BY <1>1, <1>5
  <2>2. turn(f, n) = turn(g, n)
    BY <2>1
  <2> HIDE DEF turn
  <2> QED BY <1>6, <2>2
<1>8. PICK F \in [S -> V] : \A n \in S : F[n] = step[n][F]
  <2>1. Descends(S, V, rank, step)
    BY <1>4, <1>5, <1>7 DEF Descends
  <2> QED BY <2>1, Recursion
<1>9. \A n \in S : F[n] = turn(F, n)
  <2> HIDE DEF turn
  <2> QED BY <1>6, <1>8
<1>10. F[0] = a /\ \A n \in 1..N : F[n] = next[n][F[n - 1]]
  BY <1>2, <1>9
<1> QED BY <1>8, <1>10 DEF S, Chains

\* insertAll is a chain of operators <<.
LEMMA InsertAllIs ==
    ASSUME NEW b \in Buffers, NEW parts \in Seq(Fitting)
    PROVE  \E U \in [0..Len(parts) -> Buffers] :
              /\ U[0] = b /\ insertAll(b, parts) = U[Len(parts)]
              /\ \A n \in 1..Len(parts) : U[n] = insert(U[n - 1], parts[n])
<1> DEFINE N == Len(parts)
           turn(f, n) == IF n = 0 THEN b ELSE insert(f[n - 1], parts[n])
           next == [n \in 1..N |-> [c \in Buffers |-> insert(c, parts[n])]]
<1>1. N \in Nat /\ \A n \in 1..N : parts[n] \in Fitting
  OBVIOUS
<1>2. insertAll(b, parts) = (CHOOSE f : f = [n \in 0..N |-> turn(f, n)])[N]
  BY DEF insertAll
<1> HIDE DEF N
<1>3. \A n \in 1..N : \A c \in Buffers : insert(c, parts[n]) \in Buffers
  BY <1>1, InsertIs
<1>4. /\ next \in [1..N -> [Buffers -> Buffers]]
      /\ \A n \in 1..N : \A c \in Buffers : next[n][c] = insert(c, parts[n])
  BY <1>3
<1> HIDE DEF next
<1>5. PICK F \in [0..N -> Buffers] : F[0] = b /\ \A n \in 1..N : F[n] = next[n][F[n - 1]]
  <2>1. Chains(N, Buffers, b, next) # {}
    BY <1>1, <1>4, Chain
  <2> QED BY <2>1 DEF Chains
<1>6. \A n \in 0..N : F[n] = turn(F, n)
  <2> SUFFICES ASSUME NEW n \in 0..N PROVE F[n] = turn(F, n)
      OBVIOUS
  <2>1. CASE n = 0
    BY <1>5, <2>1
  <2>2. CASE n # 0
    <3>1. n \in 1..N /\ n - 1 \in 0..N
      BY <1>1, <2>2
    <3>2. F[n - 1] \in Buffers
      BY <1>5, <3>1
    <3>3. F[n] = insert(F[n - 1], parts[n])
      BY <1>4, <1>5, <3>1, <3>2
    <3> QED BY <2>2, <3>3
  <2> QED BY <2>1, <2>2
<1> DEFINE H == CHOOSE f : f = [n \in 0..N |-> turn(f, n)]
<1>7. H = [n \in 0..N |-> turn(H, n)]
  <2>1. F = [n \in 0..N |-> F[n]]
    BY <1>5
  <2> HIDE DEF turn
  <2>2. F = [n \in 0..N |-> turn(F, n)]
    BY <1>6, <2>1
  <2> QED BY <2>2
<1>8. insertAll(b, parts) = H[N]
  BY <1>2
<1> HIDE DEF H
<1>9. \A n \in 0..N : H[n] = turn(H, n)
  <2> HIDE DEF turn
  <2> QED BY <1>7
<1>10. H[0] = b /\ \A n \in 1..N : H[n] = insert(H[n - 1], parts[n])
  <2>1. 0 \in 0..N /\ \A n \in 1..N : n \in 0..N /\ n # 0
    BY <1>1
  <2> QED BY <1>9, <2>1
<1> DEFINE S == {n \in 0..N : H[n] \in Buffers}
<1>11. 0 \in S /\ \A n \in 1..N : n - 1 \in S => n \in S
  <2>1. 0 \in 0..N /\ \A n \in 1..N : n \in 0..N
    BY <1>1
  <2> QED BY <1>3, <1>10, <2>1
<1> HIDE DEF S
<1>12. \A n \in 0..N : n \in S
  BY <1>1, <1>11, Upwards
<1>13. H \in [0..N -> Buffers]
  <2>1. \A n \in 0..N : H[n] \in Buffers
    BY <1>12 DEF S
  <2>2. H = [n \in 0..N |-> H[n]]
    BY <1>7
  <2> QED BY <2>1, <2>2
<1> QED BY <1>8, <1>10, <1>13 DEF N

\* The line is a chain of extensions.
LEMMA LineIs ==
    ASSUME NEW parts \in Seq(Fitting)
    PROVE  \E U \in [0..Len(parts) -> Seq(Char)] :
              /\ U[0] = <<>> /\ Line(parts) = U[Len(parts)]
              /\ \A n \in 1..Len(parts) : U[n] = Extended(U[n - 1], parts[n])
<1> DEFINE N == Len(parts)
           V == Seq(Char)
           turn(f, n) == IF n = 0 THEN <<>> ELSE Extended(f[n - 1], parts[n])
           next == [n \in 1..N |-> [c \in V |-> Extended(c, parts[n])]]
<1>1. N \in Nat /\ \A n \in 1..N : parts[n] \in Fitting
  OBVIOUS
<1>2. Line(parts) = (CHOOSE f : f = [n \in 0..N |-> turn(f, n)])[N]
  BY DEF Line, Extended
<1>3. \A n \in 1..N : \A c \in V : Extended(c, parts[n]) \in V
  <2> SUFFICES ASSUME NEW n \in 1..N, NEW c \in V PROVE Extended(c, parts[n]) \in V
      OBVIOUS
  <2>1. Rendered(parts[n]) \in V
    BY <1>1, RenderedIs
  <2>2. c \o Rendered(parts[n]) \in V
    BY <2>1, Joined
  <2> QED BY <2>2 DEF Extended
<1>4. <<>> \in V
  OBVIOUS
<1> HIDE DEF N, V
<1>5. /\ next \in [1..N -> [V -> V]]
      /\ \A n \in 1..N : \A c \in V : next[n][c] = Extended(c, parts[n])
  BY <1>3
<1> HIDE DEF next
<1>6. PICK F \in [0..N -> V] : F[0] = <<>> /\ \A n \in 1..N : F[n] = next[n][F[n - 1]]
  <2>1. Chains(N, V, <<>>, next) # {}
    BY <1>1, <1>4, <1>5, Chain
  <2> QED BY <2>1 DEF Chains
<1>7. \A n \in 0..N : F[n] = turn(F, n)
  <2> SUFFICES ASSUME NEW n \in 0..N PROVE F[n] = turn(F, n)
      OBVIOUS
  <2>1. CASE n = 0
    BY <1>6, <2>1
  <2>2. CASE n # 0
    <3>1. n \in 1..N /\ n - 1 \in 0..N
      BY <1>1, <2>2
    <3>2. F[n - 1] \in V
      BY <1>6, <3>1
    <3>3. F[n] = Extended(F[n - 1], parts[n])
      BY <1>5, <1>6, <3>1, <3>2
    <3> QED BY <2>2, <3>3
  <2> QED BY <2>1, <2>2
<1> DEFINE H == CHOOSE f : f = [n \in 0..N |-> turn(f, n)]
<1>8. H = [n \in 0..N |-> turn(H, n)]
  <2>1. F = [n \in 0..N |-> F[n]]
    BY <1>6
  <2> HIDE DEF turn
  <2>2. F = [n \in 0..N |-> turn(F, n)]
    BY <1>7, <2>1
  <2> QED BY <2>2
<1>9. Line(parts) = H[N]
  BY <1>2
<1> HIDE DEF H
<1>10. \A n \in 0..N : H[n] = turn(H, n)
  <2> HIDE DEF turn
  <2> QED BY <1>8
<1>11. 0 \in 0..N /\ \A n \in 1..N : n \in 0..N /\ n # 0
  BY <1>1
<1>12. H[0] = <<>> /\ \A n \in 1..N : H[n] = Extended(H[n - 1], parts[n])
  BY <1>10, <1>11
<1> DEFINE S == {n \in 0..N : H[n] \in V}
<1>13. 0 \in S /\ \A n \in 1..N : n - 1 \in S => n \in S
  BY <1>3, <1>4, <1>11, <1>12
<1> HIDE DEF S
<1>14. \A n \in 0..N : n \in S
  BY <1>1, <1>13, Upwards
<1>15. H \in [0..N -> V]
  <2>1. \A n \in 0..N : H[n] \in V
    BY <1>14 DEF S
  <2>2. H = [n \in 0..N |-> H[n]]
    BY <1>8
  <2> QED BY <2>1, <2>2
<1> QED BY <1>9, <1>12, <1>15 DEF N, V

\* Parts inserted into an exact line make an exact line.
LEMMA Prolonged ==
    ASSUME NEW b \in Buffers, NEW done \in Seq(Fitting), NEW parts \in Seq(Fitting),
           b.text = Line(done)
    PROVE  /\ insertAll(b, parts) \in Buffers
           /\ insertAll(b, parts).text = Line(done \o parts)
<1> DEFINE N == Len(done)
           M == Len(parts)
           all == done \o parts
<1>1. /\ N \in Nat /\ M \in Nat /\ all \in Seq(Fitting) /\ Len(all) = N + M
      /\ \A n \in 1..N : all[n] = done[n]
      /\ \A k \in 1..M : all[N + k] = parts[k]
      /\ \A k \in 1..M : parts[k] \in Fitting
  OBVIOUS
<1>2. PICK U \in [0..M -> Buffers] :
         /\ U[0] = b /\ insertAll(b, parts) = U[M]
         /\ \A n \in 1..M : U[n] = insert(U[n - 1], parts[n])
  BY InsertAllIs
<1>3. PICK L \in [0..N -> Seq(Char)] :
         /\ L[0] = <<>> /\ Line(done) = L[N]
         /\ \A n \in 1..N : L[n] = Extended(L[n - 1], done[n])
  BY LineIs
<1> HIDE DEF all
<1>4. PICK W \in [0..Len(all) -> Seq(Char)] :
         /\ W[0] = <<>> /\ Line(all) = W[Len(all)]
         /\ \A n \in 1..Len(all) : W[n] = Extended(W[n - 1], all[n])
  BY <1>1, LineIs
<1> HIDE DEF N, M
<1>5. \A n \in 0..N : W[n] = L[n]
  <2> DEFINE S == {n \in Nat : W[n] = L[n]}
  <2>1. 0 \in S
    BY <1>3, <1>4
  <2>2. ASSUME NEW n \in 1..N, n - 1 \in S PROVE n \in S
    <3>1. n \in 1..Len(all) /\ n \in Nat
      BY <1>1
    <3>2. W[n] = Extended(W[n - 1], all[n]) /\ L[n] = Extended(L[n - 1], done[n])
      BY <1>3, <1>4, <3>1
    <3> QED BY <1>1, <2>2, <3>1, <3>2
  <2>3. \A n \in 1..N : n - 1 \in S => n \in S
    BY <2>2
  <2> HIDE DEF S
  <2>4. \A n \in 0..N : n \in S
    BY <1>1, <2>1, <2>3, Upwards
  <2> QED BY <2>4 DEF S
<1>6. \A k \in 0..M : W[N + k] = U[k].text
  <2> DEFINE S == {k \in Nat : W[N + k] = U[k].text}
  <2>1. 0 \in S
    <3>1. N \in 0..N /\ N + 0 = N
      BY <1>1
    <3>2. W[N] = b.text
      BY <1>3, <1>5, <3>1
    <3> QED BY <1>2, <3>1, <3>2
  <2>2. ASSUME NEW k \in 1..M, k - 1 \in S PROVE k \in S
    <3>1. /\ N + k \in 1..Len(all) /\ (N + k) - 1 = N + (k - 1) /\ k \in Nat
          /\ k - 1 \in 0..M
      <4>1. N \in Nat /\ M \in Nat /\ Len(all) = N + M
        BY <1>1
      <4> QED BY <4>1
    <3>2. W[N + k] = Extended(W[N + (k - 1)], parts[k])
      BY <1>1, <1>4, <3>1
    <3>3. U[k - 1] \in Buffers /\ U[k] = insert(U[k - 1], parts[k]) /\ parts[k] \in Fitting
      BY <1>1, <1>2, <3>1
    <3>4. U[k].text = Extended(U[k - 1].text, parts[k])
      BY <3>3, InsertIs
    <3>5. W[N + (k - 1)] = U[k - 1].text
      BY <2>2
    <3> QED BY <3>1, <3>2, <3>4, <3>5
  <2>3. \A k \in 1..M : k - 1 \in S => k \in S
    BY <2>2
  <2> HIDE DEF S
  <2>4. \A k \in 0..M : k \in S
    BY <1>1, <2>1, <2>3, Upwards
  <2> QED BY <2>4 DEF S
<1>7. M \in 0..M
  BY <1>1
<1>8. insertAll(b, parts) \in Buffers
  BY <1>2, <1>7
<1>9. insertAll(b, parts).text = Line(all)
  BY <1>1, <1>2, <1>4, <1>6, <1>7
<1> QED BY <1>8, <1>9 DEF all

-----------------------------------------------------------------------------
(* Logging: the line *)

\* The inductive invariant: the buffer is within its size and holds the line of
\* the parts, all of which kMaxNumericSize is room for.
LineInv == /\ m_stream \in Buffers /\ wanted \in Seq(Fitting)
           /\ m_stream.text = Line(wanted)

\* A new Logger begins with an empty line.
LEMMA EmptyLine == EmptyBuffer \in Buffers /\ <<>> \in Seq(Fitting) /\ EmptyBuffer.text = Line(<<>>)
<1>1. <<>> \in Seq(Fitting) /\ Len(<<>>) = 0 /\ <<>> \in Seq(Char)
  OBVIOUS
<1>2. Line(<<>>) = <<>>
  BY <1>1, LineIs
<1>3. EmptyBuffer \in Buffers
  BY <1>1, BoundAssumption DEF EmptyBuffer, Buffers
<1> QED BY <1>1, <1>2, <1>3 DEF EmptyBuffer

\* The parts the Logger inserts itself.
LEMMA OwnParts ==
    ASSUME NEW s \in Seq(Own), NEW n \in {4, 7}
    PROVE  Text(s) \in Fitting /\ Integer(n) \in Fitting
<1>1. s \in Seq(Char)
  <2>1. Own \subseteq Char
    BY DEF Char
  <2> QED BY <2>1, Wider
<1>2. Text(s) \in Fitting
  BY <1>1 DEF Text, Fitting, Fits
<1>3. Fits(Integer(n))
  BY PartsAssumption
<1>4. Integer(n) \in Fitting
  <2>1. <<>> \in Seq(Char)
    OBVIOUS
  <2> QED BY <1>3, <2>1 DEF Integer, Fitting
<1> QED BY <1>2, <1>4

\* The parts of the program fit.
LEMMA ProgramParts == Parts \subseteq Fitting
<1> SUFFICES ASSUME NEW part \in Parts PROVE part \in Fitting
    OBVIOUS
<1>1. part \in Part /\ Fits(part)
  BY PartsAssumption
<1>2. /\ part = [kind |-> part.kind, text |-> part.text, number |-> part.number]
      /\ part.kind \in {"text", "integer", "pointer", "double"}
      /\ part.text \in Seq(STRING) /\ part.number \in Int
  BY <1>1 DEF Part
<1>3. part.text \in Seq(Char)
  <2>1. STRING \subseteq Char
    BY DEF Char
  <2> QED BY <1>2, <2>1, Wider
<1> QED BY <1>1, <1>2, <1>3 DEF Fitting

\* Every action that writes preserves the invariant.
LEMMA Writes ==
    ASSUME LineInv, NEW parts \in Seq(Fitting), Write(parts)
    PROVE  LineInv'
<1>1. insertAll(m_stream, parts) \in Buffers /\ insertAll(m_stream, parts).text = Line(wanted \o parts)
  BY Prolonged DEF LineInv
<1>2. wanted \o parts \in Seq(Fitting)
  BY Joined DEF LineInv
<1> QED BY <1>1, <1>2 DEF LineInv, Write

\* The invariant holds in every reachable state.
LEMMA LineInvHolds == Spec => []LineInv
<1>1. Init => LineInv
  BY EmptyLine DEF Init, LineInv
<1>2. LineInv /\ [Next]_vars => LineInv'
  <2> SUFFICES ASSUME LineInv, [Next]_vars PROVE LineInv'
      OBVIOUS
  <2>1. CASE UNCHANGED streamVars
    BY <2>1 DEF LineInv, streamVars
  <2>2. ASSUME NEW level \in Levels, log(level) PROVE LineInv'
    BY <2>2, EmptyLine DEF log, LineInv
  <2>3. CASE prefix
    <3>1. PICK savedErrno \in IF m_level >= ERROR THEN {0, 4} ELSE {0} :
             Write(<<Text(<<"time">>),
                     Text(IF g_logTimeZone THEN <<"us">> ELSE <<"us", "Z">>),
                     Text(<<"tid">>), Text(<<"level">>)>>
                   \o IF savedErrno = 0 THEN <<>>
                      ELSE <<Text(<<"strerror">>), Text(<<"(errno=">>),
                             Integer(savedErrno), Text(<<")">>)>>)
      BY <2>3 DEF prefix
    <3> DEFINE zone == IF g_logTimeZone THEN <<"us">> ELSE <<"us", "Z">>
               head == <<Text(<<"time">>), Text(zone), Text(<<"tid">>), Text(<<"level">>)>>
               error == IF savedErrno = 0 THEN <<>>
                        ELSE <<Text(<<"strerror">>), Text(<<"(errno=">>),
                               Integer(savedErrno), Text(<<")">>)>>
    <3>2. savedErrno \in {0, 4}
      BY <3>1
    <3>3. /\ <<"time">> \in Seq(Own) /\ zone \in Seq(Own) /\ <<"tid">> \in Seq(Own)
          /\ <<"level">> \in Seq(Own) /\ <<"strerror">> \in Seq(Own)
          /\ <<"(errno=">> \in Seq(Own) /\ <<")">> \in Seq(Own)
      <4>1. /\ "time" \in Own /\ "us" \in Own /\ "Z" \in Own /\ "tid" \in Own /\ "level" \in Own
            /\ "strerror" \in Own /\ "(errno=" \in Own /\ ")" \in Own
        BY DEF Own
      <4>2. <<"us">> \in Seq(Own) /\ <<"us", "Z">> \in Seq(Own)
        BY <4>1
      <4>3. zone \in Seq(Own)
        BY <4>2
      <4> HIDE DEF zone
      <4> QED BY <4>1, <4>3
    <3> HIDE DEF zone
    <3>4. head \in Seq(Fitting)
      <4>1. /\ Text(<<"time">>) \in Fitting /\ Text(zone) \in Fitting
            /\ Text(<<"tid">>) \in Fitting /\ Text(<<"level">>) \in Fitting
        BY <3>3, OwnParts
      <4> QED BY <4>1
    <3>5. error \in Seq(Fitting)
      <4>1. CASE savedErrno = 0
        BY <4>1
      <4>2. CASE savedErrno = 4
        <5>1. /\ Text(<<"strerror">>) \in Fitting /\ Text(<<"(errno=">>) \in Fitting
              /\ Integer(savedErrno) \in Fitting /\ Text(<<")">>) \in Fitting
          BY <3>3, <4>2, OwnParts
        <5> QED BY <4>2, <5>1
      <4> QED BY <3>2, <4>1, <4>2
    <3>6. Write(head \o error)
      BY <3>1 DEF zone
    <3> HIDE DEF head, error
    <3>7. head \o error \in Seq(Fitting)
      BY <3>4, <3>5, Joined
    <3> QED BY <3>6, <3>7, Writes
  <2>4. CASE insertPart
    <3>1. PICK part \in Parts : Write(<<part>>)
      BY <2>4 DEF insertPart
    <3>2. <<part>> \in Seq(Fitting)
      BY ProgramParts
    <3> QED BY <3>1, <3>2, Writes
  <2>5. CASE finish
    <3> DEFINE tail == <<Text(<<"dash">>), Text(<<"file">>), Text(<<":">>), Integer(7), Text(<<"\n">>)>>
    <3>1. Write(tail)
      BY <2>5 DEF finish
    <3>2. /\ <<"dash">> \in Seq(Own) /\ <<"file">> \in Seq(Own)
          /\ <<":">> \in Seq(Own) /\ <<"\n">> \in Seq(Own)
      BY DEF Own
    <3>3. /\ Text(<<"dash">>) \in Fitting /\ Text(<<"file">>) \in Fitting
          /\ Text(<<":">>) \in Fitting /\ Integer(7) \in Fitting /\ Text(<<"\n">>) \in Fitting
      BY <3>2, OwnParts
    <3>4. tail \in Seq(Fitting)
      BY <3>3
    <3> HIDE DEF tail
    <3> QED BY <3>1, <3>4, Writes
  <2> QED BY <2>1, <2>2, <2>3, <2>4, <2>5
        DEF Next, vars, Tick, setLogLevel, setTimeZone, fork, format, streamVars
<1> QED BY <1>1, <1>2, PTL DEF Spec

\* Whatever is inserted, no conversion writes behind the end of the buffer, as
\* long as kMaxNumericSize is room for the numbers.
THEOREM NothingOverrun == Spec => []NoOverrun
<1>1. LineInv => NoOverrun
  BY DEF LineInv, Buffers, NoOverrun
<1> QED BY <1>1, LineInvHolds, PTL

\* Whatever is inserted, the line is its parts in order, each in full or left
\* out: the two loops of convert and convertHex produce the positional numeral
\* of every number.
THEOREM LinesAreExact == Spec => []LineExact
<1>1. LineInv => LineExact
  BY DEF LineInv, LineExact
<1> QED BY <1>1, LineInvHolds, PTL
=============================================================================
