------------------------------ MODULE TimeProofs ------------------------------
(***************************************************************************)
(* The time stamps follow the calendar, for every day before and after the *)
(* epoch, and whatever the lengths of a second, a minute, an hour and a    *)
(* day.  A day is described by the year that starts in March, the month    *)
(* counted from March and the day of the month (IsDate): the description   *)
(* is unique (DateUnique), from gives it (DateFound), and that of the next *)
(* day is the next day of the calendar (NextDate).  The time of the day is *)
(* a counter whose digits carry (Carry).                                   *)
(***************************************************************************)
EXTENDS Time, TLAPS

-----------------------------------------------------------------------------
(* Division by numbers that are not known.                                 *)

\* A product is not less than a factor that is multiplied by one or more.
LEMMA Grows ==
  ASSUME NEW b \in Nat \ {0}, NEW d \in Nat \ {0}
  PROVE  b * d \in Nat /\ b * d >= b
<1>1. b * d \in Nat
  BY SMT
<1>2. b * d = b + b * (d - 1)
  BY SMT
<1>3. b * (d - 1) \in Nat
  BY SMT
<1> QED
  BY <1>1, <1>2, <1>3, SMT

\* What quotient and remainder are.
LEMMA DivMod ==
  ASSUME NEW a \in Int, NEW b \in Nat \ {0}
  PROVE  /\ a \div b \in Int /\ a % b \in Int
         /\ a % b >= 0 /\ a % b < b
         /\ a = b * (a \div b) + (a % b)
  BY SMT

\* Nothing else is the quotient and the remainder.
LEMMA DivUnique ==
  ASSUME NEW a \in Int, NEW b \in Nat \ {0}, NEW q \in Int, NEW r \in Int,
         a = b * q + r, 0 <= r, r < b
  PROVE  a \div b = q /\ a % b = r
<1> DEFINE p == a \div b
           s == a % b
<1>1. p \in Int /\ s \in Int /\ 0 <= s /\ s < b /\ a = b * p + s
  BY DivMod
<1> HIDE DEF p, s
<1>2. b * (q - p) = s - r
  <2>1. b * (q - p) = b * q - b * p
    BY <1>1, SMT
  <2> QED
    BY <1>1, <2>1, SMT
<1>3. ~(q - p >= 1)
  <2> SUFFICES ASSUME q - p \in Nat \ {0} PROVE FALSE
    BY <1>1, SMT
  <2>1. b * (q - p) >= b
    BY <1>1, Grows
  <2> QED
    BY <1>1, <1>2, <2>1, SMT
<1>4. ~(p - q >= 1)
  <2> SUFFICES ASSUME p - q \in Nat \ {0} PROVE FALSE
    BY <1>1, SMT
  <2>1. b * (p - q) >= b
    BY <1>1, Grows
  <2>2. b * (p - q) = r - s
    BY <1>1, <1>2, SMT
  <2> QED
    BY <1>1, <2>1, <2>2, SMT
<1>5. p = q /\ s = r
  BY <1>1, <1>2, <1>3, <1>4, SMT
<1> QED
  BY <1>5 DEF p, s

\* What division by b and by c has to do with division by b * c.
Splits(a, b, c) ==
  /\ b * c \in Nat \ {0}
  /\ a \div (b * c) = (a \div b) \div c
  /\ (a % (b * c)) % b = a % b
  /\ (a % (b * c)) \div b = (a \div b) % c

\* To divide by a product is to divide twice.
LEMMA DivDiv ==
  ASSUME NEW a \in Int, NEW b \in Nat \ {0}, NEW c \in Nat \ {0}
  PROVE  Splits(a, b, c)
<1> DEFINE k == a \div b
           s == a % b
           p == k \div c
           q == k % c
<1>1. k \in Int /\ s \in Int /\ 0 <= s /\ s < b /\ a = b * k + s
  BY DivMod
<1>2. p \in Int /\ q \in Int /\ 0 <= q /\ q < c /\ k = c * p + q
  BY <1>1, DivMod
<1> HIDE DEF k, s, p, q
<1> DEFINE r == b * q + s
<1>3. b * c \in Nat \ {0}
  <2>1. b * c >= b /\ b * c \in Nat
    BY Grows
  <2> QED
    BY <2>1
<1>4. a = (b * c) * p + r
  <2>1. b * k = b * (c * p) + b * q
    BY <1>1, <1>2, SMT
  <2>2. b * (c * p) = (b * c) * p
    BY <1>2, SMT
  <2> QED
    BY <1>1, <1>2, <1>3, <2>1, <2>2, SMT
<1>5. r \in Int /\ 0 <= r /\ r < b * c
  <2>1. b * q \in Nat
    BY <1>2, SMT
  <2>2. b * (c - q) >= b
    BY <1>2, Grows
  <2>3. b * (c - q) = b * c - b * q
    BY <1>2, SMT
  <2> QED
    BY <1>1, <1>3, <2>1, <2>2, <2>3, SMT
<1> HIDE DEF r
<1>6. a \div (b * c) = p /\ a % (b * c) = r
  BY <1>2, <1>3, <1>4, <1>5, DivUnique
<1>7. r = b * q + s
  BY DEF r
<1>8. r \div b = q /\ r % b = s
  BY <1>1, <1>2, <1>5, <1>7, DivUnique
<1> QED
  BY <1>3, <1>6, <1>8 DEF Splits, k, s, p, q

\* The digit that stands for b units counts on, and carries when it is full.
Carries(a, b) ==
  /\ (a % b) + 1 < b => (a + 1) \div b = a \div b /\ (a + 1) % b = (a % b) + 1
  /\ ~ ((a % b) + 1 < b) => (a + 1) \div b = (a \div b) + 1 /\ (a + 1) % b = 0

\* What counting on does to a digit and to the number above it.
LEMMA Carry ==
  ASSUME NEW a \in Int, NEW b \in Nat \ {0}
  PROVE  Carries(a, b)
<1> DEFINE k == a \div b
           s == a % b
<1>1. k \in Int /\ s \in Int /\ 0 <= s /\ s < b /\ a = b * k + s
  BY DivMod
<1> HIDE DEF k, s
<1>2. a + 1 \in Int /\ k + 1 \in Int /\ s + 1 \in Int
  BY <1>1
<1>3. CASE s + 1 < b
  <2>1. a + 1 = b * k + (s + 1) /\ 0 <= s + 1
    BY <1>1, SMT
  <2>2. (a + 1) \div b = k /\ (a + 1) % b = s + 1
    BY <1>1, <1>2, <1>3, <2>1, DivUnique
  <2> QED
    BY <1>3, <2>2 DEF Carries, k, s
<1>4. CASE ~ (s + 1 < b)
  <2>1. a + 1 = b * (k + 1) + 0
    <3>1. b * (k + 1) = b * k + b
      BY <1>1, SMT
    <3>2. s + 1 = b
      BY <1>1, <1>4, SMT
    <3>3. b * k \in Int
      BY <1>1
    <3> QED
      BY <1>1, <3>1, <3>2, <3>3, SMT
  <2>2. (a + 1) \div b = k + 1 /\ (a + 1) % b = 0
    BY <1>2, <2>1, DivUnique
  <2> QED
    BY <1>4, <2>2 DEF Carries, k, s
<1> QED
  BY <1>3, <1>4 DEF Carries, k, s

\* With its correction, the division that rounds to zero is the one that rounds down
\* (time.rs:60-82).
LEMMA FlooredIs ==
  ASSUME NEW a \in Int, NEW b \in Nat \ {0}
  PROVE  Floored(a, b) = [quotient |-> a \div b, remainder |-> a % b]
<1> DEFINE k == a \div b
           s == a % b
           p == (-a) \div b
           q == (-a) % b
<1>1. k \in Int /\ s \in Int /\ 0 <= s /\ s < b /\ a = b * k + s
  BY DivMod
<1>2. p \in Int /\ q \in Int /\ 0 <= q /\ q < b /\ -a = b * p + q
  BY DivMod
<1> HIDE DEF k, s, p, q
<1>3. Quotient(a, b) = IF a < 0 THEN -p ELSE k
  BY DEF Quotient, k, p
<1>4. CASE a < 0
  <2>1. Quotient(a, b) = -p /\ Remainder(a, b) = -q
    <3>1. b * (-p) = -(b * p) /\ b * p \in Int
      BY <1>2, SMT
    <3> QED
      BY <1>2, <1>3, <1>4, <3>1 DEF Remainder
  <2>2. CASE q = 0
    <3>1. a = b * (-p) + 0
      <4>1. b * (-p) = -(b * p) /\ b * p \in Int
        BY <1>2, SMT
      <4> QED
        BY <1>2, <2>2, <4>1, SMT
    <3>2. k = -p /\ s = 0
      BY <1>2, <3>1, DivUnique DEF k, s
    <3> QED
      BY <1>1, <1>2, <2>1, <2>2, <3>2 DEF Floored, k, s
  <2>3. CASE q # 0
    <3>1. a = b * ((-p) - 1) + (b - q)
      <4>1. b * ((-p) - 1) = -(b * p) - b /\ b * p \in Int
        BY <1>2, SMT
      <4> QED
        BY <1>2, <2>3, <4>1, SMT
    <3>2. k = (-p) - 1 /\ s = b - q
      <4>1. (-p) - 1 \in Int /\ b - q \in Int /\ 0 <= b - q /\ b - q < b
        BY <1>2, <2>3
      <4> QED
        BY <3>1, <4>1, DivUnique DEF k, s
    <3>3. -q < 0 /\ (-q) + b = b - q
      BY <1>2, <2>3
    <3> QED
      BY <2>1, <3>2, <3>3 DEF Floored, k, s
  <2> QED
    BY <2>2, <2>3
<1>5. CASE ~ (a < 0)
  <2>1. Quotient(a, b) = k /\ Remainder(a, b) = s
    <3>1. b * k \in Int
      BY <1>1
    <3> QED
      BY <1>1, <1>3, <1>5, <3>1 DEF Remainder
  <2> QED
    BY <1>1, <2>1 DEF Floored, k, s
<1> QED
  BY <1>4, <1>5

\* Seconds and parts of a second are right before the epoch as well (time.rs:47-58).
LEMMA SinceEpochIs ==
  ASSUME TimeAssumption, NEW n \in Int
  PROVE  SinceEpoch(n) = [t |-> n \div NANOS, nanos |-> n % NANOS]
<1>1. NANOS \in Nat \ {0}
  BY DEF TimeAssumption
<1>2. CASE n >= 0
  BY <1>2 DEF SinceEpoch
<1>3. CASE ~ (n >= 0)
  <2> DEFINE p == (-n) \div NANOS
             q == (-n) % NANOS
  <2>1. p \in Int /\ q \in Int /\ 0 <= q /\ q < NANOS /\ -n = NANOS * p + q
    BY <1>1, DivMod
  <2>2. SinceEpoch(n) = IF q > 0 THEN [t |-> (-p) - 1, nanos |-> NANOS - q] ELSE [t |-> -p, nanos |-> 0]
    BY <1>3 DEF SinceEpoch
  <2> HIDE DEF p, q
  <2>3. NANOS * (-p) = -(NANOS * p) /\ NANOS * p \in Int
    BY <1>1, <2>1, SMT
  <2>4. CASE q > 0
    <3>1. n = NANOS * ((-p) - 1) + (NANOS - q)
      <4>1. NANOS * ((-p) - 1) = -(NANOS * p) - NANOS
        BY <1>1, <2>1, SMT
      <4> QED
        BY <1>1, <2>1, <2>3, <4>1, SMT
    <3>2. (-p) - 1 \in Int /\ NANOS - q \in Int /\ 0 <= NANOS - q /\ NANOS - q < NANOS
      BY <1>1, <2>1, <2>4
    <3>3. n \div NANOS = (-p) - 1 /\ n % NANOS = NANOS - q
      BY <1>1, <3>1, <3>2, DivUnique
    <3> QED
      BY <2>2, <2>4, <3>3
  <2>5. CASE ~ (q > 0)
    <3>1. n = NANOS * (-p) + 0
      BY <1>1, <2>1, <2>3, <2>5, SMT
    <3>2. n \div NANOS = -p /\ n % NANOS = 0
      BY <1>1, <2>1, <3>1, DivUnique
    <3> QED
      BY <2>2, <2>5, <3>2
  <2> QED
    BY <2>4, <2>5
<1> QED
  BY <1>2, <1>3

-----------------------------------------------------------------------------
(* The months, and the years that start in March.                          *)

Table == <<0, 31, 61, 92, 122, 153, 184, 214, 245, 275, 306, 337, 366>>

\* The months, one by one.
LEMMA MonthCases ==
  /\ 0..12 = {0, 1, 2, 3, 4, 5, 6, 7, 8, 9, 10, 11, 12}
  /\ 0..11 = {0, 1, 2, 3, 4, 5, 6, 7, 8, 9, 10, 11}
  BY SMT

\* The table that the recursion defines.
LEMMA DaysBeforeIs ==
  /\ DaysBefore[0] = 0    /\ DaysBefore[1] = 31   /\ DaysBefore[2] = 61
  /\ DaysBefore[3] = 92   /\ DaysBefore[4] = 122  /\ DaysBefore[5] = 153
  /\ DaysBefore[6] = 184  /\ DaysBefore[7] = 214  /\ DaysBefore[8] = 245
  /\ DaysBefore[9] = 275  /\ DaysBefore[10] = 306 /\ DaysBefore[11] = 337
  /\ DaysBefore[12] = 366
<1> DEFINE Step(f, m) == IF m = 0 THEN 0 ELSE f[m - 1] + DAYS_IN_MONTH[m]
           g == [m \in 0..12 |-> Table[m + 1]]
           D == 0..12
<1>1. \A m \in D : g[m] = Step(g, m)
  <2> SUFFICES ASSUME NEW m \in D PROVE g[m] = Step(g, m)
    OBVIOUS
  <2>1. m \in {0, 1, 2, 3, 4, 5, 6, 7, 8, 9, 10, 11, 12}
    BY MonthCases
  <2>2. CASE m = 0
    BY <2>2 DEF Table
  <2>3. CASE m # 0
    <3>1. m - 1 \in 0..12 /\ g[m - 1] = Table[m]
      BY <2>3
    <3>2. Step(g, m) = Table[m] + DAYS_IN_MONTH[m]
      BY <2>3, <3>1
    <3>3. Table[m] + DAYS_IN_MONTH[m] = Table[m + 1]
      BY <2>1, <2>3, SMTT(60) DEF Table, DAYS_IN_MONTH
    <3> QED
      BY <3>2, <3>3
  <2> QED
    BY <2>2, <2>3
<1>2. g = [m \in D |-> g[m]]
  OBVIOUS
<1> HIDE DEF g
<1>3. g = [m \in D |-> Step(g, m)]
  <2> HIDE DEF D, Step
  <2> QED
    BY <1>1, <1>2, Zenon
<1>4. DaysBefore = CHOOSE f : f = [m \in D |-> Step(f, m)]
  BY Zenon DEF DaysBefore
<1>5. DaysBefore = [m \in D |-> Step(DaysBefore, m)]
  <2> HIDE DEF D, Step
  <2> QED
    BY <1>3, <1>4, Zenon
<1> DEFINE e == DaysBefore
<1>6. e = [m \in D |-> Step(e, m)]
  BY <1>5, Zenon
<1> HIDE DEF e
<1>7. e[0] = 0 /\ \A m \in 1..12 : e[m] = e[m - 1] + DAYS_IN_MONTH[m]
  BY <1>6
<1>8. /\ e[1] = 31 /\ e[2] = 61 /\ e[3] = 92 /\ e[4] = 122 /\ e[5] = 153 /\ e[6] = 184
  <2>1. e[1] = e[0] + 31 /\ e[2] = e[1] + 30 /\ e[3] = e[2] + 31
    BY <1>7 DEF DAYS_IN_MONTH
  <2>2. e[4] = e[3] + 30 /\ e[5] = e[4] + 31 /\ e[6] = e[5] + 31
    BY <1>7 DEF DAYS_IN_MONTH
  <2> QED
    BY <1>7, <2>1, <2>2
<1>9. /\ e[7] = 214 /\ e[8] = 245 /\ e[9] = 275 /\ e[10] = 306 /\ e[11] = 337 /\ e[12] = 366
  <2>1. e[7] = e[6] + 30 /\ e[8] = e[7] + 31 /\ e[9] = e[8] + 30
    BY <1>7 DEF DAYS_IN_MONTH
  <2>2. e[10] = e[9] + 31 /\ e[11] = e[10] + 31 /\ e[12] = e[11] + 29
    BY <1>7 DEF DAYS_IN_MONTH
  <2> QED
    BY <1>8, <2>1, <2>2
<1> QED
  BY <1>7, <1>8, <1>9 DEF e

MonthOf(r) == CHOOSE m \in 0..11 : DaysBefore[m] <= r /\ r < DaysBefore[m + 1]

\* Every day of a year lies in a month.
LEMMA MonthFound ==
  ASSUME NEW r \in 0..365
  PROVE  /\ MonthOf(r) \in 0..11
         /\ DaysBefore[MonthOf(r)] <= r /\ r < DaysBefore[MonthOf(r) + 1]
<1> DEFINE P(m) == DaysBefore[m] <= r /\ r < DaysBefore[m + 1]
<1>1. \E m \in 0..11 : P(m)
  <2>1. r \in Int /\ 0 <= r /\ r < 366
    OBVIOUS
  <2>2. \/ P(0) \/ P(1) \/ P(2) \/ P(3) \/ P(4) \/ P(5) \/ P(6) \/ P(7) \/ P(8) \/ P(9) \/ P(10) \/ P(11)
    BY <2>1, DaysBeforeIs, SMTT(60)
  <2> HIDE DEF P
  <2> QED
    BY <2>2, MonthCases
<1> QED
  BY <1>1, Zenon DEF MonthOf

\* The days from 2000-03-01 to the first of March of the y-th year after 2000.
March(y) == 365 * y + (y \div 4) - (y \div 100) + (y \div 400)

\* Day d after 2000-03-01 has r days of its month m before it, of the year y that starts in March.
IsDate(d, y, m, r) ==
  /\ y \in Int /\ m \in 0..11 /\ r \in Nat
  /\ d = March(y) + DaysBefore[m] + r
  /\ DaysBefore[m] + r < DaysBefore[m + 1]
  /\ d < March(y + 1)

\* A year has 366 days if the February at its end has 29.
LEMMA MarchType ==
  ASSUME NEW y \in Int
  PROVE  /\ March(y) \in Int
         /\ IsLeap(y + 2001) => March(y + 1) = March(y) + 366
         /\ ~ IsLeap(y + 2001) => March(y + 1) = March(y) + 365
<1>1. March(y) \in Int
  BY DEF March
<1>2. IsLeap(y + 2001) <=> ((y + 1) % 4 = 0 /\ ((y + 1) % 100 = 0 => (y + 1) % 400 = 0))
  BY DEF IsLeap
<1>3. /\ (y + 1) % 4 = 0 => (y + 1) \div 4 = (y \div 4) + 1
      /\ (y + 1) % 4 # 0 => (y + 1) \div 4 = (y \div 4)
      /\ (y + 1) % 100 = 0 => (y + 1) \div 100 = (y \div 100) + 1
      /\ (y + 1) % 100 # 0 => (y + 1) \div 100 = (y \div 100)
      /\ (y + 1) % 400 = 0 => (y + 1) \div 400 = (y \div 400) + 1
      /\ (y + 1) % 400 # 0 => (y + 1) \div 400 = (y \div 400)
  OBVIOUS
<1>4. /\ (y + 1) % 100 = 0 => (y + 1) % 4 = 0
      /\ (y + 1) % 400 = 0 => (y + 1) % 100 = 0
  OBVIOUS
<1> QED
  BY <1>1, <1>2, <1>3, <1>4 DEF March

\* A year starts no sooner than the one before has ended.
LEMMA MarchGrows ==
  ASSUME NEW y \in Int, NEW z \in Int, y < z
  PROVE  March(y + 1) <= March(z)
  BY SMT DEF March

\* A day lies in one year only.
LEMMA YearUnique ==
  ASSUME NEW d \in Int, NEW y \in Int, NEW z \in Int,
         March(y) <= d, d < March(y + 1), March(z) <= d, d < March(z + 1)
  PROVE  y = z
<1>1. March(y) \in Int /\ March(z) \in Int /\ March(y + 1) \in Int /\ March(z + 1) \in Int
  BY MarchType
<1>2. ~ (y < z)
  <2> SUFFICES ASSUME y < z PROVE FALSE
    OBVIOUS
  <2>1. March(y + 1) <= March(z)
    BY MarchGrows
  <2> QED
    BY <1>1, <2>1
<1>3. ~ (z < y)
  <2> SUFFICES ASSUME z < y PROVE FALSE
    OBVIOUS
  <2>1. March(z + 1) <= March(y)
    BY MarchGrows
  <2> QED
    BY <1>1, <2>1
<1> QED
  BY <1>2, <1>3

-----------------------------------------------------------------------------
(* The cycles of 400, 100 and 4 years.                                     *)

\* The steps of from: what is left of 400 years, of 100 years, of 4 years and of one.
Century(r) == Cycles(r, DAYS_PER_100Y, 3)
Rem100(r) == r - Century(r) * DAYS_PER_100Y
Leap(r) == Cycles(Rem100(r), DAYS_PER_4Y, 24)
Rem4(r) == Rem100(r) - Leap(r) * DAYS_PER_4Y
Year(r) == Cycles(Rem4(r), 365, 3)
RemDays(r) == Rem4(r) - Year(r) * 365
Years(r) == Year(r) + 4 * Leap(r) + 100 * Century(r)

\* The cycles of 400 years taken apart: no digit is too large, and the day that is one too many
\* is at the end of a leap year (time.rs:84-113).
LEMMA YearsBounded ==
  ASSUME NEW r \in Int, 0 <= r, r < 146097
  PROVE  /\ Century(r) \in 0..3 /\ Leap(r) \in 0..24 /\ Year(r) \in 0..3
         /\ RemDays(r) \in 0..365
         /\ r = 36524 * Century(r) + 1461 * Leap(r) + 365 * Year(r) + RemDays(r)
         /\ RemDays(r) = 365 => Year(r) = 3 /\ (Leap(r) = 24 => Century(r) = 3)
<1> DEFINE c == Century(r)
           s == Rem100(r)
           q == Leap(r)
           t == Rem4(r)
           y == Year(r)
           d == RemDays(r)
<1>1. c \in 0..3 /\ s = r - c * 36524 /\ 0 <= s /\ s <= 36524 /\ (c < 3 => s < 36524)
  BY SMT DEF Century, Cycles, DAYS_PER_100Y, Rem100
<1>2. s \in Int
  BY <1>1, SMT
<1> HIDE DEF c, s
<1>3. q \in 0..24 /\ t = s - q * 1461 /\ 0 <= t /\ t <= 1460 /\ (s < 36524 /\ q = 24 => t < 1460)
  <2>1. q = IF s \div 1461 = 25 THEN 24 ELSE s \div 1461
    BY SMT DEF q, Leap, Cycles, DAYS_PER_4Y, s
  <2>2. t = s - q * 1461
    BY SMT DEF t, q, s, Rem4, DAYS_PER_4Y
  <2> HIDE DEF q, t
  <2> QED
    BY <1>1, <1>2, <2>1, <2>2, SMT
<1>4. t \in Int
  BY <1>2, <1>3, SMT
<1> HIDE DEF q, t
<1>5. y \in 0..3 /\ d = t - y * 365 /\ 0 <= d /\ d <= 365 /\ (d = 365 => y = 3 /\ t = 1460)
  <2>1. y = IF t \div 365 = 4 THEN 3 ELSE t \div 365
    BY SMT DEF y, Year, Cycles, t
  <2>2. d = t - y * 365
    BY SMT DEF d, y, t, RemDays
  <2> HIDE DEF y, d
  <2> QED
    BY <1>3, <1>4, <2>1, <2>2, SMT
<1> HIDE DEF y, d
<1>6. d \in Int
  BY <1>4, <1>5, SMT
<1>7. c \in 0..3 /\ q \in 0..24 /\ y \in 0..3 /\ d \in 0..365
  BY <1>1, <1>3, <1>5, <1>6, SMT
<1>8. r = 36524 * c + 1461 * q + 365 * y + d
  BY <1>1, <1>3, <1>5, SMT
<1>9. d = 365 => y = 3 /\ (q = 24 => c = 3)
  BY <1>1, <1>2, <1>3, <1>4, <1>5, <1>6, SMT
<1> QED
  BY <1>7, <1>8, <1>9, SMT DEF c, q, y, d

YearOf(d) == Years(d % DAYS_PER_400Y) + 400 * (d \div DAYS_PER_400Y)
DayOf(d) == RemDays(d % DAYS_PER_400Y)

\* The year that the cycles give is the year of the day.
LEMMA YearFound ==
  ASSUME NEW d \in Int
  PROVE  /\ YearOf(d) \in Int /\ DayOf(d) \in 0..365
         /\ d = March(YearOf(d)) + DayOf(d)
         /\ March(YearOf(d)) <= d /\ d < March(YearOf(d) + 1)
<1> DEFINE r == d % DAYS_PER_400Y
           f == d \div DAYS_PER_400Y
           c == Century(r)
           q == Leap(r)
           y == Year(r)
           m == RemDays(r)
           x == y + 4 * q + 100 * c + 400 * f
<1>1. r \in Int /\ 0 <= r /\ r < 146097 /\ f \in Int /\ d = 146097 * f + r
  BY SMT DEF DAYS_PER_400Y
<1> HIDE DEF r, f
<1>2. /\ c \in 0..3 /\ q \in 0..24 /\ y \in 0..3 /\ m \in 0..365
      /\ r = 36524 * c + 1461 * q + 365 * y + m
      /\ m = 365 => y = 3 /\ (q = 24 => c = 3)
  BY <1>1, YearsBounded
<1>3. Years(r) + 400 * f = x
  <2>1. Years(r) = y + 4 * q + 100 * c
    BY SMT DEF Years
  <2> HIDE DEF c, q, y
  <2> QED
    BY <1>1, <1>2, <2>1, SMT
<1> HIDE DEF c, q, y, m
<1>4. x \in Int
  BY <1>1, <1>2, SMT
<1>5. x \div 4 = q + 25 * c + 100 * f /\ x % 4 = y
  BY <1>1, <1>2, SMT
<1>6. x \div 100 = c + 4 * f /\ x % 100 = y + 4 * q
  BY <1>1, <1>2, SMT
<1>7. x \div 400 = f /\ x % 400 = y + 4 * q + 100 * c
  BY <1>1, <1>2, SMT
<1>8. March(x) = 365 * y + 1461 * q + 36524 * c + 146097 * f
  BY <1>1, <1>2, <1>5, <1>6, <1>7, SMT DEF March
<1>9. d = March(x) + m /\ March(x) \in Int
  BY <1>1, <1>2, <1>8, SMT
<1>10. m = 365 => IsLeap(x + 2001)
  <2> SUFFICES ASSUME m = 365 PROVE IsLeap(x + 2001)
    OBVIOUS
  <2>1. y = 3 /\ (q = 24 => c = 3)
    BY <1>2, SMT
  <2>2. (x + 2001) % 4 = 0
    BY <1>1, <1>2, <2>1, SMT
  <2>3. (x + 2001) % 100 = 0 => q = 24
    BY <1>1, <1>2, <2>1, SMT
  <2>4. q = 24 => (x + 2001) % 400 = 0
    BY <1>1, <1>2, <2>1, SMT
  <2> QED
    BY <2>2, <2>3, <2>4, SMT DEF IsLeap
<1>11. d < March(x + 1)
  <2> HIDE DEF x
  <2>1. March(x + 1) = March(x) + 366 \/ (March(x + 1) = March(x) + 365 /\ m # 365)
    BY <1>4, <1>10, MarchType, SMT
  <2> QED
    BY <1>2, <1>9, <2>1, SMT
<1>12. March(x) <= d
  BY <1>2, <1>9, SMT
<1>13. YearOf(d) = x
  BY <1>3 DEF YearOf, r, f
<1>14. DayOf(d) = m
  BY DEF DayOf, m, r
<1> HIDE DEF x
<1> QED
  BY <1>2, <1>4, <1>9, <1>11, <1>12, <1>13, <1>14, SMT

-----------------------------------------------------------------------------
(* from, by its date and its time of the day.                              *)

\* The year and the month of the calendar, which start in January.
CalendarYear(y, m) == y + 2000 + (IF m >= 10 THEN 1 ELSE 0)
CalendarMonth(m) == m + 2 - (IF m >= 10 THEN 12 ELSE 0)

Moment(year, month, mday, hour, minute, second, nanos) ==
  [year |-> year, month |-> month, mday |-> mday, hour |-> hour, minute |-> minute,
   second |-> second, nanos |-> nanos]

\* A date and a time, from the days since 2000-03-01, the seconds of the day, the parts of the second.
Stamp(y, m, r, h, i, s, nanos) ==
  Moment(CalendarYear(y, m), CalendarMonth(m), r + 1, h, i, s, nanos)

\* from, once the days are known.
Fields(day, nanos) ==
  LET qc == Floored(day.quotient, DAYS_PER_400Y)
      m == MonthOf(RemDays(qc.remainder))
      y == Years(qc.remainder) + 400 * qc.quotient
  IN  [year |-> y + 2000 + (IF m >= 10 THEN 1 ELSE 0),
       month |-> m + 2 - (IF m >= 10 THEN 12 ELSE 0),
       mday |-> RemDays(qc.remainder) - DaysBefore[m] + 1,
       hour |-> day.remainder \div (MINUTES * SECONDS),
       minute |-> (day.remainder \div SECONDS) % MINUTES,
       second |-> day.remainder % SECONDS,
       nanos |-> nanos]

\* from is what Fields says, once the cycles are named.
LEMMA FromFields ==
  ASSUME NEW n
  PROVE  from(n) = Fields(Floored(SinceEpoch(n).t - LEAPOCH, SECS_PER_DAY), SinceEpoch(n).nanos)
BY Zenon DEF from, Fields, MonthOf, RemDays, Years, Year, Rem4, Leap, Rem100, Century

\* The time n in whole seconds, minutes, hours and days.
Sec(n) == n \div NANOS
Min(n) == Sec(n) \div SECONDS
Hour(n) == Min(n) \div MINUTES
Day(n) == Hour(n) \div HOURS

\* The types of all this.
LEMMA Units ==
  ASSUME TimeAssumption, NEW n \in Int
  PROVE  /\ Sec(n) \in Int /\ Min(n) \in Int /\ Hour(n) \in Int /\ Day(n) \in Int
         /\ NANOS \in Nat \ {0} /\ SECONDS \in Nat \ {0} /\ MINUTES \in Nat \ {0} /\ HOURS \in Nat \ {0}
<1>1. NANOS \in Nat \ {0} /\ SECONDS \in Nat \ {0} /\ MINUTES \in Nat \ {0} /\ HOURS \in Nat \ {0}
  BY DEF TimeAssumption
<1>2. Sec(n) \in Int
  BY <1>1, DivMod DEF Sec
<1>3. Min(n) \in Int
  BY <1>1, <1>2, DivMod DEF Min
<1>4. Hour(n) \in Int
  BY <1>1, <1>3, DivMod DEF Hour
<1>5. Day(n) \in Int
  BY <1>1, <1>4, DivMod DEF Day
<1> QED
  BY <1>1, <1>2, <1>3, <1>4, <1>5

\* The time of the day, taken from the seconds of the day, is that of the whole time.
LEMMA ClockIs ==
  ASSUME TimeAssumption, NEW n \in Int
  PROVE  LET r == Sec(n) % SECS_PER_DAY IN
         /\ SECS_PER_DAY \in Nat \ {0} /\ r \in Int
         /\ r % SECONDS = Sec(n) % SECONDS
         /\ (r \div SECONDS) % MINUTES = Min(n) % MINUTES
         /\ r \div (MINUTES * SECONDS) = Hour(n) % HOURS
         /\ Sec(n) \div SECS_PER_DAY = Day(n)
<1> DEFINE s == Sec(n)
           c == MINUTES * HOURS
           b == SECONDS * c
           r == s % b
<1>1. /\ s \in Int /\ Min(n) \in Int
      /\ SECONDS \in Nat \ {0} /\ MINUTES \in Nat \ {0} /\ HOURS \in Nat \ {0}
  BY Units
<1>2. /\ c \in Nat \ {0}
      /\ Min(n) \div c = Hour(n) \div HOURS
      /\ (Min(n) % c) % MINUTES = Min(n) % MINUTES
      /\ (Min(n) % c) \div MINUTES = Hour(n) % HOURS
  <2>1. Splits(Min(n), MINUTES, HOURS)
    BY <1>1, DivDiv
  <2> QED
    BY <2>1 DEF Splits, Hour
<1>3. b = SECS_PER_DAY
  <2>1. HOURS * MINUTES * SECONDS = SECONDS * (MINUTES * HOURS)
    BY <1>1, SMT
  <2> QED
    BY <2>1 DEF SECS_PER_DAY
<1> HIDE DEF c
<1>4. /\ b \in Nat \ {0}
      /\ s \div b = Min(n) \div c
      /\ r % SECONDS = s % SECONDS
      /\ r \div SECONDS = Min(n) % c
  <2>1. Splits(s, SECONDS, c)
    BY <1>1, <1>2, DivDiv
  <2> HIDE DEF s
  <2>2. s \div SECONDS = Min(n)
    BY DEF Min, s
  <2> QED
    BY <2>1, <2>2 DEF Splits
<1> HIDE DEF b
<1>5. r \in Int
  BY <1>1, <1>4, DivMod
<1> HIDE DEF s
<1>6. r \div (MINUTES * SECONDS) = (r \div SECONDS) \div MINUTES
  <2> HIDE DEF r
  <2>1. r \div (SECONDS * MINUTES) = (r \div SECONDS) \div MINUTES
    <3>1. Splits(r, SECONDS, MINUTES)
      BY <1>1, <1>5, DivDiv
    <3> QED
      BY <3>1 DEF Splits
  <2>2. SECONDS * MINUTES = MINUTES * SECONDS
    BY <1>1, SMT
  <2> QED
    BY <2>1, <2>2
<1>7. /\ r % SECONDS = s % SECONDS
      /\ (r \div SECONDS) % MINUTES = Min(n) % MINUTES
      /\ r \div (MINUTES * SECONDS) = Hour(n) % HOURS
      /\ s \div b = Day(n)
  BY <1>2, <1>4, <1>6, Zenon DEF Day
<1> QED
  BY <1>3, <1>4, <1>5, <1>7, Zenon DEF s

\* The day of n, counted from 2000-03-01.
Since2000(n) == Day(n) - 11017

DateAt(d, h, i, s, nanos) ==
  LET m == MonthOf(DayOf(d)) IN Stamp(YearOf(d), m, DayOf(d) - DaysBefore[m], h, i, s, nanos)

\* from gives the year, month and day of the days, and the digits of the time of the day.
LEMMA FromIs ==
  ASSUME TimeAssumption, NEW n \in Int
  PROVE  from(n) = DateAt(Since2000(n), Hour(n) % HOURS, Min(n) % MINUTES, Sec(n) % SECONDS, n % NANOS)
<1> DEFINE s == Sec(n)
           b == SECS_PER_DAY
           r == s % b
           d == Since2000(n)
<1>1. /\ b \in Nat \ {0} /\ r \in Int
      /\ r % SECONDS = s % SECONDS
      /\ (r \div SECONDS) % MINUTES = Min(n) % MINUTES
      /\ r \div (MINUTES * SECONDS) = Hour(n) % HOURS
      /\ s \div b = Day(n)
  BY ClockIs
<1>2. SinceEpoch(n) = [t |-> s, nanos |-> n % NANOS]
  BY SinceEpochIs DEF Sec
<1>3. s \in Int /\ Day(n) \in Int /\ d \in Int
  BY Units DEF Since2000
<1> HIDE DEF s, b
<1>4. LEAPOCH = b * 11017
  BY SMT DEF LEAPOCH, b
<1>5. s - LEAPOCH = b * d + r /\ s - LEAPOCH \in Int
  <2>1. s = b * (s \div b) + r
    BY <1>1, <1>3, DivMod
  <2>2. s \div b = d + 11017
    BY <1>1, <1>3, SMT DEF Since2000
  <2>3. b * (d + 11017) = b * d + b * 11017
    BY <1>1, <1>3, SMT
  <2>4. b * d \in Int /\ b * 11017 \in Int
    BY <1>1, <1>3, SMT
  <2> HIDE DEF r, d
  <2> QED
    BY <1>1, <1>3, <1>4, <2>1, <2>2, <2>3, <2>4, SMT
<1>6. 0 <= r /\ r < b
  BY <1>1, <1>3, DivMod
<1>7. Floored(s - LEAPOCH, b) = [quotient |-> d, remainder |-> r]
  <2> HIDE DEF r, d
  <2>1. (s - LEAPOCH) \div b = d /\ (s - LEAPOCH) % b = r
    BY <1>1, <1>3, <1>5, <1>6, DivUnique
  <2> QED
    BY <1>1, <1>5, <2>1, FlooredIs
<1>8. Floored(d, DAYS_PER_400Y) = [quotient |-> d \div DAYS_PER_400Y, remainder |-> d % DAYS_PER_400Y]
  <2>1. DAYS_PER_400Y \in Nat \ {0}
    BY SMT DEF DAYS_PER_400Y
  <2> QED
    BY <1>3, <2>1, FlooredIs
<1> DEFINE f == [quotient |-> d, remainder |-> r]
<1>9. f.quotient = d /\ f.remainder = r
  OBVIOUS
<1>10. from(n) = Fields(f, n % NANOS)
  BY <1>2, <1>7, FromFields DEF b
<1> HIDE DEF f, r, d
<1>11. DayOf(d) = RemDays(Floored(d, DAYS_PER_400Y).remainder)
  BY <1>8 DEF DayOf
<1>12. YearOf(d) = Years(Floored(d, DAYS_PER_400Y).remainder) + 400 * Floored(d, DAYS_PER_400Y).quotient
  BY <1>8 DEF YearOf
<1>13. Fields(f, n % NANOS) =
         DateAt(d, r \div (MINUTES * SECONDS), (r \div SECONDS) % MINUTES, r % SECONDS, n % NANOS)
  BY <1>9, <1>11, <1>12, SMT DEF Fields, DateAt, Stamp, Moment, CalendarYear, CalendarMonth
<1> QED
  BY <1>1, <1>10, <1>13, Zenon DEF d, s

-----------------------------------------------------------------------------
(* The day after a date.                                                   *)

\* Months follow one another and end within the year.
LEMMA MonthBounds ==
  \A m \in 0..11 :
    /\ DaysBefore[m] \in Nat /\ DaysBefore[m + 1] \in Nat
    /\ DaysBefore[m] < DaysBefore[m + 1] /\ DaysBefore[m + 1] <= 366
    /\ m # 11 => DaysBefore[m + 1] <= 337
    /\ \A k \in 0..11 : m < k => DaysBefore[m + 1] <= DaysBefore[k]
<1> SUFFICES ASSUME NEW m \in 0..11
             PROVE  /\ DaysBefore[m] \in Nat /\ DaysBefore[m + 1] \in Nat
                    /\ DaysBefore[m] < DaysBefore[m + 1] /\ DaysBefore[m + 1] <= 366
                    /\ m # 11 => DaysBefore[m + 1] <= 337
                    /\ \A k \in 0..11 : m < k => DaysBefore[m + 1] <= DaysBefore[k]
  OBVIOUS
<1>0. m \in {0, 1, 2, 3, 4, 5, 6, 7, 8, 9, 10, 11}
  BY MonthCases
<1>1. /\ DaysBefore[m] \in Nat /\ DaysBefore[m + 1] \in Nat
      /\ DaysBefore[m] < DaysBefore[m + 1] /\ DaysBefore[m + 1] <= 366
      /\ m # 11 => DaysBefore[m + 1] <= 337
  BY <1>0, DaysBeforeIs, SMTT(30)
<1>2. ASSUME NEW k \in 0..11, m < k
      PROVE  DaysBefore[m + 1] <= DaysBefore[k]
  <2>1. k \in {0, 1, 2, 3, 4, 5, 6, 7, 8, 9, 10, 11}
    BY MonthCases
  <2> QED
    BY <1>0, <1>2, <2>1, DaysBeforeIs, SMTT(60)
<1> QED
  BY <1>1, <1>2

\* What from finds is a description of the day.
LEMMA DateFound ==
  ASSUME NEW d \in Int
  PROVE  LET m == MonthOf(DayOf(d)) IN IsDate(d, YearOf(d), m, DayOf(d) - DaysBefore[m])
<1> DEFINE y == YearOf(d)
           k == DayOf(d)
           m == MonthOf(k)
<1>1. y \in Int /\ k \in 0..365 /\ d = March(y) + k /\ d < March(y + 1)
  BY YearFound
<1> HIDE DEF y, k
<1>2. m \in 0..11 /\ DaysBefore[m] <= k /\ k < DaysBefore[m + 1]
  BY <1>1, MonthFound
<1> HIDE DEF m
<1>3. DaysBefore[m] \in Nat
  BY <1>2, MonthBounds
<1>4. March(y) \in Int
  BY <1>1, MarchType
<1>5. k - DaysBefore[m] \in Nat /\ DaysBefore[m] + (k - DaysBefore[m]) = k
  BY <1>1, <1>2, <1>3
<1>6. March(y) + DaysBefore[m] + (k - DaysBefore[m]) = d
  BY <1>1, <1>3, <1>4
<1>7. IsDate(d, y, m, k - DaysBefore[m])
  BY <1>1, <1>2, <1>5, <1>6 DEF IsDate
<1> QED
  BY <1>7 DEF y, m, k

\* The types of a description.
LEMMA DateType ==
  ASSUME NEW d, NEW y, NEW m, NEW r, IsDate(d, y, m, r)
  PROVE  /\ y \in Int /\ m \in 0..11 /\ r \in Nat /\ d \in Int
         /\ March(y) \in Int /\ March(y + 1) \in Int
         /\ DaysBefore[m] \in Nat /\ DaysBefore[m + 1] \in Nat
         /\ March(y) <= d
<1>1. y \in Int /\ m \in 0..11 /\ r \in Nat /\ d = March(y) + DaysBefore[m] + r
  BY DEF IsDate
<1>2. March(y) \in Int /\ March(y + 1) \in Int
  BY <1>1, MarchType
<1>3. DaysBefore[m] \in Nat /\ DaysBefore[m + 1] \in Nat
  BY <1>1, MonthBounds
<1> QED
  BY <1>1, <1>2, <1>3

\* A day has one description.
LEMMA DateUnique ==
  ASSUME NEW d, NEW y, NEW m, NEW r, NEW z, NEW k, NEW q,
         IsDate(d, y, m, r), IsDate(d, z, k, q)
  PROVE  y = z /\ m = k /\ r = q
<1>1. /\ y \in Int /\ m \in 0..11 /\ r \in Nat /\ d \in Int
      /\ March(y) \in Int /\ DaysBefore[m] \in Nat /\ DaysBefore[m + 1] \in Nat /\ March(y) <= d
  BY DateType
<1>2. /\ z \in Int /\ k \in 0..11 /\ q \in Nat
      /\ DaysBefore[k] \in Nat /\ DaysBefore[k + 1] \in Nat /\ March(z) <= d
  BY DateType
<1>3. d < March(y + 1) /\ d < March(z + 1)
  BY DEF IsDate
<1>4. y = z
  BY <1>1, <1>2, <1>3, YearUnique
<1>5. DaysBefore[m] + r = DaysBefore[k] + q
  BY <1>1, <1>2, <1>4 DEF IsDate
<1>6. ~ (m < k)
  <2> SUFFICES ASSUME m < k PROVE FALSE
    OBVIOUS
  <2>1. DaysBefore[m + 1] <= DaysBefore[k]
    BY <1>1, <1>2, MonthBounds
  <2>2. DaysBefore[m] + r < DaysBefore[m + 1]
    BY DEF IsDate
  <2> QED
    BY <1>1, <1>2, <1>5, <2>1, <2>2
<1>7. ~ (k < m)
  <2> SUFFICES ASSUME k < m PROVE FALSE
    OBVIOUS
  <2>1. DaysBefore[k + 1] <= DaysBefore[m]
    BY <1>1, <1>2, MonthBounds
  <2>2. DaysBefore[k] + q < DaysBefore[k + 1]
    BY DEF IsDate
  <2> QED
    BY <1>1, <1>2, <1>5, <2>1, <2>2
<1>8. m = k
  BY <1>1, <1>2, <1>6, <1>7
<1> QED
  BY <1>1, <1>2, <1>4, <1>5, <1>8

\* The lengths of the months other than February are those of the calendar.
LEMMA MonthLength ==
  ASSUME NEW m \in 0..10, NEW year
  PROVE  DaysOf(CalendarMonth(m), year) = DaysBefore[m + 1] - DaysBefore[m]
<1>1. m \in {0, 1, 2, 3, 4, 5, 6, 7, 8, 9, 10}
  BY SMT
<1>2. CASE m \in {0, 1, 2, 3, 4}
  BY <1>2, DaysBeforeIs, SMTT(30) DEF DaysOf, CalendarMonth
<1>3. CASE m \in {5, 6, 7, 8, 9, 10}
  BY <1>3, DaysBeforeIs, SMTT(30) DEF DaysOf, CalendarMonth
<1> QED
  BY <1>1, <1>2, <1>3

\* The day after a date: the next of the month, the first of the next month, or the first of
\* March (time.rs:115-132).
LEMMA NextDate ==
  ASSUME NEW d, NEW y, NEW m, NEW r, IsDate(d, y, m, r)
  PROVE  LET days == DaysOf(CalendarMonth(m), CalendarYear(y, m)) IN
         /\ r + 1 < days => IsDate(d + 1, y, m, r + 1)
         /\ ~ (r + 1 < days) /\ m # 11 => IsDate(d + 1, y, m + 1, 0)
         /\ ~ (r + 1 < days) /\ m = 11 => IsDate(d + 1, y + 1, 0, 0)
<1> DEFINE days == DaysOf(CalendarMonth(m), CalendarYear(y, m))
<1>1. /\ y \in Int /\ m \in 0..11 /\ r \in Nat /\ d \in Int
      /\ March(y) \in Int /\ March(y + 1) \in Int
      /\ DaysBefore[m] \in Nat /\ DaysBefore[m + 1] \in Nat /\ March(y) <= d
  BY DateType
<1>2. /\ d = March(y) + DaysBefore[m] + r
      /\ DaysBefore[m] + r < DaysBefore[m + 1] /\ d < March(y + 1)
  BY DEF IsDate
<1>3. /\ IsLeap(y + 2001) => March(y + 1) = March(y) + 366
      /\ ~ IsLeap(y + 2001) => March(y + 1) = March(y) + 365
  BY <1>1, MarchType
<1>4. CASE m # 11
  <2>1. m \in 0..10 /\ m + 1 \in 0..11
    BY <1>1, <1>4
  <2>2. days = DaysBefore[m + 1] - DaysBefore[m]
    BY <2>1, MonthLength
  <2>3. DaysBefore[m + 1] <= 337
    BY <1>1, <1>4, MonthBounds
  <2> HIDE DEF days
  <2>4. d + 1 < March(y + 1)
    BY <1>1, <1>2, <1>3, <2>3
  <2>5. ASSUME r + 1 < days PROVE IsDate(d + 1, y, m, r + 1)
    <3>1. DaysBefore[m] + (r + 1) < DaysBefore[m + 1]
      BY <1>1, <2>2, <2>5
    <3>2. d + 1 = March(y) + DaysBefore[m] + (r + 1) /\ r + 1 \in Nat
      BY <1>1, <1>2
    <3> QED
      BY <1>1, <2>4, <3>1, <3>2 DEF IsDate
  <2>6. ASSUME ~ (r + 1 < days) PROVE IsDate(d + 1, y, m + 1, 0)
    <3>1. DaysBefore[m + 1] = DaysBefore[m] + r + 1
      BY <1>1, <1>2, <2>2, <2>6
    <3>2. d + 1 = March(y) + DaysBefore[m + 1] + 0
      BY <1>1, <1>2, <3>1
    <3>3. DaysBefore[m + 1] + 0 < DaysBefore[m + 1 + 1]
      BY <1>1, <2>1, MonthBounds
    <3> QED
      BY <1>1, <2>1, <2>4, <3>2, <3>3 DEF IsDate
  <2> QED
    BY <1>4, <2>5, <2>6 DEF days
<1>5. CASE m = 11
  <2>1. DaysBefore[m] = 337 /\ DaysBefore[m + 1] = 366
    BY <1>5, DaysBeforeIs
  <2>2. days = IF IsLeap(y + 2001) THEN 29 ELSE 28
    <3>1. CalendarMonth(m) = 1 /\ CalendarYear(y, m) = y + 2001
      BY <1>1, <1>5 DEF CalendarMonth, CalendarYear
    <3> QED
      BY <3>1 DEF DaysOf
  <2>3. March(y + 1) = March(y) + 337 + days /\ days \in Nat /\ days <= 29
    BY <1>1, <1>3, <2>2
  <2> HIDE DEF days
  <2>4. ASSUME r + 1 < days PROVE IsDate(d + 1, y, m, r + 1)
    <3>1. DaysBefore[m] + (r + 1) < DaysBefore[m + 1]
      BY <1>1, <2>1, <2>3, <2>4
    <3>2. d + 1 = March(y) + DaysBefore[m] + (r + 1) /\ r + 1 \in Nat /\ d + 1 < March(y + 1)
      BY <1>1, <1>2, <2>1, <2>3, <2>4
    <3> QED
      BY <1>1, <3>1, <3>2 DEF IsDate
  <2>5. ASSUME ~ (r + 1 < days) PROVE IsDate(d + 1, y + 1, 0, 0)
    <3>1. d + 1 = March(y + 1)
      BY <1>1, <1>2, <2>1, <2>3, <2>5
    <3>2. y + 1 \in Int /\ 0 \in 0..11 /\ 0 \in Nat
      BY <1>1
    <3>3. DaysBefore[0] = 0 /\ DaysBefore[0 + 1] = 31
      BY DaysBeforeIs
    <3>4. d + 1 < March(y + 1 + 1)
      <4>1. March(y + 1 + 1) = March(y + 1) + 366 \/ March(y + 1 + 1) = March(y + 1) + 365
        BY <3>2, MarchType
      <4> QED
        BY <1>1, <3>1, <4>1
    <3>5. d + 1 = March(y + 1) + DaysBefore[0] + 0
      BY <1>1, <3>1, <3>3
    <3>6. DaysBefore[0] + 0 < DaysBefore[0 + 1]
      BY <3>3
    <3> QED
      BY <3>2, <3>4, <3>5, <3>6 DEF IsDate
  <2> QED
    BY <1>5, <2>4, <2>5 DEF days
<1> QED
  BY <1>4, <1>5

-----------------------------------------------------------------------------
(* The moment after a time stamp.                                          *)

\* So from finds the description, whichever way it was found.
LEMMA DateAtIs ==
  ASSUME NEW d \in Int, NEW y, NEW m, NEW r, IsDate(d, y, m, r),
         NEW h, NEW i, NEW s, NEW nanos
  PROVE  DateAt(d, h, i, s, nanos) = Stamp(y, m, r, h, i, s, nanos)
<1> DEFINE k == MonthOf(DayOf(d))
<1>1. IsDate(d, YearOf(d), k, DayOf(d) - DaysBefore[k])
  BY DateFound
<1>2. YearOf(d) = y /\ k = m /\ DayOf(d) - DaysBefore[k] = r
  BY <1>1, DateUnique
<1> QED
  BY <1>2 DEF DateAt

\* The fields of a time stamp, and what changing one of them makes of it.
LEMMA FieldsAre ==
  ASSUME NEW a, NEW b, NEW c, NEW d, NEW e, NEW f, NEW g
  PROVE  LET t == Moment(a, b, c, d, e, f, g) IN
         /\ t.year = a /\ t.month = b /\ t.mday = c /\ t.hour = d /\ t.minute = e
         /\ t.second = f /\ t.nanos = g
         /\ \A x : [t EXCEPT !.year = x] = Moment(x, b, c, d, e, f, g)
         /\ \A x : [t EXCEPT !.month = x] = Moment(a, x, c, d, e, f, g)
         /\ \A x : [t EXCEPT !.mday = x] = Moment(a, b, x, d, e, f, g)
         /\ \A x : [t EXCEPT !.hour = x] = Moment(a, b, c, x, e, f, g)
         /\ \A x : [t EXCEPT !.minute = x] = Moment(a, b, c, d, x, f, g)
         /\ \A x : [t EXCEPT !.second = x] = Moment(a, b, c, d, e, x, g)
         /\ \A x : [t EXCEPT !.nanos = x] = Moment(a, b, c, d, e, f, x)
<1> DEFINE t == Moment(a, b, c, d, e, f, g)
<1>1. /\ t.year = a /\ t.month = b /\ t.mday = c /\ t.hour = d /\ t.minute = e
      /\ t.second = f /\ t.nanos = g
  BY DEF Moment
<1>2. ASSUME NEW x
      PROVE  /\ [t EXCEPT !.year = x] = Moment(x, b, c, d, e, f, g)
             /\ [t EXCEPT !.month = x] = Moment(a, x, c, d, e, f, g)
             /\ [t EXCEPT !.mday = x] = Moment(a, b, x, d, e, f, g)
             /\ [t EXCEPT !.hour = x] = Moment(a, b, c, x, e, f, g)
             /\ [t EXCEPT !.minute = x] = Moment(a, b, c, d, x, f, g)
             /\ [t EXCEPT !.second = x] = Moment(a, b, c, d, e, x, g)
             /\ [t EXCEPT !.nanos = x] = Moment(a, b, c, d, e, f, x)
  BY SMT DEF Moment
<1> QED
  BY <1>1, <1>2, Zenon

\* After, by the fields.
LEMMA AfterIs ==
  ASSUME NEW a, NEW b, NEW c, NEW d, NEW e, NEW f, NEW g
  PROVE  After(Moment(a, b, c, d, e, f, g)) =
           IF g + 1 < NANOS THEN Moment(a, b, c, d, e, f, g + 1)
           ELSE IF f + 1 < SECONDS THEN Moment(a, b, c, d, e, f + 1, 0)
           ELSE IF e + 1 < MINUTES THEN Moment(a, b, c, d, e + 1, 0, 0)
           ELSE IF d + 1 < HOURS THEN Moment(a, b, c, d + 1, 0, 0, 0)
           ELSE IF c < DaysOf(b, a) THEN Moment(a, b, c + 1, 0, 0, 0, 0)
           ELSE IF b < 11 THEN Moment(a, b + 1, 1, 0, 0, 0, 0)
           ELSE Moment(a + 1, 0, 1, 0, 0, 0, 0)
<1> DEFINE t == Moment(a, b, c, d, e, f, g)
           u == Moment(a, b, c, d, e, 0, 0)
           v == Moment(a, b, c, 0, 0, 0, 0)
<1>1. /\ t.year = a /\ t.month = b /\ t.mday = c /\ t.hour = d /\ t.minute = e
      /\ t.second = f /\ t.nanos = g
      /\ u.minute = e /\ u.hour = d
      /\ v.mday = c /\ v.month = b /\ v.year = a
  BY FieldsAre
<1>2. [t EXCEPT !.nanos = @ + 1] = Moment(a, b, c, d, e, f, g + 1)
  BY <1>1, FieldsAre
<1>3. [t EXCEPT !.second = @ + 1, !.nanos = 0] = Moment(a, b, c, d, e, f + 1, 0)
  <2>1. [t EXCEPT !.second = @ + 1, !.nanos = 0] = [[t EXCEPT !.second = f + 1] EXCEPT !.nanos = 0]
    BY <1>1
  <2>2. [t EXCEPT !.second = f + 1] = Moment(a, b, c, d, e, f + 1, g)
    BY FieldsAre
  <2>3. [Moment(a, b, c, d, e, f + 1, g) EXCEPT !.nanos = 0] = Moment(a, b, c, d, e, f + 1, 0)
    BY FieldsAre
  <2> QED
    BY <2>1, <2>2, <2>3
<1>4. [t EXCEPT !.second = 0, !.nanos = 0] = u
  <2>1. [t EXCEPT !.second = 0, !.nanos = 0] = [[t EXCEPT !.second = 0] EXCEPT !.nanos = 0]
    OBVIOUS
  <2>2. [t EXCEPT !.second = 0] = Moment(a, b, c, d, e, 0, g)
    BY FieldsAre
  <2>3. [Moment(a, b, c, d, e, 0, g) EXCEPT !.nanos = 0] = u
    BY FieldsAre
  <2> QED
    BY <2>1, <2>2, <2>3
<1>5. [u EXCEPT !.minute = @ + 1] = Moment(a, b, c, d, e + 1, 0, 0)
  BY <1>1, FieldsAre
<1>6. [u EXCEPT !.hour = @ + 1, !.minute = 0] = Moment(a, b, c, d + 1, 0, 0, 0)
  <2>1. [u EXCEPT !.hour = @ + 1, !.minute = 0] = [[u EXCEPT !.hour = d + 1] EXCEPT !.minute = 0]
    BY <1>1
  <2>2. [u EXCEPT !.hour = d + 1] = Moment(a, b, c, d + 1, e, 0, 0)
    BY FieldsAre
  <2>3. [Moment(a, b, c, d + 1, e, 0, 0) EXCEPT !.minute = 0] = Moment(a, b, c, d + 1, 0, 0, 0)
    BY FieldsAre
  <2> QED
    BY <2>1, <2>2, <2>3
<1>7. [u EXCEPT !.hour = 0, !.minute = 0] = v
  <2>1. [u EXCEPT !.hour = 0, !.minute = 0] = [[u EXCEPT !.hour = 0] EXCEPT !.minute = 0]
    OBVIOUS
  <2>2. [u EXCEPT !.hour = 0] = Moment(a, b, c, 0, e, 0, 0)
    BY FieldsAre
  <2>3. [Moment(a, b, c, 0, e, 0, 0) EXCEPT !.minute = 0] = v
    BY FieldsAre
  <2> QED
    BY <2>1, <2>2, <2>3
<1>8. [v EXCEPT !.mday = @ + 1] = Moment(a, b, c + 1, 0, 0, 0, 0)
  BY <1>1, FieldsAre
<1>9. [v EXCEPT !.month = @ + 1, !.mday = 1] = Moment(a, b + 1, 1, 0, 0, 0, 0)
  <2>1. [v EXCEPT !.month = @ + 1, !.mday = 1] = [[v EXCEPT !.month = b + 1] EXCEPT !.mday = 1]
    BY <1>1
  <2>2. [v EXCEPT !.month = b + 1] = Moment(a, b + 1, c, 0, 0, 0, 0)
    BY FieldsAre
  <2>3. [Moment(a, b + 1, c, 0, 0, 0, 0) EXCEPT !.mday = 1] = Moment(a, b + 1, 1, 0, 0, 0, 0)
    BY FieldsAre
  <2> QED
    BY <2>1, <2>2, <2>3
<1>10. [v EXCEPT !.year = @ + 1, !.month = 0, !.mday = 1] = Moment(a + 1, 0, 1, 0, 0, 0, 0)
  <2>1. [v EXCEPT !.year = @ + 1, !.month = 0, !.mday = 1]
          = [[[v EXCEPT !.year = a + 1] EXCEPT !.month = 0] EXCEPT !.mday = 1]
    BY <1>1
  <2>2. [v EXCEPT !.year = a + 1] = Moment(a + 1, b, c, 0, 0, 0, 0)
    BY FieldsAre
  <2>3. [Moment(a + 1, b, c, 0, 0, 0, 0) EXCEPT !.month = 0] = Moment(a + 1, 0, c, 0, 0, 0, 0)
    BY FieldsAre
  <2>4. [Moment(a + 1, 0, c, 0, 0, 0, 0) EXCEPT !.mday = 1] = Moment(a + 1, 0, 1, 0, 0, 0, 0)
    BY FieldsAre
  <2> QED
    BY <2>1, <2>2, <2>3, <2>4
<1> HIDE DEF t, u, v
<1>11. After(t) =
         IF g + 1 < NANOS THEN [t EXCEPT !.nanos = @ + 1]
         ELSE IF f + 1 < SECONDS THEN [t EXCEPT !.second = @ + 1, !.nanos = 0]
         ELSE IF e + 1 < MINUTES THEN [u EXCEPT !.minute = @ + 1]
         ELSE IF d + 1 < HOURS THEN [u EXCEPT !.hour = @ + 1, !.minute = 0]
         ELSE IF c < DaysOf(b, a) THEN [v EXCEPT !.mday = @ + 1]
         ELSE IF b < 11 THEN [v EXCEPT !.month = @ + 1, !.mday = 1]
         ELSE [v EXCEPT !.year = @ + 1, !.month = 0, !.mday = 1]
  BY <1>1, <1>4, <1>7 DEF After
<1> QED
  BY <1>2, <1>3, <1>5, <1>6, <1>8, <1>9, <1>10, <1>11, Zenon DEF t

\* Midnight: the day after, over the ends of months and of years.
LEMMA NextDay ==
  ASSUME TimeAssumption, NEW d \in Int
  PROVE  After(DateAt(d, HOURS - 1, MINUTES - 1, SECONDS - 1, NANOS - 1)) = DateAt(d + 1, 0, 0, 0, 0)
<1> DEFINE m == MonthOf(DayOf(d))
           y == YearOf(d)
           r == DayOf(d) - DaysBefore[m]
           t == Stamp(y, m, r, HOURS - 1, MINUTES - 1, SECONDS - 1, NANOS - 1)
           length == DaysOf(CalendarMonth(m), CalendarYear(y, m))
<1>1. IsDate(d, y, m, r)
  BY DateFound
<1>2. DateAt(d, HOURS - 1, MINUTES - 1, SECONDS - 1, NANOS - 1) = t
  BY DEF DateAt
<1> HIDE DEF y, r, m
<1>3. /\ NANOS \in Nat \ {0} /\ SECONDS \in Nat \ {0} /\ MINUTES \in Nat \ {0} /\ HOURS \in Nat \ {0}
  BY DEF TimeAssumption
<1>4. /\ ~ (NANOS - 1 + 1 < NANOS) /\ ~ (SECONDS - 1 + 1 < SECONDS)
      /\ ~ (MINUTES - 1 + 1 < MINUTES) /\ ~ (HOURS - 1 + 1 < HOURS)
  BY <1>3
<1>5. After(t) =
        IF r + 1 < length THEN Moment(CalendarYear(y, m), CalendarMonth(m), r + 1 + 1, 0, 0, 0, 0)
        ELSE IF CalendarMonth(m) < 11 THEN Moment(CalendarYear(y, m), CalendarMonth(m) + 1, 1, 0, 0, 0, 0)
        ELSE Moment(CalendarYear(y, m) + 1, 0, 1, 0, 0, 0, 0)
  BY <1>4, AfterIs DEF Stamp
<1> HIDE DEF t
<1>8. y \in Int /\ m \in 0..11 /\ r \in Nat /\ d + 1 \in Int
  BY <1>1, DateType
<1>9. /\ r + 1 < length => IsDate(d + 1, y, m, r + 1)
      /\ ~ (r + 1 < length) /\ m # 11 => IsDate(d + 1, y, m + 1, 0)
      /\ ~ (r + 1 < length) /\ m = 11 => IsDate(d + 1, y + 1, 0, 0)
  BY <1>1, NextDate
<1> HIDE DEF length
<1>10. CASE r + 1 < length
  <2>1. DateAt(d + 1, 0, 0, 0, 0) = Stamp(y, m, r + 1, 0, 0, 0, 0)
    BY <1>8, <1>9, <1>10, DateAtIs
  <2> QED
    BY <1>2, <1>5, <1>10, <2>1 DEF Stamp
<1>11. CASE ~ (r + 1 < length) /\ m # 11
  <2>1. DateAt(d + 1, 0, 0, 0, 0) = Stamp(y, m + 1, 0, 0, 0, 0, 0)
    BY <1>8, <1>9, <1>11, DateAtIs
  <2>2. CASE m = 9
    <3>1. CalendarMonth(m) = 11 /\ CalendarMonth(m + 1) = 0
      BY <2>2 DEF CalendarMonth
    <3>2. CalendarYear(y, m + 1) = CalendarYear(y, m) + 1
      BY <1>8, <2>2 DEF CalendarYear
    <3> QED
      BY <1>2, <1>5, <1>11, <2>1, <3>1, <3>2 DEF Stamp
  <2>3. CASE m # 9
    <3>1. CalendarMonth(m) < 11 /\ CalendarMonth(m + 1) = CalendarMonth(m) + 1
      BY <1>8, <1>11, <2>3 DEF CalendarMonth
    <3>2. CalendarYear(y, m + 1) = CalendarYear(y, m)
      BY <1>8, <2>3 DEF CalendarYear
    <3> QED
      BY <1>2, <1>5, <1>11, <2>1, <3>1, <3>2 DEF Stamp
  <2> QED
    BY <2>2, <2>3
<1>12. CASE ~ (r + 1 < length) /\ m = 11
  <2>1. DateAt(d + 1, 0, 0, 0, 0) = Stamp(y + 1, 0, 0, 0, 0, 0, 0)
    BY <1>8, <1>9, <1>12, DateAtIs
  <2>2. CalendarMonth(m) = 1 /\ CalendarMonth(0) = 2
    BY <1>12 DEF CalendarMonth
  <2>3. CalendarYear(y + 1, 0) = CalendarYear(y, m)
    BY <1>8, <1>12 DEF CalendarYear
  <2> QED
    BY <1>2, <1>5, <1>12, <2>1, <2>2, <2>3 DEF Stamp
<1> QED
  BY <1>10, <1>11, <1>12

\* Any other tick, and midnight.
LEMMA NextMoment ==
  ASSUME TimeAssumption, NEW n \in Int
  PROVE  from(n + 1) = After(from(n))
<1> DEFINE d == Since2000(n)
           nanos == n % NANOS
           s == Sec(n) % SECONDS
           i == Min(n) % MINUTES
           h == Hour(n) % HOURS
           t == DateAt(d, h, i, s, nanos)
<1>1. /\ Sec(n) \in Int /\ Min(n) \in Int /\ Hour(n) \in Int /\ Day(n) \in Int /\ n + 1 \in Int
      /\ NANOS \in Nat \ {0} /\ SECONDS \in Nat \ {0} /\ MINUTES \in Nat \ {0} /\ HOURS \in Nat \ {0}
  BY Units
<1>2. /\ nanos \in Int /\ nanos < NANOS /\ s \in Int /\ s < SECONDS
      /\ i \in Int /\ i < MINUTES /\ h \in Int /\ h < HOURS
  BY <1>1, DivMod
<1>3. from(n) = t
  BY FromIs
<1>4. from(n + 1) = DateAt(Since2000(n + 1), Hour(n + 1) % HOURS, Min(n + 1) % MINUTES,
                           Sec(n + 1) % SECONDS, (n + 1) % NANOS)
  BY <1>1, FromIs
<1>6. /\ nanos + 1 < NANOS => Sec(n + 1) = Sec(n) /\ (n + 1) % NANOS = nanos + 1
      /\ ~ (nanos + 1 < NANOS) => Sec(n + 1) = Sec(n) + 1 /\ (n + 1) % NANOS = 0
  <2>1. Carries(n, NANOS)
    BY <1>1, Carry
  <2> QED
    BY <2>1 DEF Carries, Sec
<1>7. Sec(n + 1) = Sec(n) => Min(n + 1) = Min(n)
  BY DEF Min
<1>8. Sec(n + 1) = Sec(n) + 1 =>
        /\ s + 1 < SECONDS => Min(n + 1) = Min(n) /\ Sec(n + 1) % SECONDS = s + 1
        /\ ~ (s + 1 < SECONDS) => Min(n + 1) = Min(n) + 1 /\ Sec(n + 1) % SECONDS = 0
  <2>1. Carries(Sec(n), SECONDS)
    BY <1>1, Carry
  <2> QED
    BY <2>1 DEF Carries, Min
<1>9. Min(n + 1) = Min(n) => Hour(n + 1) = Hour(n)
  BY DEF Hour
<1>10. Min(n + 1) = Min(n) + 1 =>
        /\ i + 1 < MINUTES => Hour(n + 1) = Hour(n) /\ Min(n + 1) % MINUTES = i + 1
        /\ ~ (i + 1 < MINUTES) => Hour(n + 1) = Hour(n) + 1 /\ Min(n + 1) % MINUTES = 0
  <2>1. Carries(Min(n), MINUTES)
    BY <1>1, Carry
  <2> QED
    BY <2>1 DEF Carries, Hour
<1>11. Hour(n + 1) = Hour(n) => Since2000(n + 1) = d
  BY DEF Day, Since2000
<1>12. Hour(n + 1) = Hour(n) + 1 =>
        /\ h + 1 < HOURS => Since2000(n + 1) = d /\ Hour(n + 1) % HOURS = h + 1
        /\ ~ (h + 1 < HOURS) => Since2000(n + 1) = d + 1 /\ Hour(n + 1) % HOURS = 0
  <2> SUFFICES ASSUME Hour(n + 1) = Hour(n) + 1
               PROVE  /\ h + 1 < HOURS => Since2000(n + 1) = d /\ Hour(n + 1) % HOURS = h + 1
                      /\ ~ (h + 1 < HOURS) => Since2000(n + 1) = d + 1 /\ Hour(n + 1) % HOURS = 0
    OBVIOUS
  <2>1. /\ h + 1 < HOURS => Day(n + 1) = Day(n) /\ Hour(n + 1) % HOURS = h + 1
        /\ ~ (h + 1 < HOURS) => Day(n + 1) = Day(n) + 1 /\ Hour(n + 1) % HOURS = 0
    <3>1. Carries(Hour(n), HOURS)
      BY <1>1, Carry
    <3> QED
      BY <3>1 DEF Carries, Day
  <2>2. Since2000(n + 1) = Day(n + 1) - 11017 /\ d = Day(n) - 11017
    BY DEF Since2000
  <2> HIDE DEF d, h
  <2>3. Day(n + 1) = Day(n) + 1 => Since2000(n + 1) = d + 1
    BY <1>1, <2>2, SMT
  <2>4. Day(n + 1) = Day(n) => Since2000(n + 1) = d
    BY <2>2, SMT
  <2> QED
    BY <2>1, <2>3, <2>4, Zenon
<1>13. d \in Int
  BY <1>1, SMT DEF Since2000
<1>14. After(t) =
         IF nanos + 1 < NANOS THEN DateAt(d, h, i, s, nanos + 1)
         ELSE IF s + 1 < SECONDS THEN DateAt(d, h, i, s + 1, 0)
         ELSE IF i + 1 < MINUTES THEN DateAt(d, h, i + 1, 0, 0)
         ELSE IF h + 1 < HOURS THEN DateAt(d, h + 1, 0, 0, 0)
         ELSE After(t)
  <2> HIDE DEF d, nanos, s, i, h
  <2> QED
    BY AfterIs, Zenon DEF DateAt, Stamp
<1> HIDE DEF d, nanos, s, i, h, t
<1>15. CASE nanos + 1 < NANOS
  <2>1. After(t) = DateAt(d, h, i, s, nanos + 1)
    BY <1>14, <1>15
  <2> QED
    BY <1>3, <1>4, <1>6, <1>7, <1>9, <1>11, <1>15, <2>1, Zenon DEF h, i, s
<1>16. CASE ~ (nanos + 1 < NANOS) /\ s + 1 < SECONDS
  <2>1. After(t) = DateAt(d, h, i, s + 1, 0)
    BY <1>14, <1>16
  <2> QED
    BY <1>3, <1>4, <1>6, <1>8, <1>9, <1>11, <1>16, <2>1, Zenon DEF h, i
<1>17. CASE ~ (nanos + 1 < NANOS) /\ ~ (s + 1 < SECONDS) /\ i + 1 < MINUTES
  <2>1. After(t) = DateAt(d, h, i + 1, 0, 0)
    BY <1>14, <1>17
  <2> QED
    BY <1>3, <1>4, <1>6, <1>8, <1>10, <1>11, <1>17, <2>1, Zenon DEF h
<1>18. CASE ~ (nanos + 1 < NANOS) /\ ~ (s + 1 < SECONDS) /\ ~ (i + 1 < MINUTES) /\ h + 1 < HOURS
  <2>1. After(t) = DateAt(d, h + 1, 0, 0, 0)
    BY <1>14, <1>18
  <2> QED
    BY <1>3, <1>4, <1>6, <1>8, <1>10, <1>12, <1>18, <2>1, Zenon
<1>19. CASE ~ (nanos + 1 < NANOS) /\ ~ (s + 1 < SECONDS) /\ ~ (i + 1 < MINUTES) /\ ~ (h + 1 < HOURS)
  <2>1. nanos = NANOS - 1 /\ s = SECONDS - 1 /\ i = MINUTES - 1 /\ h = HOURS - 1
    BY <1>1, <1>2, <1>19
  <2>2. After(t) = DateAt(d + 1, 0, 0, 0, 0)
    BY <1>13, <2>1, NextDay, Zenon DEF t
  <2> QED
    BY <1>3, <1>4, <1>6, <1>8, <1>10, <1>12, <1>19, <2>2, Zenon
<1> QED
  BY <1>15, <1>16, <1>17, <1>18, <1>19

\* The epoch is the first of January 1970.
LEMMA EpochIs ==
  ASSUME TimeAssumption
  PROVE  from(0) = Epoch
<1>1. /\ NANOS \in Nat \ {0} /\ SECONDS \in Nat \ {0} /\ MINUTES \in Nat \ {0} /\ HOURS \in Nat \ {0}
  BY DEF TimeAssumption
<1>2. \A b \in Nat \ {0} : 0 \div b = 0 /\ 0 % b = 0
  <2> SUFFICES ASSUME NEW b \in Nat \ {0} PROVE 0 \div b = 0 /\ 0 % b = 0
    OBVIOUS
  <2>1. 0 = b * 0 + 0
    OBVIOUS
  <2> QED
    BY <2>1, DivUnique
<1>3. Sec(0) = 0
  BY <1>1, <1>2 DEF Sec
<1>4. Min(0) = 0
  BY <1>1, <1>2, <1>3 DEF Min
<1>5. Hour(0) = 0
  BY <1>1, <1>2, <1>4 DEF Hour
<1>6. Since2000(0) = -11017
  <2>1. Day(0) = 0
    BY <1>1, <1>2, <1>5 DEF Day
  <2> QED
    BY <2>1, SMT DEF Since2000
<1>7. from(0) = DateAt(-11017, 0, 0, 0, 0)
  <2>1. from(0) = DateAt(Since2000(0), Hour(0) % HOURS, Min(0) % MINUTES, Sec(0) % SECONDS, 0 % NANOS)
    BY FromIs
  <2> QED
    BY <1>1, <1>2, <1>3, <1>4, <1>5, <1>6, <2>1
<1>8. IsDate(-11017, -31, 10, 0)
  <2>1. March(-31) = -11323 /\ March((-31) + 1) = -10958
    <3> DEFINE a == -31
               b == (-31) + 1
    <3>1. a \in Int /\ a + 31 = 0 /\ b \in Int /\ b + 30 = 0
      BY SMT
    <3> HIDE DEF a, b
    <3>2. (a \div 4) + 8 = 0 /\ (a \div 100) + 1 = 0 /\ (a \div 400) + 1 = 0
      BY <3>1, SMT
    <3>3. (b \div 4) + 8 = 0 /\ (b \div 100) + 1 = 0 /\ (b \div 400) + 1 = 0
      BY <3>1, SMT
    <3>4. March(a) + 11323 = 0 /\ March(b) + 10958 = 0 /\ March(a) \in Int /\ March(b) \in Int
      BY <3>1, <3>2, <3>3, SMT DEF March
    <3>5. March(a) = -11323 /\ March(b) = -10958
      BY <3>4, SMT
    <3> QED
      BY <3>5 DEF a, b
  <2>2. DaysBefore[10] = 306 /\ DaysBefore[11] = 337
    BY DaysBeforeIs
  <2>3. -31 \in Int /\ 10 \in 0..11 /\ 0 \in Nat
    BY SMT
  <2> QED
    BY <2>1, <2>2, <2>3, SMT DEF IsDate
<1>9. DateAt(-11017, 0, 0, 0, 0) = Stamp(-31, 10, 0, 0, 0, 0, 0)
  <2>1. -11017 \in Int
    BY SMT
  <2> QED
    BY <1>8, <2>1, DateAtIs, SMT
<1>10. Stamp(-31, 10, 0, 0, 0, 0, 0) = Epoch
  <2>1. CalendarYear(-31, 10) = 1970 /\ CalendarMonth(10) = 0 /\ 0 + 1 = 1
    BY SMT DEF CalendarYear, CalendarMonth
  <2> QED
    BY <2>1, SMT DEF Stamp, Epoch, Moment
<1> QED
  BY <1>7, <1>9, <1>10

\* The clock shows a time, in parts of a second, before or after the epoch.
Clock == now \in Int

\* For days of any number and length: the epoch is where it should be, and each
\* time stamp is followed by the next one of the calendar (time.rs:48-140).
THEOREM CalendarFollowed == Spec => FollowsCalendar
<1>1. Init => Clock
  <2> SUFFICES ASSUME NEW d \in Days, now = d * PerDay PROVE now \in Int
    BY DEF Init, Clock
  <2>1. d \in Int /\ SECS_PER_DAY \in Nat /\ NANOS \in Nat
    <3>1. HOURS \in Nat /\ MINUTES \in Nat /\ SECONDS \in Nat /\ NANOS \in Nat /\ Days \subseteq Int
      BY TimeAssumption DEF TimeAssumption
    <3>2. HOURS * MINUTES \in Nat
      BY <3>1
    <3> QED
      BY <3>1, <3>2 DEF SECS_PER_DAY
  <2> QED
    BY <2>1 DEF PerDay
<1>2. Clock /\ [Next]_now => Clock'
  BY DEF Clock, Next, Tick, Rest
<1>3. Clock => (now = 0 => from(now) = Epoch)
  BY TimeAssumption, EpochIs
<1>4. Clock /\ [Next]_now => [now' > now => from(now') = After(from(now))]_now
  <2> SUFFICES ASSUME now \in Int, now' = now + 1 PROVE from(now') = After(from(now))
    BY DEF Clock, Next, Tick, Rest
  <2> QED
    BY TimeAssumption, NextMoment
<1> QED
  BY <1>1, <1>2, <1>3, <1>4, PTL DEF Spec, FollowsCalendar
===============================================================================
