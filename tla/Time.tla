--------------------------------- MODULE Time ---------------------------------
(***************************************************************************)
(* The calendar of the log's time stamps, time.rs: a SystemTime becomes a  *)
(* year, a month, a day and the time of the day.  The clock ticks through  *)
(* some days, and each tick is compared with what a calendar says comes    *)
(* next.  The lengths of a second, a minute, an hour and a day are         *)
(* constants: a short day has all its ticks tried.                         *)
(***************************************************************************)
EXTENDS Integers, Sequences

CONSTANTS
  NANOS,    \* the parts of a second: 1000000000
  SECONDS,  \* the seconds of a minute: 60
  MINUTES,  \* the minutes of an hour: 60
  HOURS,    \* the hours of a day: 24
  Days      \* the days through which the clock ticks, 0 being 1970-01-01

ASSUME TimeAssumption ==
  /\ {NANOS, SECONDS, MINUTES, HOURS} \subseteq Nat \ {0}
  /\ Days \subseteq Int

\* The time since the epoch, in parts of a second.
VARIABLE now

SECS_PER_DAY == HOURS * MINUTES * SECONDS
LEAPOCH == SECS_PER_DAY * (10957 + 31 + 29)  \* 2000-03-01
DAYS_PER_400Y == 365 * 400 + 97
DAYS_PER_100Y == 365 * 100 + 24
DAYS_PER_4Y == 365 * 4 + 1

\* From March on.
DAYS_IN_MONTH == <<31, 30, 31, 30, 31, 31, 30, 31, 30, 31, 31, 29>>

-----------------------------------------------------------------------------

\* Rust's / and % round towards zero.
Quotient(a, b) == IF a < 0 THEN -((-a) \div b) ELSE a \div b
Remainder(a, b) == a - b * Quotient(a, b)

\* The correction of a negative remainder, made for days and for 400 years.
Floored(a, b) ==
  LET r == Remainder(a, b) IN
  IF r < 0 THEN [quotient |-> Quotient(a, b) - 1, remainder |-> r + b]
  ELSE [quotient |-> Quotient(a, b), remainder |-> r]

\* How many whole cycles of the given length there are, at most max.
Cycles(remdays, length, max) ==
  IF remdays \div length = max + 1 THEN max ELSE remdays \div length

\* The days of a year that starts in March which come before its month m.
DaysBefore[m \in 0..12] == IF m = 0 THEN 0 ELSE DaysBefore[m - 1] + DAYS_IN_MONTH[m]

\* Mutant of SinceEpoch: the part of a second is not carried over.
SinceEpochUncarried(n) ==
  IF n >= 0 THEN [t |-> n \div NANOS, nanos |-> n % NANOS]
  ELSE [t |-> -((-n) \div NANOS), nanos |-> (-n) % NANOS]

\* duration_since, which gives a positive duration either way.
SinceEpoch(n) ==
  IF n >= 0 THEN [t |-> n \div NANOS, nanos |-> n % NANOS]
  ELSE IF (-n) % NANOS > 0
       THEN [t |-> -((-n) \div NANOS) - 1, nanos |-> NANOS - ((-n) % NANOS)]
       ELSE [t |-> -((-n) \div NANOS), nanos |-> 0]

\* Time::from
from(n) ==
  LET since == SinceEpoch(n)
      day == Floored(since.t - LEAPOCH, SECS_PER_DAY)
      remsecs == day.remainder
      qc == Floored(day.quotient, DAYS_PER_400Y)
      c_cycles == Cycles(qc.remainder, DAYS_PER_100Y, 3)
      rem100 == qc.remainder - c_cycles * DAYS_PER_100Y
      q_cycles == Cycles(rem100, DAYS_PER_4Y, 24)
      rem4 == rem100 - q_cycles * DAYS_PER_4Y
      remyears == Cycles(rem4, 365, 3)
      remdays == rem4 - remyears * 365
      years == remyears + 4 * q_cycles + 100 * c_cycles + 400 * qc.quotient
      months == CHOOSE m \in 0..11 : DaysBefore[m] <= remdays /\ remdays < DaysBefore[m + 1]
  IN [year |-> years + 2000 + (IF months >= 10 THEN 1 ELSE 0),
      month |-> months + 2 - (IF months >= 10 THEN 12 ELSE 0),
      mday |-> remdays - DaysBefore[months] + 1,
      hour |-> remsecs \div (MINUTES * SECONDS),
      minute |-> (remsecs \div SECONDS) % MINUTES,
      second |-> remsecs % SECONDS,
      nanos |-> since.nanos]

-----------------------------------------------------------------------------

PerDay == SECS_PER_DAY * NANOS

Init == \E d \in Days : now = d * PerDay

Ticking == now \div PerDay \in Days

Tick == Ticking /\ now' = now + 1

\* The clock is not looked at any more.
Rest == ~Ticking /\ UNCHANGED now

Next == Tick \/ Rest

Spec == Init /\ [][Next]_now

-----------------------------------------------------------------------------
(* The Gregorian calendar, and a clock.                                    *)

IsLeap(y) == y % 4 = 0 /\ (y % 100 = 0 => y % 400 = 0)

\* Months count from 0, as they do in the C library this is taken from.
DaysOf(month, year) ==
  CASE month = 1 -> IF IsLeap(year) THEN 29 ELSE 28
    [] month \in {3, 5, 8, 10} -> 30
    [] OTHER -> 31

\* The moment after t.
After(t) ==
  IF t.nanos + 1 < NANOS THEN [t EXCEPT !.nanos = @ + 1]
  ELSE IF t.second + 1 < SECONDS THEN [t EXCEPT !.second = @ + 1, !.nanos = 0]
  ELSE LET minute == [t EXCEPT !.second = 0, !.nanos = 0] IN
       IF t.minute + 1 < MINUTES THEN [minute EXCEPT !.minute = @ + 1]
  ELSE IF t.hour + 1 < HOURS THEN [minute EXCEPT !.hour = @ + 1, !.minute = 0]
  ELSE LET day == [minute EXCEPT !.hour = 0, !.minute = 0] IN
       IF t.mday < DaysOf(t.month, t.year) THEN [day EXCEPT !.mday = @ + 1]
  ELSE IF t.month < 11 THEN [day EXCEPT !.month = @ + 1, !.mday = 1]
  ELSE [day EXCEPT !.year = @ + 1, !.month = 0, !.mday = 1]

-----------------------------------------------------------------------------
(* Properties.                                                             *)

Epoch ==
  [year |-> 1970, month |-> 0, mday |-> 1, hour |-> 0, minute |-> 0, second |-> 0, nanos |-> 0]

\* The epoch is where it should be, and when the clock ticks, the time stamp is
\* the next one of the calendar: over leap days and centuries, and before the
\* epoch (time.rs:48-140).
FollowsCalendar ==
  /\ [](now = 0 => from(now) = Epoch)
  /\ [][now' > now => from(now') = After(from(now))]_now
=============================================================================
