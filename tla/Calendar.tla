------------------------------ MODULE Calendar ------------------------------
(***************************************************************************)
(* The date converters (util.c 242-400): a Gregorian day and the Persian one   *)
(* that change_date_to_persian makes of it, day after day, and the way back    *)
(* by change_date_to_gregorian. A date is the struct tm with tm_year + 1900    *)
(* and tm_mon + 1, as both functions see it between their first and last lines.*)
(***************************************************************************)
EXTENDS Integers

CONSTANT Years   \* the years the walk starts in
ASSUME YearsAssumption == Years \subseteq Nat \ {0}

VARIABLES
    today,    \* a Gregorian day
    persian   \* what change_date_to_persian makes of it

vars == <<today, persian>>

Date(y, m, d) == [year |-> y, mon |-> m, mday |-> d]

-----------------------------------------------------------------------------
(* change_date_to_persian *)

sumDayMiladiMonth == <<0, 31, 59, 90, 120, 151, 181, 212, 243, 273, 304, 334>>
sumDayMiladiMonthLeap == <<0, 31, 60, 91, 121, 152, 182, 213, 244, 274, 305, 335>>

miladi_is_leap(year) ==
    \/ year % 100 # 0 /\ year % 4 = 0
    \/ year % 100 = 0 /\ year % 400 = 0

\* Mutant of deyDayDiff: looks at the same year.
deyDayDiffSame(year) == IF miladi_is_leap(year) THEN 11 ELSE 10

deyDayDiff(year) == IF miladi_is_leap(year - 1) THEN 11 ELSE 10

\* Day n of months of `length` days that follow month `before`.
InMonths(y, n, length, before) ==
    IF n % length = 0 THEN Date(y, before + n \div length, length)
    ELSE Date(y, before + n \div length + 1, n % length)

ToPersian(t) ==
    LET dayCount == t.mday + (IF miladi_is_leap(t.year) THEN sumDayMiladiMonthLeap
                              ELSE sumDayMiladiMonth)[t.mon]
        n == dayCount - 79
    IN  IF dayCount <= 79
        THEN InMonths(t.year - 622, dayCount + deyDayDiff(t.year), 30, 9)
        ELSE IF n <= 186 THEN InMonths(t.year - 621, n, 31, 0)
        ELSE InMonths(t.year - 621, n - 186, 30, 6)

-----------------------------------------------------------------------------
(* change_date_to_gregorian *)

miladiMonthDays == <<31, 28, 31, 30, 31, 30, 31, 31, 30, 31, 30, 31>>

\* The days of month gm as the loop counts them: every fourth year is a leap year.
delta(gy, gm) == miladiMonthDays[gm] + (IF gm = 2 /\ gy % 4 = 0 THEN 1 ELSE 0)

\* The days up to the end of each month; month 0 has none.
UpTo(y) ==
    LET upTo[m \in 0..12] == IF m = 0 THEN 0 ELSE upTo[m - 1] + delta(y, m)
    IN  upTo

\* The month the loop stops at with day n of the year: 13 is behind December.
StopsAt(y, n, m) == (m <= 12 => n <= UpTo(y)[m]) /\ \A k \in 0..(m - 1) : UpTo(y)[k] < n
MonthOf(y, n) == CHOOSE m \in 0..13 : StopsAt(y, n, m)

\* gm and gd after the loop
InYear(y, n) ==
    LET gm == MonthOf(y, n) IN Date(y, gm, n - (IF gm = 0 THEN 0 ELSE UpTo(y)[gm - 1]))

\* Mutant of DayOfYear: the months of 31 days are counted as five.
DayOfYearFive(t) ==
    IF t.mon < 7 THEN (t.mon - 1) * 31 + t.mday ELSE (t.mon - 7) * 30 + 155 + t.mday

\* doy_j
DayOfYear(t) ==
    IF t.mon < 7 THEN (t.mon - 1) * 31 + t.mday ELSE (t.mon - 7) * 30 + 186 + t.mday

ToGregorian(t) ==
    LET doy_j == DayOfYear(t)
        d_4  == (t.year + 1) % 4
        d_33 == (((t.year - 55) % 132) * 10000) \div 305
        early == IF (t.year - 19) \div 63 = 20 THEN 1 ELSE 0
        a == (IF d_33 # 3 /\ d_4 <= d_33 THEN 287 ELSE 286) - early
        b == (IF d_33 \in {1, 2} /\ (d_33 = d_4 \/ d_4 = 1) THEN 78
              ELSE IF d_33 = 3 /\ d_4 = 0 THEN 80 ELSE 79) + early
    IN  IF doy_j <= a THEN InYear(t.year + 621, doy_j + b)
        ELSE InYear(t.year + 622, doy_j - a)

-----------------------------------------------------------------------------
(* The walk: each year from its first day to the first one of the next. *)

Init ==
    /\ \E y \in Years : today = Date(y, 1, 1)
    /\ persian = ToPersian(today)

LastDay(t) == miladiMonthDays[t.mon] + (IF t.mon = 2 /\ miladi_is_leap(t.year) THEN 1 ELSE 0)

Tomorrow(t) ==
    IF t.mday < LastDay(t) THEN [t EXCEPT !.mday = @ + 1]
    ELSE IF t.mon < 12 THEN Date(t.year, t.mon + 1, 1)
    ELSE Date(t.year + 1, 1, 1)

NextDay ==
    /\ today.year \in Years
    /\ today' = Tomorrow(today)
    /\ persian' = ToPersian(today')

Next == NextDay

Spec == Init /\ [][Next]_vars

-----------------------------------------------------------------------------
\* q is the day after p in the Persian calendar; a year has 29 or 30 days in its last month.
Follows(p, q) ==
    \/ q = [p EXCEPT !.mday = @ + 1]
    \/ /\ p.mon < 12 /\ p.mday = (IF p.mon <= 6 THEN 31 ELSE 30)
       /\ q = Date(p.year, p.mon + 1, 1)
    \/ /\ p.mon = 12 /\ p.mday \in {29, 30}
       /\ q = Date(p.year + 1, 1, 1)

(* From one day to the next the Persian date moves on by one: none is skipped *)
(* and none comes twice, over month ends, the turn of either year and leap     *)
(* years of both calendars. (util.c 263-352)                                   *)
PersianFollows == [][Follows(persian, persian')]_vars

\* What a date is taken for: nothing puts a month 13 right, but its first day
\* is the first of the next year.
Taken(t) == IF t.mon = 13 THEN Date(t.year + 1, 1, t.mday) ELSE t

(* Converted back, a Persian date is the day it came from, the day before or   *)
(* the day after: what the exchanged factor and divisor of util.c 362 cost, and *)
(* the leap years the two converters disagree on, never adds up to two days in  *)
(* the two centuries in which every fourth year is a leap year. (util.c 263-400) *)
BackWithinADay ==
    today.year \in 1901..2099 =>
        LET back == Taken(ToGregorian(persian)) IN
            back = today \/ Tomorrow(back) = today \/ back = Tomorrow(today)
=============================================================================
