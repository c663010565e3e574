-------------------------------- MODULE Date --------------------------------
(***************************************************************************)
(* base/Date.h/.cc: a date is its Julian day number, computed from and     *)
(* converted to year, month and day by integer arithmetic.  The state      *)
(* machine is the loop of tests/Date_unittest.cc: it goes from day to day  *)
(* by the rules of the Gregorian calendar, with its own count of days and  *)
(* weekdays, and everything Date computes is compared with it.             *)
(*                                                                         *)
(* All dividends are positive for dates after the year -4800, so \div and  *)
(* % are the operators of C.                                               *)
(***************************************************************************)
EXTENDS Integers

CONSTANTS FirstYear, LastYear,    \* the years of the walk
          FirstJulianDay, FirstWeekDay    \* of January 1 of the first one

ASSUME YearAssumption == FirstYear \in Nat /\ LastYear \in Nat /\ FirstYear <= LastYear

VARIABLES date,              \* the year, month and day of the walk
          julianDayNumber, weekDay    \* its own counts

dateVars == <<date, julianDayNumber, weekDay>>

-----------------------------------------------------------------------------
(* Date *)

getJulianDayNum(year, month, day) ==
    LET a == (14 - month) \div 12
        y == year + 4800 - a
        m == month + 12 * a - 3
    IN  day + (153 * m + 2) \div 5 + y * 365 + y \div 4 - y \div 100 + y \div 400 - 32045

\* Faulty variant: the year is rounded down a day too late.
getYearMonthDayLate(jd) ==
    LET a == jd + 32044
        b == (4 * a + 3) \div 146097
        c == a - (b * 146097) \div 4
        d == (4 * c) \div 1461
        e == c - (1461 * d) \div 4
        m == (5 * e + 2) \div 153
    IN  [year  |-> b * 100 + d - 4800 + m \div 10,
         month |-> m + 3 - 12 * (m \div 10),
         day   |-> e - (153 * m + 2) \div 5 + 1]

getYearMonthDay(jd) ==
    LET a == jd + 32044
        b == (4 * a + 3) \div 146097
        c == a - (b * 146097) \div 4
        d == (4 * c + 3) \div 1461
        e == c - (1461 * d) \div 4
        m == (5 * e + 2) \div 153
    IN  [year  |-> b * 100 + d - 4800 + m \div 10,
         month |-> m + 3 - 12 * (m \div 10),
         day   |-> e - (153 * m + 2) \div 5 + 1]

NumDaysPerWeek == 7
weekDayOf(jd) == (jd + 1) % NumDaysPerWeek

\* The constructor from a struct tm, whose years count from 1900 and whose
\* months count from 0.
fromTm(tm) == getJulianDayNum(tm.tm_year + 1900, tm.tm_mon + 1, tm.tm_mday)

validDate(jd) == jd > 0

-----------------------------------------------------------------------------
(* The walk of the unit test *)

kMonthsOfYear == 12

isLeapYear(year) == year % 400 = 0 \/ (year % 100 # 0 /\ year % 4 = 0)

daysOfMonth(year, month) ==
    IF month = 2 /\ isLeapYear(year) THEN 29
    ELSE <<31, 28, 31, 30, 31, 30, 31, 31, 30, 31, 30, 31>>[month]

DateInit == /\ date = [year |-> FirstYear, month |-> 1, day |-> 1]
            /\ julianDayNumber = FirstJulianDay
            /\ weekDay = FirstWeekDay

\* One turn of the innermost of the three loops and the step to the next date.
nextDay ==
    /\ \/ /\ date.day < daysOfMonth(date.year, date.month)
          /\ date' = [date EXCEPT !.day = @ + 1]
       \/ /\ date.day = daysOfMonth(date.year, date.month) /\ date.month < kMonthsOfYear
          /\ date' = [date EXCEPT !.month = @ + 1, !.day = 1]
       \/ /\ date.day = daysOfMonth(date.year, date.month) /\ date.month = kMonthsOfYear
          /\ date.year < LastYear
          /\ date' = [year |-> date.year + 1, month |-> 1, day |-> 1]
    /\ julianDayNumber' = julianDayNumber + 1
    /\ weekDay' = (weekDay + 1) % 7

-----------------------------------------------------------------------------
\* The types of the walk.
DateTypeOK == /\ date \in [year: FirstYear..LastYear, month: 1..12, day: 1..31]
              /\ julianDayNumber \in Nat /\ weekDay \in 0..6

\* The assertions of the unit test, on every day of the walk: the arithmetic of
\* Date agrees with the calendar in both directions and on the weekday, through
\* every leap year and every century, also when the date comes as a struct tm;
\* and February 29 of other years is March 1.
DateIsCalendar ==
    /\ getJulianDayNum(date.year, date.month, date.day) = julianDayNumber
    /\ getYearMonthDay(julianDayNumber) = date
    /\ weekDayOf(julianDayNumber) = weekDay
    /\ fromTm([tm_year |-> date.year - 1900, tm_mon |-> date.month - 1, tm_mday |-> date.day])
          = julianDayNumber
    /\ validDate(julianDayNumber)
    /\ getJulianDayNum(date.year, 3, 1) - getJulianDayNum(date.year, 2, 29)
          = IF isLeapYear(date.year) THEN 1 ELSE 0
=============================================================================
