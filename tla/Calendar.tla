------------------------------- MODULE Calendar -------------------------------
(***************************************************************************)
(* Billing periods on the real calendar: what computeBillingPeriod and     *)
(* monthlyBillingPeriod compute with Go's time.Date and AddDate.  Tenancy  *)
(* takes the first and the last day of its months as constants; these are  *)
(* the ones that the code gives them.                                      *)
(*                                                                         *)
(* A date is the number of its day.                                        *)
(***************************************************************************)
EXTENDS Integers

Leap(year) == year % 4 = 0 /\ (year % 100 # 0 \/ year % 400 = 0)

\* Days of a common year before each month.
DaysBefore == <<0, 31, 59, 90, 120, 151, 181, 212, 243, 273, 304, 334>>

\* Leap years before the year.
LeapsBefore(year) == (year - 1) \div 4 - (year - 1) \div 100 + (year - 1) \div 400

\* time.Date for a month in 1 .. 13, of which the last is January of the next year, and any day.
Date(year, month, day) ==
    LET y == IF month = 13 THEN year + 1 ELSE year
        m == IF month = 13 THEN 1 ELSE month
    IN  365 * y + LeapsBefore(y) + DaysBefore[m]
        + (IF Leap(y) /\ m > 2 THEN 1 ELSE 0) + day

\* The first day of the next month, then a day back.
MonthEnd(year, month) == Date(year, month + 1, 1) - 1

\* time.Time.Day of a date in the month.
DayOf(date, year, month) == date - Date(year, month, 1) + 1

Clamped(dueDay, year, month) ==
    LET daysInMonth == DayOf(MonthEnd(year, month), year, month)
    IN  IF dueDay > daysInMonth THEN daysInMonth ELSE dueDay

\* The first bill: from the start date to the end of its month.
computeBillingPeriod(year, month, day, dueDay) ==
    [start |-> Date(year, month, day),
     end   |-> MonthEnd(year, month),
     due   |-> Date(year, month, Clamped(dueDay, year, month))]

\* A later bill: the whole month.
monthlyBillingPeriod(year, month, dueDay) ==
    [start |-> Date(year, month, 1),
     end   |-> MonthEnd(year, month),
     due   |-> Date(year, month, Clamped(dueDay, year, month))]

-----------------------------------------------------------------------------
(* The reference: the lengths of months as everybody learns them. *)

MonthLength(year, month) ==
    IF month = 2 THEN IF Leap(year) THEN 29 ELSE 28
    ELSE IF month \in {4, 6, 9, 11} THEN 30 ELSE 31

Least(a, b) == IF a < b THEN a ELSE b

\* A period ends on the month's last day; the due date is the due day, or in a shorter month
\* its last day; and the next month's period starts on the day after the end, so that the
\* first bill and the monthly ones cover every day of a tenancy once.
PeriodCorrect(year, month, day, dueDay) ==
    LET first == computeBillingPeriod(year, month, day, dueDay)
        whole == monthlyBillingPeriod(year, month, dueDay)
        next  == IF month = 12 THEN monthlyBillingPeriod(year + 1, 1, dueDay)
                               ELSE monthlyBillingPeriod(year, month + 1, dueDay)
    IN  /\ first.start = whole.start + day - 1
        /\ first.end = whole.start + MonthLength(year, month) - 1
        /\ first.due = whole.start + Least(dueDay, MonthLength(year, month)) - 1
        /\ whole.end = first.end /\ whole.due = first.due
        /\ next.start = first.end + 1
=============================================================================
