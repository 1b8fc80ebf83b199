---------------------------- MODULE CalendarProofs ----------------------------
(***************************************************************************)
(* The billing periods are right in every month of every year.             *)
(***************************************************************************)
EXTENDS Calendar, TLAPS

\* A year is as long as its months: the step from December to January.
LEMMA YearLength ==
    ASSUME NEW year \in Nat
    PROVE  LeapsBefore(year + 1) = LeapsBefore(year) + (IF Leap(year) THEN 1 ELSE 0)
BY DEF LeapsBefore, Leap

LEMMA DateType ==
    ASSUME NEW year \in Nat, NEW month \in 1 .. 13, NEW day \in Int
    PROVE  Date(year, month, day) \in Int
BY DEF Date, LeapsBefore, DaysBefore

\* The end that the code computes is the month's last day.
LEMMA MonthEndIsLastDay ==
    ASSUME NEW year \in Nat, NEW month \in 1 .. 12
    PROVE  MonthEnd(year, month) = Date(year, month, 1) + MonthLength(year, month) - 1
<1>1. CASE month = 12
  BY <1>1, YearLength DEF MonthEnd, Date, MonthLength, DaysBefore, LeapsBefore
<1>2. CASE month \in 1 .. 11
  BY <1>2 DEF MonthEnd, Date, MonthLength, DaysBefore, LeapsBefore
<1> QED  BY <1>1, <1>2

\* Every bill's period and due date are those of PeriodCorrect, for all years, months, start
\* days and due days, whatever the length of the month.
THEOREM EveryPeriodCorrect ==
    ASSUME NEW year \in Nat, NEW month \in 1 .. 12, NEW day \in 1 .. 31, NEW dueDay \in 1 .. 31
    PROVE  PeriodCorrect(year, month, day, dueDay)
<1> DEFINE first == Date(year, month, 1)
           length == MonthLength(year, month)
<1>1. first \in Int /\ length \in 28 .. 31
  <2>1. month \in 1 .. 13 /\ month + 1 \in 1 .. 13 /\ 1 \in Int
    OBVIOUS
  <2>2. first \in Int
    BY <2>1, DateType
  <2>3. length \in 28 .. 31
    BY DEF MonthLength
  <2> QED  BY <2>2, <2>3
<1>2. \A d \in Int : Date(year, month, d) = first + d - 1
  BY DEF Date, LeapsBefore, DaysBefore
<1>3. MonthEnd(year, month) = first + length - 1
  BY MonthEndIsLastDay
<1>4. Clamped(dueDay, year, month) = Least(dueDay, length)
  BY <1>1, <1>3 DEF Clamped, DayOf, Least
<1>5. Least(dueDay, length) \in Int
  BY <1>1 DEF Least
<1>6. MonthEnd(year, month) + 1 = IF month = 12 THEN Date(year + 1, 1, 1) ELSE Date(year, month + 1, 1)
  <2>1. Date(year, month + 1, 1) = MonthEnd(year, month) + 1
    <3>1. month + 1 \in 1 .. 13 /\ 1 \in Int
      OBVIOUS
    <3>2. Date(year, month + 1, 1) \in Int
      BY <3>1, DateType
    <3> QED  BY <3>2 DEF MonthEnd
  <2>2. month = 12 => Date(year, month + 1, 1) = Date(year + 1, 1, 1)
    BY DEF Date
  <2> QED  BY <2>1, <2>2
<1> HIDE DEF first, length
<1>7. Date(year, month, Clamped(dueDay, year, month)) = first + Least(dueDay, length) - 1
  BY <1>2, <1>4, <1>5
<1>8. Date(year, month, day) = first + day - 1
  BY <1>2
<1> QED
  BY <1>1, <1>3, <1>5, <1>6, <1>7, <1>8
  DEF PeriodCorrect, computeBillingPeriod, monthlyBillingPeriod, first, length
=============================================================================
