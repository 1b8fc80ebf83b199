------------------------------ MODULE MCTenancy ------------------------------
(* Small instances of Tenancy for TLC. *)
EXTENDS LeaseRefinement, TenantPortal, Calendar, TLC

\* Months of two days, from day 0 on: due day 1 is the first, 3 is clamped to the second.
MCFirstDay == [m \in Months |-> 2 * (m - 1)]
MCLastDay  == [m \in Months |-> 2 * m - 1]

\* The months of 2024, from its first day on.
YearFirstDay == [m \in Months |-> Date(2024, m, 1) - Date(2024, 1, 1)]
YearLastDay  == [m \in Months |-> MonthEnd(2024, m) - Date(2024, 1, 1)]

ASSUME PeriodsAreCorrect ==
    \A year \in {1900, 2000} \cup 2023 .. 2028, month \in 1 .. 12,
       day \in {1, 2, 15, 28}, dueDay \in {1, 15, 28, 29, 30, 31} :
          PeriodCorrect(year, month, day, dueDay)

\* Each assignment has a suffix of its own.
MCDistinctSuffix == [a \in Assignments |-> a]

MCSymmetry ==
    Permutations(Rooms) \cup Permutations(Tenants) \cup Permutations(Assignments)
MCOwnerSymmetry == MCSymmetry \cup Permutations(Owners)
MCRentSymmetry  == MCSymmetry \cup Permutations(Rents)
=============================================================================
