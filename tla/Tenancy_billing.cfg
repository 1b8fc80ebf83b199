\* Two leases of one room after each other, two months of bills, two rents.
SPECIFICATION Spec
CONSTANTS
    Owners = {o1}
    Rooms = {r1}
    Tenants = {t1, t2}
    Assignments = {a1, a2}
    Months = {1, 2}
    Rents = {p1, p2}
    DueDays = {1}
    FirstDay <- YearFirstDay
    LastDay <- YearLastDay
    BillSuffix <- MCDistinctSuffix
    CheckoutTTL = 1
    PatchableRoomStatuses = {}
    MaxToday = 1
    MaxCheckouts = 1
    Absent = Absent
SYMMETRY MCRentSymmetry
INVARIANTS
    MonthlyRunStaysValid
    FirstPaymentGatesTenancy
    CancelledOwesNothing
    PaidOnceInFull
PROPERTIES
    HistoryIsFinal
    ImplementsLeases
