\* One lease, two months of bills that move while the lists are read; four days pass, two
\* checkouts a bill.
SPECIFICATION OverviewSpec
CONSTANTS
    Owners = {o1}
    Rooms = {r1}
    Tenants = {t1}
    Assignments = {a1}
    Months = {1, 2}
    Rents = {1}
    DueDays = {1, 3}
    FirstDay <- MCFirstDay
    LastDay <- MCLastDay
    BillSuffix <- MCDistinctSuffix
    CheckoutTTL = 1
    PatchableRoomStatuses = {}
    MaxToday = 4
    MaxCheckouts = 2
    Absent = Absent
INVARIANTS
    OverviewTypeOK
    OutstandingBillShown
    OneOpenCheckout
    OverdueOnlyWhenLate
