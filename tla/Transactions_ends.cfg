\* Two connections that bill two active leases, or onboard, cancel, pay and check out one.
SPECIFICATION MCFairSpec
CONSTANTS
    Owners = {o1}
    Rooms = {1, 2}
    Tenants = {1, 2}
    Assignments = {1, 2}
    Months = {1, 2}
    Rents = {1}
    DueDays = {1}
    FirstDay <- MCFirstDay
    LastDay <- MCLastDay
    BillSuffix <- MCDistinctSuffix
    CheckoutTTL = 1
    PatchableRoomStatuses = {}
    MaxToday = 0
    MaxCheckouts = 1
    Absent = Absent
    Txs = {x1, x2}
    CreatedAt <- MCInOrder
INVARIANTS
    TxTypeOK
    MoneySideNeverDeadlocks
PROPERTIES
    EveryTransactionEnds
