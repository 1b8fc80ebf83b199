\* Two connections; one room and one tenant that two leases want, whose bill
\* numbers collide; two months of bills.
SPECIFICATION TxSpec
CONSTANTS
    Owners = {o1}
    Rooms = {r1}
    Tenants = {t1}
    Assignments = {a1, a2}
    Months = {1, 2}
    Rents = {1}
    DueDays = {1}
    FirstDay <- MCFirstDay
    LastDay <- MCLastDay
    BillSuffix <- MCSharedSuffix
    CheckoutTTL = 1
    PatchableRoomStatuses = {}
    MaxToday = 0
    MaxCheckouts = 1
    Absent = Absent
    Txs = {x1, x2}
    CreatedAt <- MCNoOrder
SYMMETRY MCSymmetry
INVARIANTS
    CheckedStaysTrue
    LeaseSideNeverDeadlocks
    NobodyWaitsInVain
PROPERTIES
    ActsAtomically
