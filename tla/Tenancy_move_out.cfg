\* PATCH of a tenant to moved_out during an active assignment.
SPECIFICATION Spec
CONSTANTS
    Owners = {o1}
    Rooms = {r1}
    Tenants = {t1}
    Assignments = {a1}
    Months = {1}
    Rents = {1}
    DueDays = {1}
    FirstDay <- MCFirstDay
    LastDay <- MCLastDay
    BillSuffix <- MCDistinctSuffix
    CheckoutTTL = 1
    PatchableRoomStatuses = {}
    MaxToday = 1
    MaxCheckouts = 1
    Absent = Absent
INVARIANTS
    MovedOutTenantHasLeft
