\* Two owners, two rooms, two tenants, two leases; rooms patched by hand.
SPECIFICATION Spec
CONSTANTS
    Owners = {o1, o2}
    Rooms = {r1, r2}
    Tenants = {t1, t2}
    Assignments = {a1, a2}
    Months = {1}
    Rents = {1}
    DueDays = {1}
    FirstDay <- YearFirstDay
    LastDay <- YearLastDay
    BillSuffix <- MCDistinctSuffix
    CheckoutTTL = 1
    PatchableRoomStatuses = {"available", "occupied"}
    MaxToday = 0
    MaxCheckouts = 1
    Absent = Absent
SYMMETRY MCOwnerSymmetry
INVARIANTS
    TypeOK
    RoomAndTenantExclusive
    ActiveTenantHasTenancy
    OwnersNeverMix
    PortalPagesAgree
    StuckOnlyByDeletion
PROPERTIES
    RoomFollowsTenancy
