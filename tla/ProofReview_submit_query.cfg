\* The SQL of the repository at this commit.
SPECIFICATION ReviewSpec
CONSTANTS
    Owners = {o1}
    Rooms = {r1}
    Tenants = {t1, t2}
    Assignments = {a1}
    Months = {1}
    Rents = {p1, p2}
    DueDays = {1}
    FirstDay <- MCFirstDay
    LastDay <- MCLastDay
    BillSuffix <- MCDistinctSuffix
    CheckoutTTL = 1
    PatchableRoomStatuses = {}
    MaxToday = 1
    MaxCheckouts = 1
    Submissions = {s1, s2}
    ProofQueriesRun = FALSE
    Absent = Absent
SYMMETRY MCReviewSymmetry
INVARIANTS
    ClaimIsServed
