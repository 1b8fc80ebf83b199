\* One bill, two submissions racing with each other, with direct payments and reviews.
SPECIFICATION ReviewSpec
CONSTANTS
    Owners = {o1}
    Rooms = {r1}
    Tenants = {t1, t2}
    Assignments = {a1}
    Months = {1}
    Rents = {p1, p2}
    DueDays = {1}
    FirstDay <- PastFirstDay
    LastDay <- PastLastDay
    BillSuffix <- MCDistinctSuffix
    CheckoutTTL = 1
    PatchableRoomStatuses = {}
    MaxToday = 0
    MaxCheckouts = 1
    Submissions = {s1, s2}
    ProofQueriesRun = TRUE
    Absent = Absent
SYMMETRY MCReviewSymmetry
INVARIANTS
    ReviewTypeOK
    ClaimMatchesBill
    OnePendingSubmission
    ApprovedIsPaid
    ProofResolves
PROPERTIES
    DecisionIsFinal
    Spec
