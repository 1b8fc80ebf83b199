\* Two owners that may register at once, two tenants, two spellings of one address.
SPECIFICATION Spec
CONSTANTS
    Owners = {o1, o2}
    OwnerUsers = {u1, u2}
    Tenants = {t1, t2}
    Emails = {"ann@x", "Ann@x"}
    Passwords = {p1}
    Lower <- MCLower
    Conns = {c1, c2}
    AccessTTL = 1
    RefreshTTL = 2
    MaxNow = 2
    Absent = Absent
SYMMETRY MCSymmetry
INVARIANTS
    AccountsTypeOK
    EveryOwnerHasOneLogin
    AcceptedTokenNamesItsAccount
    LoginFindsOneAccount
PROPERTIES
    DeletedTenantStaysOut
