------------------------------- MODULE Tenancy -------------------------------
(***************************************************************************)
(* The owner's core data and the operations on it, each handler as the     *)
(* effect its database transaction commits: room and tenant management,    *)
(* onboarding, monthly billing, manual payment and gateway checkout.       *)
(*                                                                         *)
(* A table is a function from row identities (the UUID pool) to rows;      *)
(* Absent stands for "no such row yet".  The transactions that lock what   *)
(* they read (SELECT ... FOR UPDATE) are one step.  The two operations     *)
(* that read without a lock and write later (RoomService.Delete and        *)
(* BillService.GenerateMonthly) are two steps, with what was read kept in  *)
(* a variable in between.  A request that ends in an error rolls back and  *)
(* changes nothing: it is the absence of a step.                           *)
(***************************************************************************)
EXTENDS Integers, Sequences

CONSTANTS
    Owners, Rooms, Tenants, Assignments,  \* identities of rows
    Months,                  \* billing months (YYYY-MM), abstract
    Rents, DueDays,          \* monthly_rent and payment_due_day requests carry
    FirstDay, LastDay,       \* the calendar: first and last day of each month
    BillSuffix,              \* first 8 hex digits of an assignment's UUID
    CheckoutTTL,             \* days a gateway checkout stays open
    PatchableRoomStatuses,   \* the statuses PATCH /owner/rooms is sent
    MaxToday, MaxCheckouts,  \* bounds: days that pass, checkouts per bill
    Absent                   \* a row that does not exist

RoomStatus       == {"available", "reserved", "occupied", "maintenance", "inactive"}
TenantStatus     == {"pending_payment", "active", "moved_out", "cancelled"}
AssignmentStatus == {"pending_payment", "active", "cancelled"}
BillStatus       == {"unpaid", "overdue", "gateway_pending", "paid", "cancelled"}

LiveStatus  == {"pending_payment", "active"}          \* holds the room and the tenant
Collectible == {"unpaid", "overdue", "gateway_pending"} \* still to be paid

BillKeys == Assignments \X Months   \* UNIQUE (room_assignment_id, billing_month)

Room       == [owner : Owners, status : RoomStatus, deleted : BOOLEAN]
Tenant     == [owner : Owners, status : TenantStatus, deleted : BOOLEAN]
Assignment == [owner : Owners, room : Rooms, tenant : Tenants, rent : Rents,
               dueDay : DueDays, start : Months, status : AssignmentStatus]
Bill       == [owner : Owners, room : Rooms, tenant : Tenants, amount : Rents,
               due : Int, status : BillStatus]
Payment    == [owner : Owners, room : Rooms, tenant : Tenants, amount : Rents]
Checkout   == [owner : Owners, tenant : Tenants, amount : Rents, expires : Int]
BillRun    == [owner : Owners, seen : (SUBSET Assignments) \ {{}}]

ASSUME CalendarAssumption ==
    /\ FirstDay \in [Months -> Int] /\ LastDay \in [Months -> Int]
    /\ DueDays \subseteq Nat
ASSUME BoundsAssumption ==
    MaxToday \in Nat /\ CheckoutTTL \in Nat /\ MaxCheckouts \in Nat
ASSUME StatusAssumption == PatchableRoomStatuses \subseteq RoomStatus
ASSUME AbsentAssumption ==
    Absent \notin Room \cup Tenant \cup Assignment \cup Bill

VARIABLES
    rooms, tenants,  \* tables rooms and tenants
    assignments,     \* table room_assignments
    bills,           \* table bills, by assignment and month
    payments,        \* table payments: the rows of each bill, in order
    checkouts,       \* table payment_gateway_transactions: the rows of each bill
    deleting,        \* rooms whose DELETE request has passed its status check
    billRuns,        \* what GenerateMonthly runs have read: they may still insert from it
    today            \* the API server's clock, in days

leases == <<rooms, tenants, assignments>>
money  == <<bills, payments, checkouts>>
vars   == <<leases, money, deleting, billRuns, today>>

\* The tables hold rows of their schema's types and only statuses that the code knows: the
\* columns are plain text, and no constraint of the schema keeps others out.
TypeOK ==
    /\ rooms       \in [Rooms -> Room \cup {Absent}]
    /\ tenants     \in [Tenants -> Tenant \cup {Absent}]
    /\ assignments \in [Assignments -> Assignment \cup {Absent}]
    /\ bills       \in [BillKeys -> Bill \cup {Absent}]
    /\ payments    \in [BillKeys -> Seq(Payment)]
    /\ checkouts   \in [BillKeys -> Seq(Checkout)]
    /\ deleting    \in SUBSET Rooms
    /\ billRuns    \in SUBSET BillRun
    /\ today       \in Nat

Init ==
    /\ rooms       = [r \in Rooms |-> Absent]
    /\ tenants     = [t \in Tenants |-> Absent]
    /\ assignments = [a \in Assignments |-> Absent]
    /\ bills       = [b \in BillKeys |-> Absent]
    /\ payments    = [b \in BillKeys |-> <<>>]
    /\ checkouts   = [b \in BillKeys |-> <<>>]
    /\ deleting    = {}
    /\ billRuns    = {}
    /\ today       = 0

-----------------------------------------------------------------------------
(* What the owner-scoped, not-soft-deleted WHERE clauses select. *)

RoomVisible(o, r) ==
    rooms[r] # Absent /\ rooms[r].owner = o /\ ~rooms[r].deleted
TenantVisible(o, t) ==
    tenants[t] # Absent /\ tenants[t].owner = o /\ ~tenants[t].deleted
AssignmentOf(o, a) == assignments[a] # Absent /\ assignments[a].owner = o
BillOf(o, b)       == bills[b] # Absent /\ bills[b].owner = o

LiveAssignments ==
    {a \in Assignments : assignments[a] # Absent /\ assignments[a].status \in LiveStatus}
MutLiveInRoom(r) ==  \* mutant: counts paid tenancies only
    {a \in LiveAssignments : assignments[a].room = r /\ assignments[a].status = "active"}
LiveInRoom(r)    == {a \in LiveAssignments : assignments[a].room = r}
LiveForTenant(t) == {a \in LiveAssignments : assignments[a].tenant = t}

\* The due date: the assignment's due day in the month, clamped to its end.
DueDate(m, dueDay) ==
    IF FirstDay[m] + dueDay - 1 > LastDay[m] THEN LastDay[m] ELSE FirstDay[m] + dueDay - 1

\* INV-<month>-<suffix>, which UNIQUE (owner_id, bill_number) compares.
BillNumber(b) == <<b[2], BillSuffix[b[1]]>>
NumberTaken(o, b) ==
    \E other \in BillKeys \ {b} : BillOf(o, other) /\ BillNumber(other) = BillNumber(b)

NewBill(row, m) ==
    [owner |-> row.owner, room |-> row.room, tenant |-> row.tenant, amount |-> row.rent,
     due |-> DueDate(m, row.dueDay), status |-> "unpaid"]

\* The scoped UPDATE of a status, ErrNotFound (so rollback) when the row is gone.
UpdateRoomStatus(o, r, status) ==
    RoomVisible(o, r) /\ rooms' = [rooms EXCEPT ![r].status = status]
UpdateTenantStatus(o, t, status) ==
    TenantVisible(o, t) /\ tenants' = [tenants EXCEPT ![t].status = status]

-----------------------------------------------------------------------------
(* Room management *)

CreateRoom(o, r, status) ==
    /\ rooms[r] = Absent
    /\ rooms' = [rooms EXCEPT ![r] = [owner |-> o, status |-> status, deleted |-> FALSE]]
    /\ UNCHANGED <<tenants, assignments, money, deleting, billRuns, today>>

PatchRoom(o, r, status) ==
    /\ UpdateRoomStatus(o, r, status)
    /\ UNCHANGED <<tenants, assignments, money, deleting, billRuns, today>>

\* Delete reads the room without a lock and refuses a reserved or occupied one ...
CheckRoomDelete(o, r) ==
    /\ RoomVisible(o, r)
    /\ rooms[r].status \notin {"occupied", "reserved"}
    /\ deleting' = deleting \cup {r}
    /\ UNCHANGED <<leases, money, billRuns, today>>

\* ... and soft-deletes it in a later statement, which looks at deleted_at alone.
SoftDeleteRoom(r) ==
    /\ r \in deleting /\ rooms[r] # Absent
    /\ deleting' = deleting \ {r}
    /\ rooms' = [rooms EXCEPT ![r].deleted = TRUE]
    /\ UNCHANGED <<tenants, assignments, money, billRuns, today>>

(* Tenant management *)

MutPatchable  == TenantStatus                             \* mutant: activation by hand
MutEndedTenant == {"moved_out", "cancelled", "ended"}     \* mutant: a status of another table
PatchableTenantStatuses == {"moved_out", "cancelled"}

CreateTenant(o, t) ==
    /\ tenants[t] = Absent
    /\ tenants' = [tenants EXCEPT ![t] =
                      [owner |-> o, status |-> "pending_payment", deleted |-> FALSE]]
    /\ UNCHANGED <<rooms, assignments, money, deleting, billRuns, today>>

PatchTenant(o, t, status) ==
    /\ UpdateTenantStatus(o, t, status)
    /\ UNCHANGED <<rooms, assignments, money, deleting, billRuns, today>>

DeleteTenant(o, t) ==
    /\ TenantVisible(o, t)
    /\ tenants' = [tenants EXCEPT ![t].deleted = TRUE]
    /\ UNCHANGED <<rooms, assignments, money, deleting, billRuns, today>>

-----------------------------------------------------------------------------
(* Onboarding *)

AssignRoom(o, a, r, t, rent, dueDay, m) ==
    LET row == [owner |-> o, room |-> r, tenant |-> t, rent |-> rent,
                dueDay |-> dueDay, start |-> m, status |-> "pending_payment"]
    IN  /\ assignments[a] = Absent
        /\ rooms[r] # Absent /\ rooms[r].status = "available"
        /\ LiveInRoom(r) = {}
        /\ LiveForTenant(t) = {}
        /\ ~NumberTaken(o, <<a, m>>)
        /\ assignments' = [assignments EXCEPT ![a] = row]
        /\ bills' = [bills EXCEPT ![<<a, m>>] = NewBill(row, m)]
        /\ UpdateRoomStatus(o, r, "reserved")
        /\ UpdateTenantStatus(o, t, "pending_payment")
        /\ UNCHANGED <<payments, checkouts, deleting, billRuns, today>>

MutCancelUnpaidBills(a) ==  \* mutant: forgets bills with a checkout
    bills' = [b \in BillKeys |->
                IF b[1] = a /\ bills[b] # Absent /\ bills[b].status \in {"unpaid", "overdue"}
                THEN [bills[b] EXCEPT !.status = "cancelled"] ELSE bills[b]]
CancelUnpaidBills(a) ==
    bills' = [b \in BillKeys |->
                IF b[1] = a /\ bills[b] # Absent /\ bills[b].status \in Collectible
                THEN [bills[b] EXCEPT !.status = "cancelled"] ELSE bills[b]]

CancelOnboarding(o, a) ==
    /\ AssignmentOf(o, a)
    /\ assignments[a].status = "pending_payment"
    /\ assignments' = [assignments EXCEPT ![a].status = "cancelled"]
    /\ CancelUnpaidBills(a)
    /\ UpdateRoomStatus(o, assignments[a].room, "available")
    /\ UpdateTenantStatus(o, assignments[a].tenant, "pending_payment")
    /\ UNCHANGED <<payments, checkouts, deleting, billRuns, today>>

-----------------------------------------------------------------------------
(* Billing.  GenerateMonthly lists the active assignments without a lock and *)
(* inserts their bills of one month later.  Nothing serialises the runs of   *)
(* an owner, so a read is kept: any number of runs, of any months, may have  *)
(* made it and insert at any later moment.  A run that fails, on a bill      *)
(* number already taken for instance, rolls back: it never inserts, as one   *)
(* that found no lease.                                                      *)

MutActiveAssignments(o) == {a \in LiveAssignments : AssignmentOf(o, a)}  \* mutant
ActiveAssignments(o) ==
    {a \in Assignments : AssignmentOf(o, a) /\ assignments[a].status = "active"}

ReadActiveAssignments(o) ==
    /\ ActiveAssignments(o) # {}
    /\ billRuns' = billRuns \cup {[owner |-> o, seen |-> ActiveAssignments(o)]}
    /\ UNCHANGED <<leases, money, deleting, today>>

MutMissingBills(run, m) == run.seen \X {m}  \* mutant: overwrites
MissingBills(run, m) == {b \in run.seen \X {m} : bills[b] = Absent}

InsertMonthlyBills(run, m) ==
    LET new == MissingBills(run, m) IN
    /\ run \in billRuns
    /\ \A b \in new : /\ ~NumberTaken(run.owner, b)
                      /\ \A c \in new : BillNumber(c) = BillNumber(b) => c = b
    /\ bills' = [b \in BillKeys |->
                   IF b \in new THEN NewBill(assignments[b[1]], b[2]) ELSE bills[b]]
    /\ UNCHANGED <<leases, payments, checkouts, deleting, billRuns, today>>

MutDueToday(b)  == bills[b].status = "unpaid" /\ bills[b].due <= today  \* mutant
PastDue(b)      == bills[b].status = "unpaid" /\ bills[b].due < today

MarkOverdue(o) ==
    /\ bills' = [b \in BillKeys |->
                   IF BillOf(o, b) /\ PastDue(b)
                   THEN [bills[b] EXCEPT !.status = "overdue"] ELSE bills[b]]
    /\ UNCHANGED <<leases, payments, checkouts, deleting, billRuns, today>>

-----------------------------------------------------------------------------
(* Payment *)

PaymentFor(bill, amount) ==
    [owner |-> bill.owner, room |-> bill.room, tenant |-> bill.tenant, amount |-> amount]

MutActivateTenancy(o, b) ==  \* mutant: leaves the room reserved
    IF assignments[b[1]].status = "pending_payment"
    THEN /\ assignments' = [assignments EXCEPT ![b[1]].status = "active"]
         /\ UpdateTenantStatus(o, bills[b].tenant, "active")
         /\ UNCHANGED rooms
    ELSE UNCHANGED leases
\* The first payment of a pending assignment activates the tenancy.
ActivateTenancy(o, b) ==
    IF assignments[b[1]].status = "pending_payment"
    THEN /\ assignments' = [assignments EXCEPT ![b[1]].status = "active"]
         /\ UpdateTenantStatus(o, bills[b].tenant, "active")
         /\ UpdateRoomStatus(o, bills[b].room, "occupied")
    ELSE UNCHANGED leases

\* The checks on the locked bill, in either way of settling it.
MutPayable(o, b, amount) ==  \* mutant: takes the amount from the request
    BillOf(o, b) /\ bills[b].status \notin {"paid", "cancelled"}
MutPayableUnpaid(o, b, amount) ==  \* mutant: refuses a bill with a checkout
    BillOf(o, b) /\ bills[b].status \in {"unpaid", "overdue"} /\ amount = bills[b].amount
Payable(o, b, amount) ==
    /\ BillOf(o, b)
    /\ bills[b].status \notin {"paid", "cancelled"}
    /\ amount = bills[b].amount

SettleInFull(o, b, amount) ==
    /\ Payable(o, b, amount)
    /\ payments[b] = <<>>                       \* UNIQUE (bill_id)
    /\ payments' = [payments EXCEPT ![b] = Append(@, PaymentFor(bills[b], amount))]
    /\ bills' = [bills EXCEPT ![b].status = "paid"]
    /\ ActivateTenancy(o, b)

RecordManual(o, b, amount) ==
    /\ SettleInFull(o, b, amount)
    /\ UNCHANGED <<checkouts, deleting, billRuns, today>>

-----------------------------------------------------------------------------
(* Gateway checkout.  A request that finds a live checkout returns it.       *)

LiveCheckouts(b) == {i \in DOMAIN checkouts[b] : checkouts[b][i].expires > today}

MutNeedsCheckout(b) == bills[b].status \in Collectible  \* mutant: never reuses
NeedsCheckout(b) ==
    \/ bills[b].status \in {"unpaid", "overdue"}
    \/ bills[b].status = "gateway_pending" /\ LiveCheckouts(b) = {}

MutTenantBillOf(o, t, b) == bills[b] # Absent /\ bills[b].tenant = t  \* mutant: any owner's
TenantBillOf(o, t, b) == BillOf(o, b) /\ bills[b].tenant = t

NewCheckout(o, bill) ==
    [owner |-> o, tenant |-> bill.tenant, amount |-> bill.amount,
     expires |-> today + CheckoutTTL]

PayBill(o, t, b) ==
    /\ TenantBillOf(o, t, b)
    /\ NeedsCheckout(b)
    /\ Len(checkouts[b]) < MaxCheckouts
    /\ checkouts' = [checkouts EXCEPT ![b] = Append(@, NewCheckout(o, bills[b]))]
    /\ bills' = [bills EXCEPT ![b].status = "gateway_pending"]
    /\ UNCHANGED <<leases, payments, deleting, billRuns, today>>

Tick ==
    /\ today < MaxToday
    /\ today' = today + 1
    /\ UNCHANGED <<leases, money, deleting, billRuns>>

-----------------------------------------------------------------------------

ManageRooms ==
    \/ \E o \in Owners, r \in Rooms :
          \/ \E s \in {"available", "maintenance", "inactive"} : CreateRoom(o, r, s)
          \/ \E s \in PatchableRoomStatuses : PatchRoom(o, r, s)
          \/ CheckRoomDelete(o, r)
    \/ \E r \in Rooms : SoftDeleteRoom(r)

ManageTenants ==
    \E o \in Owners, t \in Tenants :
       \/ CreateTenant(o, t)
       \/ \E s \in PatchableTenantStatuses : PatchTenant(o, t, s)
       \/ DeleteTenant(o, t)

Manage == ManageRooms \/ ManageTenants

Onboard ==
    \E o \in Owners, a \in Assignments :
       \/ \E r \in Rooms, t \in Tenants, rent \in Rents, d \in DueDays, m \in Months :
             AssignRoom(o, a, r, t, rent, d, m)
       \/ CancelOnboarding(o, a)

Billing ==
    \/ \E o \in Owners : ReadActiveAssignments(o) \/ MarkOverdue(o)
    \/ \E run \in billRuns, m \in Months : InsertMonthlyBills(run, m)

Pay ==
    \E o \in Owners, b \in BillKeys :
       \/ \E amount \in Rents : RecordManual(o, b, amount)
       \/ \E t \in Tenants : PayBill(o, t, b)

Next == Manage \/ Onboard \/ Billing \/ Pay \/ Tick

Spec == Init /\ [][Next]_vars

-----------------------------------------------------------------------------
(* Properties *)

\* A payment and a checkout name the parties of their bill, and a checkout its amount.
MoneyLinked ==
    \A b \in BillKeys :
        /\ \A i \in DOMAIN payments[b] :
              /\ bills[b] # Absent
              /\ payments[b][i].owner = bills[b].owner
              /\ payments[b][i].room = bills[b].room
              /\ payments[b][i].tenant = bills[b].tenant
        /\ \A i \in DOMAIN checkouts[b] :
              /\ bills[b] # Absent
              /\ checkouts[b][i].owner = bills[b].owner
              /\ checkouts[b][i].tenant = bills[b].tenant
              /\ checkouts[b][i].amount = bills[b].amount

\* BR-001, BR-022: the rows that an assignment, a bill, a payment or a checkout joins belong
\* to one owner and name the same room, tenant and amount where they name one, whoever's
\* request wrote them.  A checkout takes its owner from the request, not from the bill.
OwnersNeverMix ==
    /\ \A a \in Assignments : assignments[a] # Absent =>
          LET row == assignments[a] IN
          /\ rooms[row.room] # Absent /\ rooms[row.room].owner = row.owner
          /\ tenants[row.tenant] # Absent /\ tenants[row.tenant].owner = row.owner
    /\ \A b \in BillKeys : bills[b] # Absent =>
          /\ assignments[b[1]] # Absent
          /\ bills[b].owner = assignments[b[1]].owner
          /\ bills[b].room = assignments[b[1]].room
          /\ bills[b].tenant = assignments[b[1]].tenant
    /\ MoneyLinked

\* BR-015: what a monthly run has read stays true for as long as it may insert: the leases
\* it saw are still its owner's and active, although nothing locks them.
MonthlyRunStaysValid ==
    \A run \in billRuns : \A a \in run.seen :
        AssignmentOf(run.owner, a) /\ assignments[a].status = "active"

\* BR-010, BR-011: no room and no tenant is in two pending or active assignments,
\* even when the owner has patched a reserved room back to available.
RoomAndTenantExclusive ==
    \A a1, a2 \in LiveAssignments : a1 # a2 =>
        /\ assignments[a1].room # assignments[a2].room
        /\ assignments[a1].tenant # assignments[a2].tenant

\* BR-006, BR-008, BR-014: a pending assignment has exactly one bill, its first, still
\* to be paid; an active one has its first bill paid.  Monthly runs that race with an
\* onboarding, a cancellation or a payment never break this.
FirstPaymentGatesTenancy ==
    \A a \in Assignments : assignments[a] # Absent =>
        LET first == <<a, assignments[a].start>> IN
        /\ assignments[a].status = "pending_payment" =>
              /\ bills[first] # Absent /\ bills[first].status \in Collectible
              /\ \A m \in Months \ {assignments[a].start} : bills[<<a, m>>] = Absent
        /\ assignments[a].status = "active" =>
              bills[first] # Absent /\ bills[first].status = "paid"

\* A cancelled onboarding leaves nothing to collect and has never taken money, in
\* every order of cancel, pay, checkout and monthly run.
CancelledOwesNothing ==
    \A b \in BillKeys :
        bills[b] # Absent /\ assignments[b[1]].status = "cancelled" =>
            bills[b].status = "cancelled" /\ payments[b] = <<>>

\* BR-019, BR-028..030: a bill is paid exactly when it has one payment, of the rent
\* agreed at assignment, made by that assignment's tenant for its room.
PaidOnceInFull ==
    \A b \in BillKeys :
        payments[b] =
            IF bills[b] # Absent /\ bills[b].status = "paid"
            THEN <<[owner |-> assignments[b[1]].owner, room |-> assignments[b[1]].room,
                    tenant |-> assignments[b[1]].tenant, amount |-> assignments[b[1]].rent]>>
            ELSE <<>>

\* BR-021: a bill never has two checkouts open at once.  PayBill looks for an open one only
\* of a gateway_pending bill, and no code does what BR-018 and BR-027 describe, a bill that
\* returns from there to unpaid or overdue.
OneOpenCheckout ==
    \A b \in BillKeys : \A i, j \in LiveCheckouts(b) : i = j

\* BR-008: an active tenant has an active assignment, whatever the owner patches.
ActiveTenantHasTenancy ==
    \A t \in Tenants : tenants[t] # Absent /\ tenants[t].status = "active" =>
        \E a \in Assignments : /\ assignments[a] # Absent
                               /\ assignments[a].tenant = t /\ assignments[a].status = "active"

\* BR-005, BR-006, with rooms patched at any time: the step that enters, activates or
\* cancels a lease sets the room of that lease and no other, and no step else moves a room
\* to a status that a PATCH does not carry.
RoomFor == [pending_payment |-> "reserved", active |-> "occupied", cancelled |-> "available"]
RoomFollows ==
    LET changed == {a \in Assignments : assignments'[a] # assignments[a]} IN
    /\ \A a \in changed :
          rooms'[assignments'[a].room].status = RoomFor[assignments'[a].status]
    /\ \A r \in Rooms : rooms[r] # Absent /\ rooms'[r].status # rooms[r].status =>
          IF changed = {} THEN rooms'[r].status \in PatchableRoomStatuses
                          ELSE \E a \in changed : assignments'[a].room = r
RoomFollowsTenancy == [][RoomFollows]_vars

\* BR-018: a bill is marked overdue only after its due day, which lies in its month
\* however long the month is.
OverdueOnlyWhenLate ==
    \A b \in BillKeys : bills[b] # Absent =>
        /\ bills[b].due <= LastDay[b[2]]
        /\ bills[b].status = "overdue" => bills[b].due < today

\* What is settled stays: a paid or cancelled bill and its payments never change again,
\* an assignment never leaves active or cancelled, and no agreed term is rewritten
\* (BR-012: later bills keep the rent of the assignment).
HistoryIsFinal ==
    [][/\ \A b \in BillKeys : bills[b] # Absent =>
            /\ bills'[b] # Absent
            /\ bills'[b].amount = bills[b].amount /\ bills'[b].due = bills[b].due
            /\ bills[b].status \in {"paid", "cancelled"} =>
                  bills'[b] = bills[b] /\ payments'[b] = payments[b]
       /\ \A a \in Assignments : assignments[a] # Absent =>
            /\ assignments'[a] # Absent
            /\ assignments'[a].rent = assignments[a].rent
            /\ assignments[a].status # "pending_payment" => assignments'[a] = assignments[a]
      ]_vars

\* room_service.go says of a reserved or occupied room that it "must first be vacated
\* before it can be removed".
RoomVacatedBeforeRemoval ==
    \A a \in LiveAssignments : ~rooms[assignments[a].room].deleted

\* BR-009: when a tenant moves out, the active assignment has ended.
MovedOutTenantHasLeft ==
    \A a \in Assignments : assignments[a] # Absent /\ assignments[a].status = "active" =>
        tenants[assignments[a].tenant].status # "moved_out"

=============================================================================
