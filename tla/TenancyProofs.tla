---------------------------- MODULE TenancyProofs ----------------------------
(***************************************************************************)
(* Proofs about Tenancy for every set of owners, rooms, tenants, leases,   *)
(* months and rents, and every bound.                                      *)
(***************************************************************************)
EXTENDS Tenancy, TLAPS

\* A row that is there is a typed row.
LEMMA RowTypes ==
    ASSUME TypeOK
    PROVE  /\ \A r \in Rooms : rooms[r] # Absent => rooms[r] \in Room
           /\ \A t \in Tenants : tenants[t] # Absent => tenants[t] \in Tenant
           /\ \A a \in Assignments : assignments[a] # Absent => assignments[a] \in Assignment
           /\ \A b \in BillKeys : bills[b] # Absent => bills[b] \in Bill
           /\ \A run \in billRuns : /\ run \in BillRun /\ run.owner \in Owners
                                     /\ run.seen \subseteq Assignments /\ run.seen # {}
  <1>1. ASSUME NEW run \in billRuns
        PROVE  /\ run \in BillRun /\ run.owner \in Owners
               /\ run.seen \subseteq Assignments /\ run.seen # {}
    BY DEF TypeOK, BillRun
  <1>2. QED
    BY <1>1 DEF TypeOK

LEMMA KeyParts ==
    ASSUME NEW b \in BillKeys
    PROVE  b[1] \in Assignments /\ b[2] \in Months /\ b = <<b[1], b[2]>>
  BY DEF BillKeys

LEMMA NewBillType ==
    ASSUME NEW row \in Assignment, NEW m \in Months
    PROVE  NewBill(row, m) \in Bill
  <1>1. DueDate(m, row.dueDay) \in Int
    <2>1. ASSUME NEW d \in DueDays PROVE d \in Int
      BY CalendarAssumption
    <2> row.dueDay \in Int
      BY <2>1 DEF Assignment
    <2>2. FirstDay[m] \in Int /\ LastDay[m] \in Int
      BY CalendarAssumption
    <2>3. QED
      BY <2>2 DEF DueDate
  <1>2. QED
    BY <1>1 DEF NewBill, Bill, Assignment, BillStatus

LEMMA RoomUpdateType ==
    ASSUME TypeOK, NEW o, NEW r \in Rooms, NEW s \in RoomStatus, UpdateRoomStatus(o, r, s)
    PROVE  rooms' \in [Rooms -> Room \cup {Absent}]
  BY RowTypes DEF TypeOK, UpdateRoomStatus, RoomVisible, Room

LEMMA TenantUpdateType ==
    ASSUME TypeOK, NEW o, NEW t \in Tenants, NEW s \in TenantStatus, UpdateTenantStatus(o, t, s)
    PROVE  tenants' \in [Tenants -> Tenant \cup {Absent}]
  BY RowTypes DEF TypeOK, UpdateTenantStatus, TenantVisible, Tenant

\* What the invariants below rest on: typed rows that reference each other correctly, and
\* monthly runs that hold active leases only.  TypeOK alone is not inductive: a monthly
\* run copies the lease rows it has seen, a payment updates the lease its bill names.
Base == TypeOK /\ OwnersNeverMix /\ MonthlyRunStaysValid

LEMMA BillLinks ==
    ASSUME Base, NEW b \in BillKeys, bills[b] # Absent
    PROVE  /\ bills[b] \in Bill /\ assignments[b[1]] \in Assignment
           /\ b[1] \in Assignments /\ b[2] \in Months
           /\ bills[b].owner = assignments[b[1]].owner
           /\ bills[b].room = assignments[b[1]].room
           /\ bills[b].tenant = assignments[b[1]].tenant
  BY RowTypes, KeyParts DEF Base, OwnersNeverMix

-----------------------------------------------------------------------------
(* Type correctness of each kind of step *)

LEMMA ManageTypes == ASSUME TypeOK, Manage PROVE TypeOK'
  <1>1. ASSUME NEW o \in Owners, NEW r \in Rooms,
               NEW s \in {"available", "maintenance", "inactive"}, CreateRoom(o, r, s)
        PROVE  TypeOK'
    BY <1>1 DEF CreateRoom, TypeOK, Room, RoomStatus, money
  <1>2. ASSUME NEW o \in Owners, NEW r \in Rooms,
               NEW s \in PatchableRoomStatuses, PatchRoom(o, r, s)
        PROVE  TypeOK'
    BY <1>2, RoomUpdateType, StatusAssumption DEF PatchRoom, TypeOK, money
  <1>3. ASSUME NEW o \in Owners, NEW r \in Rooms, CheckRoomDelete(o, r) PROVE TypeOK'
    BY <1>3 DEF CheckRoomDelete, TypeOK, leases, money
  <1>4. ASSUME NEW r \in Rooms, SoftDeleteRoom(r) PROVE TypeOK'
    BY <1>4, RowTypes DEF SoftDeleteRoom, TypeOK, Room, money
  <1>5. ASSUME NEW o \in Owners, NEW t \in Tenants, CreateTenant(o, t) PROVE TypeOK'
    BY <1>5 DEF CreateTenant, TypeOK, Tenant, TenantStatus, money
  <1>6. ASSUME NEW o \in Owners, NEW t \in Tenants,
               NEW s \in PatchableTenantStatuses, PatchTenant(o, t, s)
        PROVE  TypeOK'
    BY <1>6, TenantUpdateType DEF PatchTenant, TypeOK, money, PatchableTenantStatuses, TenantStatus
  <1>7. ASSUME NEW o \in Owners, NEW t \in Tenants, DeleteTenant(o, t) PROVE TypeOK'
    BY <1>7, RowTypes DEF DeleteTenant, TenantVisible, TypeOK, Tenant, money
  <1>8. QED
    BY <1>1, <1>2, <1>3, <1>4, <1>5, <1>6, <1>7 DEF Manage, ManageRooms, ManageTenants

LEMMA AssignEffect ==
    ASSUME NEW o \in Owners, NEW a \in Assignments, NEW r \in Rooms, NEW t \in Tenants,
           NEW rent \in Rents, NEW d \in DueDays, NEW m \in Months,
           AssignRoom(o, a, r, t, rent, d, m)
    PROVE  \E row \in Assignment :
              /\ row.owner = o /\ row.room = r /\ row.tenant = t
              /\ row.start = m /\ row.status = "pending_payment"
              /\ assignments[a] = Absent
              /\ assignments' = [assignments EXCEPT ![a] = row]
              /\ bills' = [bills EXCEPT ![<<a, m>>] = NewBill(row, m)]
  <1> DEFINE row == [owner |-> o, room |-> r, tenant |-> t, rent |-> rent,
                     dueDay |-> d, start |-> m, status |-> "pending_payment"]
  <1>1. row \in Assignment
    BY DEF Assignment, AssignmentStatus
  <1>2. QED
    BY <1>1 DEF AssignRoom

LEMMA OnboardTypes == ASSUME TypeOK, Onboard PROVE TypeOK'
  <1>1. ASSUME NEW o \in Owners, NEW a \in Assignments, NEW r \in Rooms, NEW t \in Tenants,
               NEW rent \in Rents, NEW d \in DueDays, NEW m \in Months,
               AssignRoom(o, a, r, t, rent, d, m)
        PROVE  TypeOK'
    <2>1. PICK row \in Assignment :
             /\ assignments' = [assignments EXCEPT ![a] = row]
             /\ bills' = [bills EXCEPT ![<<a, m>>] = NewBill(row, m)]
      BY <1>1, AssignEffect
    <2>2. NewBill(row, m) \in Bill
      BY NewBillType
    <2>3. /\ rooms' \in [Rooms -> Room \cup {Absent}]
          /\ tenants' \in [Tenants -> Tenant \cup {Absent}]
          /\ UNCHANGED <<payments, checkouts, deleting, billRuns, today>>
      BY <1>1, RoomUpdateType, TenantUpdateType DEF AssignRoom, RoomStatus, TenantStatus
    <2>4. QED
      BY <2>1, <2>2, <2>3 DEF TypeOK
  <1>2. ASSUME NEW o \in Owners, NEW a \in Assignments, CancelOnboarding(o, a) PROVE TypeOK'
    <2>1. assignments[a] \in Assignment
      BY <1>2, RowTypes DEF CancelOnboarding, AssignmentOf
    <2>2. /\ rooms' \in [Rooms -> Room \cup {Absent}]
          /\ tenants' \in [Tenants -> Tenant \cup {Absent}]
      BY <1>2, <2>1, RoomUpdateType, TenantUpdateType
         DEF CancelOnboarding, Assignment, RoomStatus, TenantStatus
    <2>3. assignments' \in [Assignments -> Assignment \cup {Absent}]
      BY <1>2, <2>1 DEF CancelOnboarding, TypeOK, Assignment, AssignmentStatus
    <2>4. bills' \in [BillKeys -> Bill \cup {Absent}]
      BY <1>2, RowTypes DEF CancelOnboarding, CancelUnpaidBills, TypeOK, Bill, BillStatus
    <2>5. QED
      BY <1>2, <2>2, <2>3, <2>4 DEF CancelOnboarding, TypeOK
  <1>3. QED
    BY <1>1, <1>2 DEF Onboard

LEMMA BillingTypes == ASSUME Base, Billing PROVE TypeOK'
  <1> TypeOK
    BY DEF Base
  <1>1. ASSUME NEW o \in Owners, ReadActiveAssignments(o) PROVE TypeOK'
    <2>1. [owner |-> o, seen |-> ActiveAssignments(o)] \in BillRun
      BY <1>1 DEF ReadActiveAssignments, ActiveAssignments, BillRun
    <2>2. QED
      BY <1>1, <2>1 DEF ReadActiveAssignments, TypeOK, leases, money
  <1>2. ASSUME NEW run \in billRuns, NEW m \in Months, InsertMonthlyBills(run, m) PROVE TypeOK'
    <2>1. ASSUME NEW b \in BillKeys, b \in MissingBills(run, m)
          PROVE  NewBill(assignments[b[1]], b[2]) \in Bill
      <3>1. b[1] \in run.seen
        BY <2>1 DEF MissingBills
      <3>2. assignments[b[1]] # Absent
        BY <3>1 DEF Base, MonthlyRunStaysValid, AssignmentOf
      <3>3. QED
        BY <3>2, KeyParts, RowTypes, NewBillType
    <2>2. bills' \in [BillKeys -> Bill \cup {Absent}]
      BY <1>2, <2>1 DEF InsertMonthlyBills, TypeOK
    <2>3. QED
      BY <1>2, <2>2 DEF InsertMonthlyBills, TypeOK, leases
  <1>3. ASSUME NEW o \in Owners, MarkOverdue(o) PROVE TypeOK'
    <2>1. bills' \in [BillKeys -> Bill \cup {Absent}]
      BY <1>3, RowTypes DEF MarkOverdue, BillOf, TypeOK, Bill, BillStatus
    <2>2. QED
      BY <1>3, <2>1 DEF MarkOverdue, TypeOK, leases
  <1>4. QED
    BY <1>1, <1>2, <1>3 DEF Billing

LEMMA PayTypes == ASSUME Base, Pay PROVE TypeOK'
  <1> TypeOK
    BY DEF Base
  <1>1. ASSUME NEW o \in Owners, NEW b \in BillKeys, NEW amount \in Rents,
               RecordManual(o, b, amount)
        PROVE  TypeOK'
    <2>1. bills[b] \in Bill /\ assignments[b[1]] \in Assignment /\ b[1] \in Assignments
      BY <1>1, BillLinks DEF RecordManual, SettleInFull, Payable, BillOf
    <2>2. bills' \in [BillKeys -> Bill \cup {Absent}]
      BY <1>1, <2>1 DEF RecordManual, SettleInFull, TypeOK, Bill, BillStatus
    <2>3. payments' \in [BillKeys -> Seq(Payment)]
      <3>1. PaymentFor(bills[b], amount) \in Payment
        BY <2>1 DEF PaymentFor, Payment, Bill
      <3>2. QED
        BY <1>1, <3>1 DEF RecordManual, SettleInFull, TypeOK
    <2>4. /\ assignments' \in [Assignments -> Assignment \cup {Absent}]
          /\ rooms' \in [Rooms -> Room \cup {Absent}]
          /\ tenants' \in [Tenants -> Tenant \cup {Absent}]
      <3>1. ActivateTenancy(o, b)
        BY <1>1 DEF RecordManual, SettleInFull
      <3>2. CASE assignments[b[1]].status = "pending_payment"
        <4>1. UpdateRoomStatus(o, bills[b].room, "occupied")
              /\ UpdateTenantStatus(o, bills[b].tenant, "active")
              /\ assignments' = [assignments EXCEPT ![b[1]].status = "active"]
          BY <3>1, <3>2 DEF ActivateTenancy
        <4>2. bills[b].room \in Rooms /\ bills[b].tenant \in Tenants
          BY <2>1 DEF Bill
        <4>3. assignments' \in [Assignments -> Assignment \cup {Absent}]
          BY <4>1, <2>1 DEF TypeOK, Assignment, AssignmentStatus
        <4>4. QED
          BY <4>1, <4>2, <4>3, RoomUpdateType, TenantUpdateType DEF RoomStatus, TenantStatus
      <3>3. CASE assignments[b[1]].status # "pending_payment"
        BY <3>1, <3>3 DEF ActivateTenancy, TypeOK, leases
      <3>4. QED
        BY <3>2, <3>3
    <2>5. QED
      BY <1>1, <2>2, <2>3, <2>4 DEF RecordManual, TypeOK
  <1>2. ASSUME NEW o \in Owners, NEW t \in Tenants, NEW b \in BillKeys, PayBill(o, t, b)
        PROVE  TypeOK'
    <2>1. bills[b] \in Bill
      BY <1>2, BillLinks DEF PayBill, TenantBillOf, BillOf
    <2>2. bills' \in [BillKeys -> Bill \cup {Absent}]
      BY <1>2, <2>1 DEF PayBill, TenantBillOf, TypeOK, Bill, BillStatus
    <2>3. NewCheckout(o, bills[b]) \in Checkout
      <3>1. today + CheckoutTTL \in Int
        BY BoundsAssumption DEF TypeOK
      <3>2. QED
        BY <2>1, <3>1 DEF NewCheckout, Bill, Checkout
    <2>4. checkouts' \in [BillKeys -> Seq(Checkout)]
      BY <1>2, <2>3 DEF PayBill, TypeOK
    <2>5. QED
      BY <1>2, <2>2, <2>4 DEF PayBill, TenantBillOf, TypeOK, leases
  <1>3. QED
    BY <1>1, <1>2 DEF Pay

LEMMA StepTypes == ASSUME Base, [Next]_vars PROVE TypeOK'
  <1>1. CASE Manage
    BY <1>1, ManageTypes DEF Base
  <1>2. CASE Onboard
    BY <1>2, OnboardTypes DEF Base
  <1>3. CASE Billing
    BY <1>3, BillingTypes
  <1>4. CASE Pay
    BY <1>4, PayTypes
  <1>5. CASE Tick
    BY <1>5 DEF Base, Tick, TypeOK, leases, money
  <1>6. CASE UNCHANGED vars
    BY <1>6 DEF Base, vars, leases, money, TypeOK
  <1>7. QED
    BY <1>1, <1>2, <1>3, <1>4, <1>5, <1>6 DEF Next

-----------------------------------------------------------------------------
(* What every step keeps of the rows that are there *)

RoomsKept ==
    \A r \in Rooms : rooms[r] # Absent => rooms'[r] # Absent /\ rooms'[r].owner = rooms[r].owner
TenantsKept ==
    \A t \in Tenants : tenants[t] # Absent =>
        tenants'[t] # Absent /\ tenants'[t].owner = tenants[t].owner

\* A lease keeps its parties and terms, and once paid or cancelled keeps its status.
LeaseKept(a) ==
    /\ assignments'[a] # Absent
    /\ assignments'[a].owner = assignments[a].owner
    /\ assignments'[a].room = assignments[a].room
    /\ assignments'[a].tenant = assignments[a].tenant
    /\ assignments'[a].rent = assignments[a].rent
    /\ assignments'[a].start = assignments[a].start
    /\ assignments[a].status # "pending_payment" => assignments'[a] = assignments[a]
LeasesKept == \A a \in Assignments : assignments[a] # Absent => LeaseKept(a)

\* A bill keeps its parties and terms, and once paid or cancelled keeps everything.
BillKept(b) ==
    /\ bills'[b] # Absent
    /\ bills'[b].owner = bills[b].owner
    /\ bills'[b].room = bills[b].room
    /\ bills'[b].tenant = bills[b].tenant
    /\ bills'[b].amount = bills[b].amount
    /\ bills'[b].due = bills[b].due
    /\ bills[b].status \in {"paid", "cancelled"} => bills'[b] = bills[b]
BillsKept == \A b \in BillKeys : bills[b] # Absent => BillKept(b)

LEMMA RoomUpdateKept ==
    ASSUME TypeOK, NEW o, NEW r \in Rooms, NEW s \in RoomStatus, UpdateRoomStatus(o, r, s)
    PROVE  RoomsKept
  <1>1. rooms[r] \in Room /\ rooms' = [rooms EXCEPT ![r].status = s]
    BY RowTypes DEF UpdateRoomStatus, RoomVisible
  <1>2. [rooms[r] EXCEPT !.status = s] \in Room
    BY <1>1 DEF Room
  <1>3. QED
    BY <1>1, <1>2, AbsentAssumption DEF RoomsKept, TypeOK, Room

LEMMA TenantUpdateKept ==
    ASSUME TypeOK, NEW o, NEW t \in Tenants, NEW s \in TenantStatus, UpdateTenantStatus(o, t, s)
    PROVE  TenantsKept
  <1>1. tenants[t] \in Tenant /\ tenants' = [tenants EXCEPT ![t].status = s]
    BY RowTypes DEF UpdateTenantStatus, TenantVisible
  <1>2. [tenants[t] EXCEPT !.status = s] \in Tenant
    BY <1>1 DEF Tenant
  <1>3. QED
    BY <1>1, <1>2, AbsentAssumption DEF TenantsKept, TypeOK, Tenant

\* The status of a lease or a bill changes; the row stays, with its terms.
LEMMA LeaseStatusKept ==
    ASSUME NEW row \in Assignment, NEW s \in AssignmentStatus
    PROVE  /\ [row EXCEPT !.status = s] # Absent
           /\ [row EXCEPT !.status = s].owner = row.owner
           /\ [row EXCEPT !.status = s].room = row.room
           /\ [row EXCEPT !.status = s].tenant = row.tenant
           /\ [row EXCEPT !.status = s].rent = row.rent
           /\ [row EXCEPT !.status = s].start = row.start
           /\ [row EXCEPT !.status = s].status = s
  <1>1. [row EXCEPT !.status = s] \in Assignment
    BY DEF Assignment
  <1>2. QED
    BY <1>1, AbsentAssumption DEF Assignment

LEMMA BillStatusKept ==
    ASSUME NEW bill \in Bill, NEW s \in BillStatus
    PROVE  /\ [bill EXCEPT !.status = s] # Absent
           /\ [bill EXCEPT !.status = s].owner = bill.owner
           /\ [bill EXCEPT !.status = s].room = bill.room
           /\ [bill EXCEPT !.status = s].tenant = bill.tenant
           /\ [bill EXCEPT !.status = s].amount = bill.amount
           /\ [bill EXCEPT !.status = s].due = bill.due
           /\ [bill EXCEPT !.status = s].status = s
  <1>1. [bill EXCEPT !.status = s] \in Bill
    BY DEF Bill
  <1>2. QED
    BY <1>1, AbsentAssumption DEF Bill

LEMMA ManageKeeps ==
    ASSUME TypeOK, Manage
    PROVE  RoomsKept /\ TenantsKept /\ UNCHANGED <<assignments, money, billRuns, today>>
  <1>1. ASSUME NEW o \in Owners, NEW r \in Rooms,
               NEW s \in {"available", "maintenance", "inactive"}, CreateRoom(o, r, s)
        PROVE  RoomsKept /\ UNCHANGED <<tenants, assignments, money, billRuns, today>>
    BY <1>1 DEF CreateRoom, RoomsKept, TypeOK
  <1>2. ASSUME NEW o \in Owners, NEW r \in Rooms,
               NEW s \in PatchableRoomStatuses, PatchRoom(o, r, s)
        PROVE  RoomsKept /\ UNCHANGED <<tenants, assignments, money, billRuns, today>>
    BY <1>2, RoomUpdateKept, StatusAssumption DEF PatchRoom
  <1>3. ASSUME NEW o \in Owners, NEW r \in Rooms, CheckRoomDelete(o, r)
        PROVE  RoomsKept /\ UNCHANGED <<tenants, assignments, money, billRuns, today>>
    BY <1>3 DEF CheckRoomDelete, RoomsKept, leases
  <1>4. ASSUME NEW r \in Rooms, SoftDeleteRoom(r)
        PROVE  RoomsKept /\ UNCHANGED <<tenants, assignments, money, billRuns, today>>
    <2>1. rooms[r] \in Room /\ [rooms[r] EXCEPT !.deleted = TRUE] \in Room
      BY <1>4, RowTypes DEF SoftDeleteRoom, Room
    <2>2. QED
      BY <1>4, <2>1, AbsentAssumption DEF SoftDeleteRoom, RoomsKept, TypeOK, Room
  <1>5. ASSUME NEW o \in Owners, NEW t \in Tenants, CreateTenant(o, t)
        PROVE  TenantsKept /\ UNCHANGED <<rooms, assignments, money, billRuns, today>>
    BY <1>5 DEF CreateTenant, TenantsKept, TypeOK
  <1>6. ASSUME NEW o \in Owners, NEW t \in Tenants,
               NEW s \in PatchableTenantStatuses, PatchTenant(o, t, s)
        PROVE  TenantsKept /\ UNCHANGED <<rooms, assignments, money, billRuns, today>>
    BY <1>6, TenantUpdateKept DEF PatchTenant, PatchableTenantStatuses, TenantStatus
  <1>7. ASSUME NEW o \in Owners, NEW t \in Tenants, DeleteTenant(o, t)
        PROVE  TenantsKept /\ UNCHANGED <<rooms, assignments, money, billRuns, today>>
    <2>1. tenants[t] \in Tenant /\ [tenants[t] EXCEPT !.deleted = TRUE] \in Tenant
      BY <1>7, RowTypes DEF DeleteTenant, TenantVisible, Tenant
    <2>2. QED
      BY <1>7, <2>1, AbsentAssumption DEF DeleteTenant, TenantsKept, TypeOK, Tenant
  <1>8. UNCHANGED rooms => RoomsKept
    BY DEF RoomsKept
  <1>9. UNCHANGED tenants => TenantsKept
    BY DEF TenantsKept
  <1>10. QED
    BY <1>1, <1>2, <1>3, <1>4, <1>5, <1>6, <1>7, <1>8, <1>9 DEF Manage, ManageRooms, ManageTenants

\* A row that appears refers to rows that are there, of the same owner.
NewLeasesLinked ==
    \A a \in Assignments : assignments[a] = Absent /\ assignments'[a] # Absent =>
        /\ assignments'[a] \in Assignment /\ assignments'[a].status = "pending_payment"
        /\ rooms'[assignments'[a].room] # Absent
        /\ rooms'[assignments'[a].room].owner = assignments'[a].owner
        /\ tenants'[assignments'[a].tenant] # Absent
        /\ tenants'[assignments'[a].tenant].owner = assignments'[a].owner
NewBillsLinked ==
    \A b \in BillKeys : bills[b] = Absent /\ bills'[b] # Absent =>
        /\ assignments'[b[1]] # Absent
        /\ bills'[b] = NewBill(assignments'[b[1]], b[2])

AllKept == /\ RoomsKept /\ TenantsKept /\ LeasesKept /\ BillsKept
           /\ NewLeasesLinked /\ NewBillsLinked

LEMMA AssignKeeps ==
    ASSUME Base, NEW o \in Owners, NEW a \in Assignments, NEW r \in Rooms, NEW t \in Tenants,
           NEW rent \in Rents, NEW d \in DueDays, NEW m \in Months,
           AssignRoom(o, a, r, t, rent, d, m)
    PROVE  AllKept
  <1> TypeOK
    BY DEF Base
  <1>1. PICK row \in Assignment :
           /\ row.owner = o /\ row.room = r /\ row.tenant = t
           /\ row.start = m /\ row.status = "pending_payment"
           /\ assignments[a] = Absent
           /\ assignments' = [assignments EXCEPT ![a] = row]
           /\ bills' = [bills EXCEPT ![<<a, m>>] = NewBill(row, m)]
    BY AssignEffect
  <1>2. /\ UpdateRoomStatus(o, r, "reserved")
        /\ UpdateTenantStatus(o, t, "pending_payment")
    BY DEF AssignRoom
  <1>3. RoomsKept /\ TenantsKept
    BY <1>2, RoomUpdateKept, TenantUpdateKept DEF RoomStatus, TenantStatus
  <1>4. LeasesKept
    BY <1>1 DEF LeasesKept, LeaseKept, TypeOK
  <1>5. <<a, m>> \in BillKeys /\ bills[<<a, m>>] = Absent
    BY <1>1, BillLinks, AbsentAssumption DEF BillKeys
  <1>6. BillsKept
    BY <1>1, <1>5 DEF BillsKept, BillKept, TypeOK
  <1>7. NewLeasesLinked
    <2>1. rooms[r] # Absent /\ rooms[r].owner = o /\ tenants[t] # Absent /\ tenants[t].owner = o
      BY <1>2 DEF UpdateRoomStatus, RoomVisible, UpdateTenantStatus, TenantVisible
    <2>2. /\ rooms'[r] # Absent /\ rooms'[r].owner = o
          /\ tenants'[t] # Absent /\ tenants'[t].owner = o
      BY <1>3, <2>1 DEF RoomsKept, TenantsKept
    <2>3. QED
      BY <1>1, <2>2 DEF NewLeasesLinked, TypeOK
  <1>8. NewBillsLinked
    <2>1. assignments'[a] = row /\ row # Absent
      BY <1>1, AbsentAssumption DEF TypeOK
    <2>2. SUFFICES ASSUME NEW b \in BillKeys, bills[b] = Absent, bills'[b] # Absent
                   PROVE  assignments'[b[1]] # Absent /\ bills'[b] = NewBill(assignments'[b[1]], b[2])
      BY DEF NewBillsLinked
    <2>3. b = <<a, m>>
      BY <1>1, <2>2 DEF TypeOK
    <2>4. b[1] = a /\ b[2] = m /\ bills'[b] = NewBill(row, m)
      BY <1>1, <1>5, <2>3 DEF TypeOK
    <2>5. QED
      BY <2>1, <2>4
  <1>9. QED
    BY <1>3, <1>4, <1>6, <1>7, <1>8 DEF AllKept

LEMMA CancelKeeps ==
    ASSUME Base, NEW o \in Owners, NEW a \in Assignments, CancelOnboarding(o, a)
    PROVE  AllKept
  <1> TypeOK
    BY DEF Base
  <1>1. assignments[a] \in Assignment /\ assignments[a].status = "pending_payment"
        /\ assignments' = [assignments EXCEPT ![a].status = "cancelled"]
    BY RowTypes DEF CancelOnboarding, AssignmentOf
  <1>2. RoomsKept /\ TenantsKept
    BY <1>1, RoomUpdateKept, TenantUpdateKept
       DEF CancelOnboarding, RoomStatus, TenantStatus, Assignment
  <1>3. LeasesKept /\ NewLeasesLinked
    <2>1. assignments'[a] = [assignments[a] EXCEPT !.status = "cancelled"]
          /\ \A x \in Assignments \ {a} : assignments'[x] = assignments[x]
      BY <1>1 DEF TypeOK
    <2>2. LeaseKept(a)
      BY <1>1, <2>1, LeaseStatusKept DEF LeaseKept, AssignmentStatus
    <2>3. assignments[a] # Absent
      BY <1>1, AbsentAssumption
    <2>4. QED
      BY <2>1, <2>2, <2>3 DEF LeasesKept, LeaseKept, NewLeasesLinked
  <1>4. BillsKept /\ NewBillsLinked
    <2>1. ASSUME NEW b \in BillKeys, bills[b] # Absent PROVE BillKept(b)
      <3>1. CASE b[1] = a /\ bills[b].status \in Collectible
        <4>1. bills'[b] = [bills[b] EXCEPT !.status = "cancelled"]
          BY <2>1, <3>1 DEF CancelOnboarding, CancelUnpaidBills
        <4>2. QED
          BY <2>1, <3>1, <4>1, RowTypes, BillStatusKept DEF BillKept, BillStatus, Collectible
      <3>2. CASE ~(b[1] = a /\ bills[b].status \in Collectible)
        BY <2>1, <3>2 DEF CancelOnboarding, CancelUnpaidBills, BillKept
      <3>3. QED
        BY <3>1, <3>2
    <2>2. ASSUME NEW b \in BillKeys, bills[b] = Absent PROVE bills'[b] = Absent
      BY <2>2 DEF CancelOnboarding, CancelUnpaidBills
    <2>3. QED
      BY <2>1, <2>2 DEF BillsKept, NewBillsLinked
  <1>5. QED
    BY <1>2, <1>3, <1>4 DEF AllKept

\* A step that leaves rooms, tenants and leases alone.
LEMMA LeasesUnchangedKept ==
    ASSUME UNCHANGED leases
    PROVE  RoomsKept /\ TenantsKept /\ LeasesKept /\ NewLeasesLinked
  BY DEF leases, RoomsKept, TenantsKept, LeasesKept, LeaseKept, NewLeasesLinked

LEMMA BillsUnchangedKept == ASSUME UNCHANGED bills PROVE BillsKept /\ NewBillsLinked
  BY DEF BillsKept, BillKept, NewBillsLinked

LEMMA BillingKeeps == ASSUME Base, Billing PROVE AllKept /\ UNCHANGED <<leases, payments, checkouts, today>>
  <1> TypeOK
    BY DEF Base
  <1>1. ASSUME NEW o \in Owners, ReadActiveAssignments(o)
        PROVE  AllKept /\ UNCHANGED <<leases, payments, checkouts, today>>
    BY <1>1, LeasesUnchangedKept, BillsUnchangedKept DEF ReadActiveAssignments, money, AllKept
  <1>2. ASSUME NEW run \in billRuns, NEW m \in Months, InsertMonthlyBills(run, m)
        PROVE  AllKept /\ UNCHANGED <<leases, payments, checkouts, today>>
    <2>1. UNCHANGED <<leases, payments, checkouts, today>> /\ UNCHANGED assignments
      BY <1>2 DEF InsertMonthlyBills, leases
    <2>2. BillsKept
      BY <1>2 DEF InsertMonthlyBills, MissingBills, BillsKept, BillKept
    <2>3. ASSUME NEW b \in BillKeys, bills[b] = Absent, bills'[b] # Absent
          PROVE  assignments'[b[1]] # Absent /\ bills'[b] = NewBill(assignments'[b[1]], b[2])
      <3>1. b \in MissingBills(run, m) /\ bills'[b] = NewBill(assignments[b[1]], b[2])
        BY <1>2, <2>3 DEF InsertMonthlyBills
      <3>2. b[1] \in run.seen
        BY <3>1 DEF MissingBills
      <3>3. QED
        BY <2>1, <3>1, <3>2 DEF Base, MonthlyRunStaysValid, AssignmentOf
    <2>4. QED
      BY <2>1, <2>2, <2>3, LeasesUnchangedKept DEF AllKept, NewBillsLinked
  <1>3. ASSUME NEW o \in Owners, MarkOverdue(o)
        PROVE  AllKept /\ UNCHANGED <<leases, payments, checkouts, today>>
    <2>1. ASSUME NEW b \in BillKeys, bills[b] # Absent PROVE BillKept(b)
      <3>1. CASE BillOf(o, b) /\ PastDue(b)
        <4>1. bills'[b] = [bills[b] EXCEPT !.status = "overdue"] /\ bills[b].status = "unpaid"
          BY <1>3, <2>1, <3>1 DEF MarkOverdue, PastDue
        <4>2. QED
          BY <2>1, <4>1, RowTypes, BillStatusKept DEF BillKept, BillStatus
      <3>2. CASE ~(BillOf(o, b) /\ PastDue(b))
        BY <1>3, <2>1, <3>2 DEF MarkOverdue, BillKept
      <3>3. QED
        BY <3>1, <3>2
    <2>2. ASSUME NEW b \in BillKeys, bills[b] = Absent PROVE bills'[b] = Absent
      BY <1>3, <2>2 DEF MarkOverdue, BillOf
    <2>3. QED
      BY <1>3, <2>1, <2>2, LeasesUnchangedKept DEF MarkOverdue, AllKept, BillsKept, NewBillsLinked
  <1>4. QED
    BY <1>1, <1>2, <1>3 DEF Billing

LEMMA ActivateEffect ==
    ASSUME Base, NEW o \in Owners, NEW b \in BillKeys, BillOf(o, b), ActivateTenancy(o, b)
    PROVE  /\ RoomsKept /\ TenantsKept /\ LeasesKept /\ NewLeasesLinked
           /\ \A a \in Assignments : a # b[1] => assignments'[a] = assignments[a]
           /\ assignments[b[1]].status = "pending_payment" => assignments'[b[1]].status = "active"
  <1> TypeOK
    BY DEF Base
  <1>1. /\ bills[b] \in Bill /\ assignments[b[1]] \in Assignment /\ b[1] \in Assignments
        /\ bills[b].room \in Rooms /\ bills[b].tenant \in Tenants
    BY BillLinks DEF BillOf, Bill
  <1>2. CASE assignments[b[1]].status = "pending_payment"
    <2>1. /\ assignments' = [assignments EXCEPT ![b[1]].status = "active"]
          /\ UpdateTenantStatus(o, bills[b].tenant, "active")
          /\ UpdateRoomStatus(o, bills[b].room, "occupied")
      BY <1>2 DEF ActivateTenancy
    <2>2. RoomsKept /\ TenantsKept
      BY <1>1, <2>1, RoomUpdateKept, TenantUpdateKept DEF RoomStatus, TenantStatus
    <2>3. /\ assignments'[b[1]] = [assignments[b[1]] EXCEPT !.status = "active"]
          /\ \A x \in Assignments \ {b[1]} : assignments'[x] = assignments[x]
      BY <1>1, <2>1 DEF TypeOK
    <2>4. LeaseKept(b[1]) /\ assignments'[b[1]].status = "active"
      BY <1>1, <1>2, <2>3, LeaseStatusKept DEF LeaseKept, AssignmentStatus
    <2>5. LeasesKept /\ NewLeasesLinked
      <3>1. assignments[b[1]] # Absent
        BY <1>1, AbsentAssumption
      <3>2. QED
        BY <2>3, <2>4, <3>1 DEF LeasesKept, LeaseKept, NewLeasesLinked
    <2>6. QED
      BY <2>2, <2>3, <2>4, <2>5
  <1>3. CASE assignments[b[1]].status # "pending_payment"
    BY <1>3, LeasesUnchangedKept DEF ActivateTenancy, leases
  <1>4. QED
    BY <1>2, <1>3

\* One bill's status changes, all others stay.
LEMMA OneBillKept ==
    ASSUME TypeOK, NEW b \in BillKeys, bills[b] # Absent, NEW s \in BillStatus,
           bills[b].status \in Collectible, bills' = [bills EXCEPT ![b].status = s]
    PROVE  BillsKept /\ NewBillsLinked /\ bills'[b].status = s
  <1>1. bills[b] \in Bill /\ bills'[b] = [bills[b] EXCEPT !.status = s]
    BY RowTypes DEF TypeOK
  <1>2. BillKept(b) /\ bills'[b].status = s
    <2> DEFINE new == [bills[b] EXCEPT !.status = s]
    <2>1. /\ new # Absent /\ new.owner = bills[b].owner /\ new.room = bills[b].room
          /\ new.tenant = bills[b].tenant /\ new.amount = bills[b].amount
          /\ new.due = bills[b].due /\ new.status = s
      BY <1>1, BillStatusKept
    <2> HIDE DEF new
    <2>2. bills[b].status \notin {"paid", "cancelled"}
      BY DEF Collectible
    <2>3. QED
      BY <1>1, <2>1, <2>2 DEF BillKept, new
  <1>3. \A c \in BillKeys \ {b} : bills'[c] = bills[c]
    BY DEF TypeOK
  <1>4. QED
    BY <1>2, <1>3 DEF BillsKept, BillKept, NewBillsLinked

LEMMA RecordKeeps ==
    ASSUME Base, NEW o \in Owners, NEW b \in BillKeys, NEW amount \in Rents,
           RecordManual(o, b, amount)
    PROVE  AllKept /\ bills'[b].status = "paid"
  <1> TypeOK
    BY DEF Base
  <1>1. BillOf(o, b) /\ bills[b] # Absent /\ bills[b] \in Bill
    BY RowTypes DEF RecordManual, SettleInFull, Payable, BillOf
  <1>2. bills' = [bills EXCEPT ![b].status = "paid"] /\ ActivateTenancy(o, b)
        /\ bills[b].status \in Collectible
    BY <1>1 DEF RecordManual, SettleInFull, Payable, Bill, BillStatus, Collectible
  <1>3. BillsKept /\ NewBillsLinked /\ bills'[b].status = "paid"
    BY <1>1, <1>2, OneBillKept DEF BillStatus
  <1>4. RoomsKept /\ TenantsKept /\ LeasesKept /\ NewLeasesLinked
    BY <1>1, <1>2, ActivateEffect
  <1>5. QED
    BY <1>3, <1>4 DEF AllKept

LEMMA PayBillKeeps ==
    ASSUME Base, NEW o \in Owners, NEW t \in Tenants, NEW b \in BillKeys, PayBill(o, t, b)
    PROVE  AllKept /\ bills'[b].status = "gateway_pending"
  <1> TypeOK
    BY DEF Base
  <1>1. /\ bills[b] # Absent /\ bills' = [bills EXCEPT ![b].status = "gateway_pending"]
        /\ bills[b].status \in Collectible /\ UNCHANGED leases
    BY DEF PayBill, TenantBillOf, BillOf, NeedsCheckout, Collectible
  <1>2. BillsKept /\ NewBillsLinked /\ bills'[b].status = "gateway_pending"
    BY <1>1, OneBillKept DEF BillStatus
  <1>3. QED
    BY <1>1, <1>2, LeasesUnchangedKept DEF AllKept

LEMMA StepKeeps == ASSUME Base, [Next]_vars PROVE AllKept
  <1> TypeOK
    BY DEF Base
  <1>1. CASE Manage
    <2>1. NewLeasesLinked /\ LeasesKept
      BY <1>1, ManageKeeps DEF NewLeasesLinked, LeasesKept, LeaseKept
    <2>2. BillsKept /\ NewBillsLinked
      BY <1>1, ManageKeeps, BillsUnchangedKept DEF money
    <2>3. QED
      BY <1>1, <2>1, <2>2, ManageKeeps DEF AllKept
  <1>2. CASE Onboard
    BY <1>2, AssignKeeps, CancelKeeps DEF Onboard
  <1>3. CASE Billing
    BY <1>3, BillingKeeps
  <1>4. CASE Pay
    BY <1>4, RecordKeeps, PayBillKeeps DEF Pay
  <1>5. CASE Tick
    BY <1>5, LeasesUnchangedKept, BillsUnchangedKept DEF Tick, money, AllKept
  <1>6. CASE UNCHANGED vars
    BY <1>6, LeasesUnchangedKept, BillsUnchangedKept DEF vars, money, AllKept
  <1>7. QED
    BY <1>1, <1>2, <1>3, <1>4, <1>5, <1>6 DEF Next

LEMMA LinksKept == ASSUME Base, AllKept, MoneyLinked' PROVE OwnersNeverMix'
  <1> TypeOK
    BY DEF Base
  <1>1. ASSUME NEW a \in Assignments, assignments'[a] # Absent
        PROVE  /\ rooms'[assignments'[a].room] # Absent
               /\ rooms'[assignments'[a].room].owner = assignments'[a].owner
               /\ tenants'[assignments'[a].tenant] # Absent
               /\ tenants'[assignments'[a].tenant].owner = assignments'[a].owner
    <2>1. CASE assignments[a] = Absent
      BY <1>1, <2>1 DEF AllKept, NewLeasesLinked
    <2>2. CASE assignments[a] # Absent
      <3>1. assignments[a].room \in Rooms /\ assignments[a].tenant \in Tenants
        BY <2>2, RowTypes DEF Assignment
      <3>2. /\ rooms[assignments[a].room] # Absent
            /\ rooms[assignments[a].room].owner = assignments[a].owner
            /\ tenants[assignments[a].tenant] # Absent
            /\ tenants[assignments[a].tenant].owner = assignments[a].owner
        BY <2>2 DEF Base, OwnersNeverMix
      <3>3. LeaseKept(a)
        BY <2>2 DEF AllKept, LeasesKept
      <3>4. QED
        BY <3>1, <3>2, <3>3 DEF AllKept, RoomsKept, TenantsKept, LeaseKept
    <2>3. QED
      BY <2>1, <2>2
  <1>2. ASSUME NEW b \in BillKeys, bills'[b] # Absent
        PROVE  /\ assignments'[b[1]] # Absent
               /\ bills'[b].owner = assignments'[b[1]].owner
               /\ bills'[b].room = assignments'[b[1]].room
               /\ bills'[b].tenant = assignments'[b[1]].tenant
    <2>1. CASE bills[b] = Absent
      <3>1. /\ assignments'[b[1]] # Absent
            /\ bills'[b] = NewBill(assignments'[b[1]], b[2])
        BY <1>2, <2>1 DEF AllKept, NewBillsLinked
      <3>2. QED
        BY <3>1 DEF NewBill
    <2>2. CASE bills[b] # Absent
      <3>1. b[1] \in Assignments /\ assignments[b[1]] # Absent
        BY <2>2, BillLinks DEF Base, OwnersNeverMix
      <3>2. LeaseKept(b[1]) /\ BillKept(b)
        BY <2>2, <3>1 DEF AllKept, LeasesKept, BillsKept
      <3>3. QED
        BY <2>2, <3>2, BillLinks DEF LeaseKept, BillKept
    <2>3. QED
      BY <2>1, <2>2
  <1>3. QED
    BY <1>1, <1>2 DEF OwnersNeverMix

LEMMA RunsKept == ASSUME Base, [Next]_vars PROVE MonthlyRunStaysValid'
  <1> TypeOK
    BY DEF Base
  <1>1. LeasesKept
    BY StepKeeps DEF AllKept
  <1>2. ASSUME NEW o \in Owners, NEW a \in Assignments, AssignmentOf(o, a),
               assignments[a].status = "active"
        PROVE  AssignmentOf(o, a)' /\ (assignments[a].status = "active")'
    BY <1>1, <1>2 DEF LeasesKept, LeaseKept, AssignmentOf
  <1>3. ASSUME NEW o \in Owners, ReadActiveAssignments(o) PROVE MonthlyRunStaysValid'
    <2>1. billRuns' = billRuns \cup {[owner |-> o, seen |-> ActiveAssignments(o)]}
          /\ UNCHANGED assignments
      BY <1>3 DEF ReadActiveAssignments, leases
    <2>2. QED
      BY <2>1 DEF Base, MonthlyRunStaysValid, ActiveAssignments, AssignmentOf
  <1>4. ASSUME UNCHANGED billRuns PROVE MonthlyRunStaysValid'
    <2>1. ASSUME NEW run \in billRuns, NEW a \in run.seen
          PROVE  AssignmentOf(run.owner, a)' /\ (assignments[a].status = "active")'
      <3>1. run.owner \in Owners /\ a \in Assignments
        BY RowTypes
      <3>2. AssignmentOf(run.owner, a) /\ assignments[a].status = "active"
        BY DEF Base, MonthlyRunStaysValid
      <3>3. QED
        BY <1>2, <3>1, <3>2
    <2>2. QED
      BY <1>4, <2>1 DEF MonthlyRunStaysValid, AssignmentOf
  <1>5. CASE Manage
    BY <1>4, <1>5, ManageKeeps
  <1>6. CASE Onboard
    <2>1. ASSUME NEW o \in Owners, NEW a \in Assignments, NEW r \in Rooms, NEW t \in Tenants,
                 NEW rent \in Rents, NEW d \in DueDays, NEW m \in Months,
                 AssignRoom(o, a, r, t, rent, d, m)
          PROVE  UNCHANGED billRuns
      BY <2>1 DEF AssignRoom
    <2>2. ASSUME NEW o \in Owners, NEW a \in Assignments, CancelOnboarding(o, a)
          PROVE  UNCHANGED billRuns
      BY <2>2 DEF CancelOnboarding
    <2>3. QED
      BY <1>4, <1>6, <2>1, <2>2 DEF Onboard
  <1>7. CASE Billing
    BY <1>3, <1>4, <1>7 DEF Billing, InsertMonthlyBills, MarkOverdue
  <1>8. CASE Pay
    BY <1>4, <1>8 DEF Pay, RecordManual, PayBill
  <1>9. CASE Tick \/ UNCHANGED vars
    BY <1>4, <1>9 DEF Tick, vars
  <1>10. QED
    BY <1>5, <1>6, <1>7, <1>8, <1>9 DEF Next

-----------------------------------------------------------------------------
(* What a step does to leases, bills, payments and checkouts: the seven      *)
(* shapes the proofs below distinguish.                                      *)

Quiet ==
    UNCHANGED <<assignments, bills, payments, checkouts>> /\ today' \in {today, today + 1}

Assigned(a, m) ==
    /\ assignments[a] = Absent
    /\ assignments'[a] \in Assignment
    /\ assignments'[a].start = m /\ assignments'[a].status = "pending_payment"
    /\ \A x \in Assignments \ {a} : assignments'[x] = assignments[x]
    /\ \A x \in LiveAssignments : /\ assignments[x].room # assignments'[a].room
                                  /\ assignments[x].tenant # assignments'[a].tenant
    /\ bills[<<a, m>>] = Absent /\ bills'[<<a, m>>] = NewBill(assignments'[a], m)
    /\ \A b \in BillKeys \ {<<a, m>>} : bills'[b] = bills[b]
    /\ UNCHANGED <<payments, checkouts, today>>

Cancelled(a) ==
    /\ assignments[a] # Absent /\ assignments[a].status = "pending_payment"
    /\ assignments'[a] # Absent /\ assignments'[a].status = "cancelled"
    /\ \A x \in Assignments \ {a} : assignments'[x] = assignments[x]
    /\ \A b \in BillKeys :
          IF b[1] = a /\ bills[b] # Absent /\ bills[b].status \in Collectible
          THEN bills'[b] # Absent /\ bills'[b].status = "cancelled" ELSE bills'[b] = bills[b]
    /\ UNCHANGED <<payments, checkouts, today>>

Billed ==
    /\ \A b \in BillKeys :
          \/ bills'[b] = bills[b]
          \/ /\ bills[b] = Absent /\ bills'[b] = NewBill(assignments[b[1]], b[2])
             /\ assignments[b[1]] # Absent /\ assignments[b[1]].status = "active"
    /\ UNCHANGED <<assignments, payments, checkouts, today>>

Lapsed ==
    /\ \A b \in BillKeys :
          \/ bills'[b] = bills[b]
          \/ /\ bills[b] # Absent /\ bills[b].status = "unpaid" /\ bills[b].due < today
             /\ bills'[b] # Absent /\ bills'[b].status = "overdue"
    /\ UNCHANGED <<assignments, payments, checkouts, today>>

Settled(b) ==
    /\ bills[b] # Absent /\ bills[b].status \in Collectible
    /\ bills'[b] # Absent /\ bills'[b].status = "paid"
    /\ \A c \in BillKeys \ {b} : bills'[c] = bills[c] /\ payments'[c] = payments[c]
    /\ payments'[b] = <<PaymentFor(bills[b], bills[b].amount)>>
    /\ \A a \in Assignments \ {b[1]} : assignments'[a] = assignments[a]
    /\ IF assignments[b[1]].status = "pending_payment"
       THEN assignments'[b[1]].status = "active" ELSE assignments'[b[1]] = assignments[b[1]]
    /\ UNCHANGED <<checkouts, today>>

Opened(b) ==
    /\ bills[b] # Absent /\ NeedsCheckout(b)
    /\ bills'[b] # Absent /\ bills'[b].status = "gateway_pending"
    /\ \A c \in BillKeys \ {b} : bills'[c] = bills[c] /\ checkouts'[c] = checkouts[c]
    /\ \E new \in Checkout :
          /\ checkouts'[b] = Append(checkouts[b], new)
          /\ new.owner = bills[b].owner /\ new.tenant = bills[b].tenant
          /\ new.amount = bills[b].amount
    /\ UNCHANGED <<assignments, payments, today>>

LEMMA AssignShape ==
    ASSUME Base, NEW o \in Owners, NEW a \in Assignments, NEW r \in Rooms, NEW t \in Tenants,
           NEW rent \in Rents, NEW d \in DueDays, NEW m \in Months,
           AssignRoom(o, a, r, t, rent, d, m)
    PROVE  Assigned(a, m)
  <1> TypeOK
    BY DEF Base
  <1>1. PICK row \in Assignment :
           /\ row.owner = o /\ row.room = r /\ row.tenant = t
           /\ row.start = m /\ row.status = "pending_payment"
           /\ assignments[a] = Absent
           /\ assignments' = [assignments EXCEPT ![a] = row]
           /\ bills' = [bills EXCEPT ![<<a, m>>] = NewBill(row, m)]
    BY AssignEffect
  <1>2. assignments'[a] = row /\ \A x \in Assignments \ {a} : assignments'[x] = assignments[x]
    BY <1>1 DEF TypeOK
  <1>3. \A x \in LiveAssignments : assignments[x].room # r /\ assignments[x].tenant # t
    BY DEF AssignRoom, LiveInRoom, LiveForTenant
  <1>4. <<a, m>> \in BillKeys /\ bills[<<a, m>>] = Absent
    BY <1>1, BillLinks, AbsentAssumption DEF BillKeys
  <1>5. /\ bills'[<<a, m>>] = NewBill(row, m)
        /\ \A b \in BillKeys \ {<<a, m>>} : bills'[b] = bills[b]
    BY <1>1, <1>4 DEF TypeOK
  <1>6. UNCHANGED <<payments, checkouts, today>>
    BY DEF AssignRoom
  <1>7. QED
    BY <1>1, <1>2, <1>3, <1>4, <1>5, <1>6 DEF Assigned

LEMMA CancelShape ==
    ASSUME Base, NEW o \in Owners, NEW a \in Assignments, CancelOnboarding(o, a)
    PROVE  Cancelled(a)
  <1> TypeOK
    BY DEF Base
  <1>1. /\ assignments[a] \in Assignment /\ assignments[a] # Absent
        /\ assignments[a].status = "pending_payment"
        /\ assignments' = [assignments EXCEPT ![a].status = "cancelled"]
        /\ UNCHANGED <<payments, checkouts, today>> /\ CancelUnpaidBills(a)
    BY RowTypes DEF CancelOnboarding, AssignmentOf
  <1>2. /\ assignments'[a] = [assignments[a] EXCEPT !.status = "cancelled"]
        /\ \A x \in Assignments \ {a} : assignments'[x] = assignments[x]
    BY <1>1 DEF TypeOK
  <1>3. assignments'[a] # Absent /\ assignments'[a].status = "cancelled"
    BY <1>1, <1>2, LeaseStatusKept DEF AssignmentStatus
  <1>4. ASSUME NEW b \in BillKeys, b[1] = a, bills[b] # Absent, bills[b].status \in Collectible
        PROVE  bills'[b] # Absent /\ bills'[b].status = "cancelled"
    <2>1. bills'[b] = [bills[b] EXCEPT !.status = "cancelled"]
      BY <1>1, <1>4 DEF CancelUnpaidBills
    <2>2. QED
      BY <1>4, <2>1, RowTypes, BillStatusKept DEF BillStatus
  <1>5. ASSUME NEW b \in BillKeys, ~(b[1] = a /\ bills[b] # Absent /\ bills[b].status \in Collectible)
        PROVE  bills'[b] = bills[b]
    BY <1>1, <1>5 DEF CancelUnpaidBills
  <1>6. QED
    BY <1>1, <1>2, <1>3, <1>4, <1>5 DEF Cancelled

LEMMA BillingShape == ASSUME Base, Billing PROVE Quiet \/ Billed \/ Lapsed
  <1> TypeOK
    BY DEF Base
  <1>1. ASSUME NEW o \in Owners, ReadActiveAssignments(o) PROVE Quiet
    BY <1>1 DEF ReadActiveAssignments, Quiet, leases, money
  <1>2. ASSUME NEW run \in billRuns, NEW m \in Months, InsertMonthlyBills(run, m) PROVE Billed
    <2>1. UNCHANGED <<assignments, payments, checkouts, today>>
      BY <1>2 DEF InsertMonthlyBills, leases
    <2>2. ASSUME NEW b \in BillKeys, bills'[b] # bills[b]
          PROVE  /\ bills[b] = Absent /\ bills'[b] = NewBill(assignments[b[1]], b[2])
                 /\ assignments[b[1]] # Absent /\ assignments[b[1]].status = "active"
      <3>1. /\ bills[b] = Absent /\ b[1] \in run.seen
            /\ bills'[b] = NewBill(assignments[b[1]], b[2])
        BY <1>2, <2>2 DEF InsertMonthlyBills, MissingBills
      <3>2. QED
        BY <2>1, <3>1 DEF Base, MonthlyRunStaysValid, AssignmentOf
    <2>3. QED
      BY <2>1, <2>2 DEF Billed
  <1>3. ASSUME NEW o \in Owners, MarkOverdue(o) PROVE Lapsed
    <2>1. ASSUME NEW b \in BillKeys, bills'[b] # bills[b]
          PROVE  /\ bills[b] # Absent /\ bills[b].status = "unpaid" /\ bills[b].due < today
                 /\ bills'[b] # Absent /\ bills'[b].status = "overdue"
      <3>1. /\ bills[b] # Absent /\ bills[b].status = "unpaid" /\ bills[b].due < today
            /\ bills'[b] = [bills[b] EXCEPT !.status = "overdue"]
        BY <1>3, <2>1 DEF MarkOverdue, PastDue, BillOf
      <3>2. QED
        BY <3>1, RowTypes, BillStatusKept DEF BillStatus
    <2>2. QED
      BY <1>3, <2>1 DEF MarkOverdue, Lapsed, leases
  <1>4. QED
    BY <1>1, <1>2, <1>3 DEF Billing

LEMMA RecordShape ==
    ASSUME Base, NEW o \in Owners, NEW b \in BillKeys, NEW amount \in Rents,
           RecordManual(o, b, amount)
    PROVE  Settled(b)
  <1> TypeOK
    BY DEF Base
  <1>1. /\ BillOf(o, b) /\ bills[b] # Absent /\ amount = bills[b].amount
        /\ payments[b] = <<>> /\ UNCHANGED <<checkouts, today>>
        /\ payments' = [payments EXCEPT ![b] = Append(@, PaymentFor(bills[b], amount))]
        /\ bills' = [bills EXCEPT ![b].status = "paid"] /\ ActivateTenancy(o, b)
    BY DEF RecordManual, SettleInFull, Payable, BillOf
  <1>2. bills[b].status \in Collectible
    BY <1>1, RowTypes DEF RecordManual, SettleInFull, Payable, Bill, BillStatus, Collectible
  <1>3. /\ bills'[b] # Absent /\ bills'[b].status = "paid"
    BY <1>1, <1>2, RecordKeeps DEF AllKept, BillsKept, BillKept
  <1>4. payments'[b] = <<PaymentFor(bills[b], bills[b].amount)>>
    <2>1. payments'[b] = Append(<<>>, PaymentFor(bills[b], bills[b].amount))
      BY <1>1 DEF TypeOK
    <2>2. QED
      BY <2>1
  <1>5. \A c \in BillKeys \ {b} : bills'[c] = bills[c] /\ payments'[c] = payments[c]
    BY <1>1 DEF TypeOK
  <1>6. \A a \in Assignments \ {b[1]} : assignments'[a] = assignments[a]
    BY <1>1, ActivateEffect
  <1>7. IF assignments[b[1]].status = "pending_payment"
        THEN assignments'[b[1]].status = "active" ELSE assignments'[b[1]] = assignments[b[1]]
    BY <1>1, ActivateEffect DEF ActivateTenancy, leases
  <1>8. QED
    BY <1>1, <1>2, <1>3, <1>4, <1>5, <1>6, <1>7 DEF Settled

LEMMA PayBillShape ==
    ASSUME Base, NEW o \in Owners, NEW t \in Tenants, NEW b \in BillKeys, PayBill(o, t, b)
    PROVE  Opened(b)
  <1> TypeOK
    BY DEF Base
  <1> DEFINE new == NewCheckout(o, bills[b])
  <1>1. /\ bills[b] # Absent /\ bills[b].owner = o
        /\ NeedsCheckout(b) /\ UNCHANGED <<assignments, payments, today>>
        /\ checkouts' = [checkouts EXCEPT ![b] = Append(@, new)]
        /\ bills' = [bills EXCEPT ![b].status = "gateway_pending"]
    BY DEF PayBill, TenantBillOf, BillOf, leases
  <1>2. /\ new \in Checkout /\ new.owner = bills[b].owner
        /\ new.tenant = bills[b].tenant /\ new.amount = bills[b].amount
    <2>1. today + CheckoutTTL \in Int
      BY BoundsAssumption DEF TypeOK
    <2>2. QED
      BY <1>1, <2>1, RowTypes DEF NewCheckout, Checkout, Bill
  <1> HIDE DEF new
  <1>3. bills'[b] # Absent /\ bills'[b].status = "gateway_pending"
    BY <1>1, PayBillKeeps DEF AllKept, BillsKept, BillKept
  <1>4. /\ \A c \in BillKeys \ {b} : bills'[c] = bills[c] /\ checkouts'[c] = checkouts[c]
        /\ checkouts'[b] = Append(checkouts[b], new)
    BY <1>1 DEF TypeOK
  <1>5. QED
    BY <1>1, <1>2, <1>3, <1>4 DEF Opened

LEMMA StepShape ==
    ASSUME Base, [Next]_vars
    PROVE  \/ Quiet \/ Billed \/ Lapsed
           \/ \E a \in Assignments : Cancelled(a) \/ \E m \in Months : Assigned(a, m)
           \/ \E b \in BillKeys : Settled(b) \/ Opened(b)
  <1>1. CASE Manage
    BY <1>1, ManageKeeps DEF Base, Quiet, money
  <1>2. CASE Onboard
    BY <1>2, AssignShape, CancelShape DEF Onboard
  <1>3. CASE Billing
    BY <1>3, BillingShape
  <1>4. CASE Pay
    BY <1>4, RecordShape, PayBillShape DEF Pay
  <1>5. CASE Tick \/ UNCHANGED vars
    BY <1>5 DEF Tick, Quiet, vars, leases, money
  <1>6. QED
    BY <1>1, <1>2, <1>3, <1>4, <1>5 DEF Next

-----------------------------------------------------------------------------
(* The invariants *)

\* Payments and checkouts are written from the bill they are for, which keeps its parties.
LEMMA MoneyKept == ASSUME Base, [Next]_vars PROVE MoneyLinked'
  <1> TypeOK /\ MoneyLinked
    BY DEF Base, OwnersNeverMix
  <1>1. \A b \in BillKeys : bills[b] # Absent => BillKept(b)
    BY StepKeeps DEF AllKept, BillsKept
  <1> DEFINE Linked(b, ps, cs) ==
               /\ \A i \in DOMAIN ps :
                     /\ bills'[b] # Absent /\ ps[i].owner = bills'[b].owner
                     /\ ps[i].room = bills'[b].room /\ ps[i].tenant = bills'[b].tenant
               /\ \A i \in DOMAIN cs :
                     /\ bills'[b] # Absent /\ cs[i].owner = bills'[b].owner
                     /\ cs[i].tenant = bills'[b].tenant /\ cs[i].amount = bills'[b].amount
  <1>2. ASSUME NEW b \in BillKeys PROVE Linked(b, payments[b], checkouts[b])
    BY <1>1 DEF MoneyLinked, BillKept
  <1>3. ASSUME NEW b \in BillKeys, Settled(b) PROVE Linked(b, payments'[b], checkouts'[b])
    <2>1. /\ payments'[b] = <<PaymentFor(bills[b], bills[b].amount)>>
          /\ checkouts' = checkouts /\ bills[b] # Absent
      BY <1>3 DEF Settled
    <2>2. \A i \in DOMAIN payments'[b] : payments'[b][i] = PaymentFor(bills[b], bills[b].amount)
      BY <2>1
    <2>3. QED
      BY <1>1, <1>2, <2>1, <2>2 DEF PaymentFor, BillKept
  <1>4. ASSUME NEW b \in BillKeys, Opened(b) PROVE Linked(b, payments'[b], checkouts'[b])
    <2>1. PICK new \in Checkout :
            /\ checkouts'[b] = Append(checkouts[b], new)
            /\ new.owner = bills[b].owner /\ new.tenant = bills[b].tenant
            /\ new.amount = bills[b].amount
      BY <1>4 DEF Opened
    <2>2. bills[b] # Absent /\ payments' = payments /\ checkouts[b] \in Seq(Checkout)
      BY <1>4 DEF Opened, TypeOK
    <2>3. \A i \in DOMAIN checkouts'[b] :
             \/ i \in DOMAIN checkouts[b] /\ checkouts'[b][i] = checkouts[b][i]
             \/ checkouts'[b][i] = new
      BY <2>1, <2>2
    <2>4. BillKept(b)
      BY <1>1, <2>2
    <2>5. QED
      BY <1>2, <2>1, <2>2, <2>3, <2>4 DEF BillKept
  <1> SUFFICES ASSUME NEW c \in BillKeys PROVE Linked(c, payments'[c], checkouts'[c])
    BY DEF MoneyLinked
  <1>5. CASE payments'[c] = payments[c] /\ checkouts'[c] = checkouts[c]
    BY <1>2, <1>5
  <1> HIDE DEF Linked
  <1>6. CASE Quiet \/ Billed \/ Lapsed
    BY <1>5, <1>6 DEF Quiet, Billed, Lapsed
  <1>7. ASSUME NEW a \in Assignments, Cancelled(a) \/ \E m \in Months : Assigned(a, m)
        PROVE  Linked(c, payments'[c], checkouts'[c])
    BY <1>5, <1>7 DEF Cancelled, Assigned
  <1>8. ASSUME NEW b \in BillKeys, Settled(b) \/ Opened(b)
        PROVE  Linked(c, payments'[c], checkouts'[c])
    <2>1. CASE c = b
      BY <1>3, <1>4, <1>8, <2>1
    <2>2. CASE c # b
      BY <1>5, <1>8, <2>2 DEF Settled, Opened
    <2>3. QED
      BY <2>1, <2>2
  <1>9. QED
    BY <1>6, <1>7, <1>8, StepShape

\* Typed rows, links between rows and the leases a monthly run holds, in every state.
THEOREM BaseInvariant == Spec => []Base
  <1>1. Init => Base
    BY BoundsAssumption DEF Init, Base, TypeOK, OwnersNeverMix, MoneyLinked, MonthlyRunStaysValid
  <1>2. Base /\ [Next]_vars => Base'
    BY StepTypes, StepKeeps, MoneyKept, LinksKept, RunsKept DEF Base
  <1>3. QED
    BY <1>1, <1>2, PTL DEF Spec

\* Every row of every table keeps its type: no handler writes a status, an amount or a
\* reference outside the schema, in particular through a row it has not locked.
THEOREM TypeCorrect == Spec => []TypeOK
  BY BaseInvariant, PTL DEF Base

\* Owner isolation (BR-001, BR-022): the rows that a lease, a bill, a payment or a checkout
\* joins belong to one owner and name the same room, tenant and amount.
THEOREM OwnerIsolation == Spec => []OwnersNeverMix
  BY BaseInvariant, PTL DEF Base

\* The unlocked read of GenerateMonthly is never stale where it matters.
THEOREM MonthlyRunSound == Spec => []MonthlyRunStaysValid
  BY BaseInvariant, PTL DEF Base

=============================================================================
