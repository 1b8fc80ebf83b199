-------------------------- MODULE TransactionsSafety --------------------------
(***************************************************************************)
(* Proofs about Transactions for any number of connections, second half:   *)
(* what the steps of others leave to a transaction, what it commits, that  *)
(* the inductive invariant holds, that Transactions implements Tenancy,    *)
(* which transactions a deadlock needs, and that nobody waits in vain.     *)
(***************************************************************************)
EXTENDS TransactionsProofs, TenancySafety, FiniteSetTheorems

-----------------------------------------------------------------------------
(* What the steps of others leave to a transaction *)

KeepsLocks(x, L, new) ==
    \A row, mode : Holds(L, x, row, mode) => Holds(new, x, row, mode)

\* The rows that x may write do not change.
SameRows(x, L) ==
    /\ \A r \in Rooms : Owns(L, x, RoomRow(r)) => rooms'[r] = rooms[r]
    /\ \A t \in Tenants : Owns(L, x, TenantRow(t)) => tenants'[t] = tenants[t]
    /\ \A a \in Assignments : assignments[a] # Absent /\ Owns(L, x, AssignmentRow(a)) =>
          assignments'[a] = assignments[a]
    /\ \A b \in BillKeys : bills[b] # Absent /\ Owns(L, x, BillRow(b)) =>
          bills'[b] = bills[b] /\ payments'[b] = payments[b] /\ checkouts'[b] = checkouts[b]

ToCollect(b) == bills[b] # Absent /\ bills[b].status \in Collectible

\* No lease appears on a room or a tenant that x has locked, no bill under a number it has
\* entered, and the bills to collect of a pending lease it has locked stay the same ones.
NoIntrusion(x, L) ==
    /\ \A a \in Assignments : assignments[a] = Absent /\ assignments'[a] # Absent =>
          ~Owns(L, x, RoomRow(assignments'[a].room)) /\ ~Owns(L, x, TenantRow(assignments'[a].tenant))
    /\ \A b \in BillKeys : bills[b] = Absent /\ bills'[b] # Absent =>
          ~Owns(L, x, NumberEntry(bills'[b].owner, b))
    /\ \A b \in BillKeys :
          /\ Owns(L, x, AssignmentRow(b[1]))
          /\ assignments[b[1]] # Absent /\ assignments[b[1]].status = "pending_payment"
          => (ToCollect(b)' <=> ToCollect(b))

Undisturbed(x, tx, L, new) ==
    /\ KeepsLocks(x, L, new) /\ SameRows(x, L) /\ NoIntrusion(x, L)
    /\ tx.kind = "assign" => assignments'[tx.bill[1]] = Absent
    /\ tx.kind = "checkout" => today' = today
    /\ billRuns \subseteq billRuns'

LEMMA KeepsOwned ==
    ASSUME NEW x, NEW L, NEW new, KeepsLocks(x, L, new)
    PROVE  /\ \A row : Owns(L, x, row) => Owns(new, x, row)
           /\ \A row : Holds(L, x, row, "update") => Owns(L, x, row)
  BY DEF KeepsLocks, Owns

LEMMA NumberStaysFree ==
    ASSUME Base, TypeOK', AllKept, NEW x, NEW L, NoIntrusion(x, L), NEW o, NEW b \in BillKeys,
           Owns(L, x, NumberEntry(o, b)), ~NumberTaken(o, b)
    PROVE  ~NumberTaken(o, b)'
  <1> SUFFICES ASSUME NEW c \in BillKeys \ {b}, bills'[c] # Absent, bills'[c].owner = o,
                      BillNumber(c) = BillNumber(b)
               PROVE  FALSE
    BY DEF NumberTaken, BillOf, BillNumber
  <1>1. CASE bills[c] = Absent
    <2>1. NumberEntry(bills'[c].owner, c) = NumberEntry(o, b)
      BY DEF NumberEntry
    <2>2. QED
      BY <1>1, <2>1 DEF NoIntrusion
  <1>2. CASE bills[c] # Absent
    BY <1>2 DEF AllKept, BillsKept, BillKept, NumberTaken, BillOf
  <1>3. QED
    BY <1>1, <1>2

LEMMA LiveStaysNone ==
    ASSUME Base, TypeOK', AllKept, NEW x, NEW L, NoIntrusion(x, L), NEW r \in Rooms, NEW t \in Tenants,
           Owns(L, x, RoomRow(r)), Owns(L, x, TenantRow(t)),
           LiveInRoom(r) = {}, LiveForTenant(t) = {}
    PROVE  LiveInRoom(r)' = {} /\ LiveForTenant(t)' = {}
  <1>1. ASSUME NEW a \in LiveAssignments'
        PROVE  assignments'[a].room # r /\ assignments'[a].tenant # t
    <2>1. a \in Assignments /\ assignments'[a] # Absent
      BY DEF LiveAssignments
    <2>2. CASE assignments[a] = Absent
      BY <2>1, <2>2 DEF NoIntrusion
    <2>3. CASE assignments[a] # Absent
      <3>1. LeaseKept(a)
        BY <2>1, <2>3 DEF AllKept, LeasesKept
      <3>2. a \in LiveAssignments
        BY <2>1, <2>3, <3>1, RowTypes DEF LeaseKept, LiveAssignments, LiveStatus, Base, Assignment
      <3>3. QED
        BY <3>1, <3>2 DEF LeaseKept, LiveInRoom, LiveForTenant
    <2>4. QED
      BY <2>2, <2>3
  <1>2. QED
    BY <1>1 DEF LiveInRoom, LiveForTenant

LEMMA AssignStays ==
    ASSUME Base, TypeOK', AllKept, NEW x, NEW tx, NEW w, NEW L, NEW new, AssignAt(x, tx, w, L),
           tx.kind = "assign", tx.pc \in 1 .. 8, tx.bill \in BillKeys, tx.terms \in Assignment,
           Undisturbed(x, tx, L, new)
    PROVE  AssignAt(x, tx, w, new)'
  <1> DEFINE o == tx.owner
             b == tx.bill
             r == tx.terms.room
             t == tx.terms.tenant
  <1>1. /\ tx.terms.owner = o /\ tx.terms.status = "pending_payment" /\ b[2] = tx.terms.start
        /\ assignments'[b[1]] = Absent /\ r \in Rooms /\ t \in Tenants
        /\ DOMAIN w.payments = {} /\ DOMAIN w.checkouts = {}
    BY DEF AssignAt, Undisturbed, Assignment
  <1>2. /\ \A row : Owns(L, x, row) => Owns(new, x, row)
        /\ \A row : Holds(L, x, row, "update") => Owns(L, x, row)
        /\ \A row, mode : Holds(L, x, row, mode) => Holds(new, x, row, mode)
        /\ SameRows(x, L) /\ NoIntrusion(x, L)
    BY KeepsOwned DEF Undisturbed, KeepsLocks
  <1>3. tx.pc > 1 => /\ Holds(L, x, RoomRow(r), "update")
                     /\ RoomVisible(o, r) /\ rooms[r].status = "available"
    BY DEF AssignAt
  <1>4. tx.pc > 2 => Holds(L, x, TenantRow(t), "update") /\ TenantVisible(o, t)
    BY DEF AssignAt
  <1>5. /\ tx.pc > 1 => rooms'[r] = rooms[r]
        /\ tx.pc > 2 => tenants'[t] = tenants[t]
    BY <1>1, <1>2, <1>3, <1>4 DEF SameRows
  <1>6. tx.pc > 1 => /\ Holds(new, x, RoomRow(r), "update")
                     /\ RoomVisible(o, r)' /\ rooms'[r].status = "available"
    BY <1>2, <1>3, <1>5 DEF RoomVisible
  <1>7. tx.pc > 2 => Holds(new, x, TenantRow(t), "update") /\ TenantVisible(o, t)'
    BY <1>2, <1>4, <1>5 DEF TenantVisible
  <1>8. tx.pc > 3 => LiveInRoom(r)' = {} /\ LiveForTenant(t)' = {}
    <2>1. tx.pc > 3 => LiveInRoom(r) = {} /\ LiveForTenant(t) = {}
      BY DEF AssignAt
    <2>2. QED
      BY <1>1, <1>2, <1>3, <1>4, <2>1, LiveStaysNone
  <1>9. tx.pc > 5 => Holds(new, x, NumberEntry(o, b), "update") /\ ~NumberTaken(o, b)'
    <2>1. tx.pc > 5 => Holds(L, x, NumberEntry(o, b), "update") /\ ~NumberTaken(o, b)
      BY DEF AssignAt
    <2>2. QED
      BY <1>2, <2>1, NumberStaysFree
  <1>10. /\ WroteAt(w.assignments, 4, tx.pc, b[1], tx.terms)
         /\ WroteAt(w.bills, 5, tx.pc, b, NewBill(tx.terms, b[2]))
         /\ WroteAt(w.rooms, 6, tx.pc, r, SetStatus(rooms[r], "reserved"))
         /\ WroteAt(w.tenants, 7, tx.pc, t, SetStatus(tenants[t], "pending_payment"))
    BY DEF AssignAt
  <1>11. /\ WroteAt(w.rooms, 6, tx.pc, r, SetStatus(rooms'[r], "reserved"))
         /\ WroteAt(w.tenants, 7, tx.pc, t, SetStatus(tenants'[t], "pending_payment"))
    BY <1>5, <1>10 DEF WroteAt
  <1>12. QED
    BY <1>1, <1>6, <1>7, <1>8, <1>9, <1>10, <1>11 DEF AssignAt, WroteAt, Wrote, SetStatus, NewBill, DueDate

LEMMA BillsToCancelStay ==
    ASSUME NEW x, NEW L, NEW a \in Assignments, NoIntrusion(x, L), Owns(L, x, AssignmentRow(a)),
           assignments[a] # Absent, assignments[a].status = "pending_payment"
    PROVE  BillsToCancel(a)' = BillsToCancel(a)
  BY DEF NoIntrusion, BillsToCancel, ToCollect

LEMMA CancelStays ==
    ASSUME Base, TypeOK', AllKept, NEW x, NEW tx, NEW w, NEW L, NEW new, CancelAt(x, tx, w, L),
           tx.kind = "cancel", tx.pc \in 1 .. 6, tx.lease \in Assignments,
           Undisturbed(x, tx, L, new)
    PROVE  CancelAt(x, tx, w, new)'
  <1> DEFINE o == tx.owner
             a == tx.lease
             r == assignments[a].room
             t == assignments[a].tenant
  <1>1. /\ assignments[a] # Absent /\ assignments[a].owner = o /\ LeaseKept(a)
        /\ r \in Rooms /\ t \in Tenants /\ DOMAIN w.payments = {} /\ DOMAIN w.checkouts = {}
    <2>1. assignments[a] # Absent /\ assignments[a].owner = o
          /\ DOMAIN w.payments = {} /\ DOMAIN w.checkouts = {}
      BY DEF CancelAt, AssignmentOf
    <2>2. QED
      BY <2>1, RowTypes DEF AllKept, LeasesKept, Base, Assignment
  <1>2. AssignmentOf(o, a)' /\ assignments'[a].room = r /\ assignments'[a].tenant = t
    BY <1>1 DEF LeaseKept, AssignmentOf
  <1>3. /\ \A row : Owns(L, x, row) => Owns(new, x, row)
        /\ \A row : Holds(L, x, row, "update") => Owns(L, x, row)
        /\ \A row, mode : Holds(L, x, row, mode) => Holds(new, x, row, mode)
        /\ SameRows(x, L) /\ NoIntrusion(x, L)
    BY KeepsOwned DEF Undisturbed, KeepsLocks
  <1>4. tx.pc > 1 => Holds(L, x, AssignmentRow(a), "update") /\ assignments[a].status = "pending_payment"
    BY DEF CancelAt
  <1>5. tx.pc > 1 => assignments'[a] = assignments[a] /\ BillsToCancel(a)' = BillsToCancel(a)
    BY <1>1, <1>3, <1>4, BillsToCancelStay DEF SameRows
  <1>6. tx.pc > 3 => \A b \in BillsToCancel(a) : Owns(L, x, BillRow(b)) /\ bills'[b] = bills[b]
    <2>1. tx.pc > 3 => \A b \in BillsToCancel(a) : Owns(L, x, BillRow(b))
      BY DEF CancelAt
    <2>2. QED
      BY <1>3, <2>1 DEF SameRows, BillsToCancel
  <1>7. tx.pc > 4 => Owns(L, x, RoomRow(r)) /\ RoomVisible(o, r) /\ rooms'[r] = rooms[r]
    <2>1. tx.pc > 4 => Owns(L, x, RoomRow(r)) /\ RoomVisible(o, r)
      BY DEF CancelAt
    <2>2. QED
      BY <1>1, <1>3, <2>1 DEF SameRows
  <1>8. tx.pc > 5 => Owns(L, x, TenantRow(t)) /\ TenantVisible(o, t) /\ tenants'[t] = tenants[t]
    <2>1. tx.pc > 5 => Owns(L, x, TenantRow(t)) /\ TenantVisible(o, t)
      BY DEF CancelAt
    <2>2. QED
      BY <1>1, <1>3, <2>1 DEF SameRows
  <1>9. /\ tx.pc > 1 => /\ Holds(new, x, AssignmentRow(a), "update")
                        /\ assignments'[a].status = "pending_payment"
        /\ tx.pc > 3 => \A b \in BillsToCancel(a)' : Owns(new, x, BillRow(b))
        /\ tx.pc > 4 => Owns(new, x, RoomRow(r)) /\ RoomVisible(o, r)'
        /\ tx.pc > 5 => Owns(new, x, TenantRow(t)) /\ TenantVisible(o, t)'
    BY <1>3, <1>4, <1>5, <1>6, <1>7, <1>8 DEF RoomVisible, TenantVisible
  <1>10. /\ DOMAIN w.bills = IF tx.pc > 3 THEN BillsToCancel(a)' ELSE {}
         /\ \A b \in DOMAIN w.bills : w.bills[b] = SetStatus(bills'[b], "cancelled")
    <2>1. /\ DOMAIN w.bills = IF tx.pc > 3 THEN BillsToCancel(a) ELSE {}
          /\ \A b \in DOMAIN w.bills : w.bills[b] = SetStatus(bills[b], "cancelled")
      BY DEF CancelAt
    <2>2. QED
      BY <1>5, <1>6, <2>1
  <1>11. /\ WroteAt(w.assignments, 2, tx.pc, a, SetStatus(assignments'[a], "cancelled"))
         /\ WroteAt(w.rooms, 4, tx.pc, r, SetStatus(rooms'[r], "available"))
         /\ WroteAt(w.tenants, 5, tx.pc, t, SetStatus(tenants'[t], "pending_payment"))
    <2>1. /\ WroteAt(w.assignments, 2, tx.pc, a, SetStatus(assignments[a], "cancelled"))
          /\ WroteAt(w.rooms, 4, tx.pc, r, SetStatus(rooms[r], "available"))
          /\ WroteAt(w.tenants, 5, tx.pc, t, SetStatus(tenants[t], "pending_payment"))
      BY DEF CancelAt
    <2>2. QED
      BY <1>5, <1>7, <1>8, <2>1 DEF WroteAt
  <1>12. QED
    BY <1>1, <1>2, <1>9, <1>10, <1>11 DEF CancelAt, WroteAt, Wrote, SetStatus

LEMMA CheckoutStays ==
    ASSUME Base, TypeOK', AllKept, NEW x, NEW tx, NEW w, NEW L, NEW new, CheckoutAt(x, tx, w, L),
           tx.kind = "checkout", tx.pc \in 1 .. 5, tx.bill \in BillKeys, Undisturbed(x, tx, L, new)
    PROVE  CheckoutAt(x, tx, w, new)'
  <1> DEFINE o == tx.owner
             b == tx.bill
  <1>1. TenantBillOf(o, tx.tenant, b)' /\ bills[b] # Absent
    BY DEF CheckoutAt, TenantBillOf, BillOf, AllKept, BillsKept, BillKept
  <1>2. /\ \A row : Holds(L, x, row, "update") => Owns(L, x, row)
        /\ \A row, mode : Holds(L, x, row, mode) => Holds(new, x, row, mode)
        /\ SameRows(x, L) /\ today' = today
    BY KeepsOwned DEF Undisturbed, KeepsLocks
  <1>3. tx.pc > 1 => /\ Holds(L, x, BillRow(b), "update")
                     /\ NeedsCheckout(b) /\ Len(checkouts[b]) < MaxCheckouts
    BY DEF CheckoutAt
  <1>4. tx.pc > 1 => bills'[b] = bills[b] /\ checkouts'[b] = checkouts[b]
    BY <1>1, <1>2, <1>3 DEF SameRows
  <1>5. tx.pc > 1 => /\ Holds(new, x, BillRow(b), "update")
                     /\ NeedsCheckout(b)' /\ Len(checkouts'[b]) < MaxCheckouts
    <2>1. tx.pc > 1 => (NeedsCheckout(b)' <=> NeedsCheckout(b))
      BY <1>2, <1>4 DEF NeedsCheckout, LiveCheckouts
    <2>2. QED
      BY <1>2, <1>3, <1>4, <2>1
  <1>6. tx.pc > 1 => /\ WithCheckout(o, b)' = WithCheckout(o, b)
                     /\ SetStatus(bills'[b], "gateway_pending") = SetStatus(bills[b], "gateway_pending")
    BY <1>2, <1>4 DEF WithCheckout, NewCheckout
  <1>7. /\ WroteAt(w.checkouts, 2, tx.pc, b, WithCheckout(o, b))
        /\ WroteAt(w.bills, 4, tx.pc, b, SetStatus(bills[b], "gateway_pending"))
        /\ DOMAIN w.rooms = {} /\ DOMAIN w.tenants = {}
        /\ DOMAIN w.assignments = {} /\ DOMAIN w.payments = {}
    BY DEF CheckoutAt
  <1>8. /\ WroteAt(w.checkouts, 2, tx.pc, b, WithCheckout(o, b)')
        /\ WroteAt(w.bills, 4, tx.pc, b, SetStatus(bills'[b], "gateway_pending"))
    BY <1>6, <1>7 DEF WroteAt
  <1>9. QED
    BY <1>1, <1>5, <1>7, <1>8 DEF CheckoutAt, WroteAt, Wrote, SetStatus

LEMMA RecordStays ==
    ASSUME Base, TypeOK', AllKept, NEW x, NEW tx, NEW w, NEW L, NEW new, RecordAt(x, tx, w, L),
           tx.kind = "record", tx.pc \in 1 .. 10, tx.bill \in BillKeys, Undisturbed(x, tx, L, new)
    PROVE  RecordAt(x, tx, w, new)'
  <1> DEFINE o == tx.owner
             b == tx.bill
             a == tx.bill[1]
             r == bills[b].room
             t == bills[b].tenant
             activates == assignments[a].status = "pending_payment"
  <1>1. /\ bills[b] # Absent /\ bills[b].owner = o /\ BillKept(b) /\ a \in Assignments
        /\ assignments[a] # Absent
        /\ r \in Rooms /\ t \in Tenants /\ DOMAIN w.checkouts = {}
    <2>1. bills[b] # Absent /\ bills[b].owner = o /\ DOMAIN w.checkouts = {}
      BY DEF RecordAt, BillOf
    <2>2. QED
      BY <2>1, RowTypes, KeyParts DEF AllKept, BillsKept, Base, Bill, OwnersNeverMix
  <1>2. BillOf(o, b)' /\ bills'[b].room = r /\ bills'[b].tenant = t
    BY <1>1 DEF BillKept, BillOf
  <1>3. /\ \A row : Owns(L, x, row) => Owns(new, x, row)
        /\ \A row : Holds(L, x, row, "update") => Owns(L, x, row)
        /\ \A row, mode : Holds(L, x, row, mode) => Holds(new, x, row, mode)
        /\ SameRows(x, L)
    BY KeepsOwned DEF Undisturbed, KeepsLocks
  <1>4. tx.pc > 1 => Holds(L, x, BillRow(b), "update") /\ Payable(o, b, tx.amount)
    BY DEF RecordAt
  <1>5. tx.pc > 1 => bills'[b] = bills[b] /\ payments'[b] = payments[b]
    BY <1>1, <1>3, <1>4 DEF SameRows
  <1>6. /\ tx.pc > 1 => Holds(new, x, BillRow(b), "update") /\ Payable(o, b, tx.amount)'
        /\ tx.pc > 2 => payments'[b] = <<>>
    <2>1. tx.pc > 2 => payments[b] = <<>>
      BY DEF RecordAt
    <2>2. QED
      BY <1>3, <1>4, <1>5, <2>1 DEF Payable, BillOf
  <1>7. /\ tx.pc > 6 => Holds(L, x, AssignmentRow(a), "update")
        /\ tx.pc \in 7 .. 9 => activates
    BY DEF RecordAt
  <1>8. tx.pc > 6 => assignments'[a] = assignments[a]
    BY <1>1, <1>3, <1>7 DEF SameRows
  <1>9. tx.pc > 8 /\ activates => /\ Owns(L, x, TenantRow(t)) /\ TenantVisible(o, t)
                                  /\ tenants'[t] = tenants[t]
    <2>1. tx.pc > 8 /\ activates => Owns(L, x, TenantRow(t)) /\ TenantVisible(o, t)
      BY DEF RecordAt
    <2>2. QED
      BY <1>1, <1>3, <2>1 DEF SameRows
  <1>10. tx.pc > 9 /\ activates => /\ Owns(L, x, RoomRow(r)) /\ RoomVisible(o, r)
                                   /\ rooms'[r] = rooms[r]
    <2>1. tx.pc > 9 /\ activates => Owns(L, x, RoomRow(r)) /\ RoomVisible(o, r)
      BY DEF RecordAt
    <2>2. QED
      BY <1>1, <1>3, <2>1 DEF SameRows
  <1>11. /\ tx.pc > 6 => Holds(new, x, AssignmentRow(a), "update")
         /\ tx.pc \in 7 .. 9 => activates'
         /\ tx.pc > 8 /\ activates' => Owns(new, x, TenantRow(t)) /\ TenantVisible(o, t)'
         /\ tx.pc > 9 /\ activates' => Owns(new, x, RoomRow(r)) /\ RoomVisible(o, r)'
    BY <1>2, <1>3, <1>7, <1>8, <1>9, <1>10 DEF TenantVisible, RoomVisible
  <1>12. /\ WroteAt(w.payments, 2, tx.pc, b, WithPayment(b, tx.amount))
         /\ WroteAt(w.bills, 5, tx.pc, b, SetStatus(bills[b], "paid"))
         /\ IF activates
            THEN /\ WroteAt(w.assignments, 7, tx.pc, a, SetStatus(assignments[a], "active"))
                 /\ WroteAt(w.tenants, 8, tx.pc, t, SetStatus(tenants[t], "active"))
                 /\ WroteAt(w.rooms, 9, tx.pc, r, SetStatus(rooms[r], "occupied"))
            ELSE DOMAIN w.assignments = {} /\ DOMAIN w.tenants = {} /\ DOMAIN w.rooms = {}
    BY DEF RecordAt
  <1>13. /\ WroteAt(w.payments, 2, tx.pc, b, WithPayment(b, tx.amount)')
         /\ WroteAt(w.bills, 5, tx.pc, b, SetStatus(bills'[b], "paid"))
    <2>1. tx.pc > 1 => WithPayment(b, tx.amount)' = WithPayment(b, tx.amount)
      BY <1>5 DEF WithPayment, PaymentFor
    <2>2. QED
      BY <1>5, <1>12, <2>1 DEF WroteAt
  <1>14. IF activates'
         THEN /\ WroteAt(w.assignments, 7, tx.pc, a, SetStatus(assignments'[a], "active"))
              /\ WroteAt(w.tenants, 8, tx.pc, t, SetStatus(tenants'[t], "active"))
              /\ WroteAt(w.rooms, 9, tx.pc, r, SetStatus(rooms'[r], "occupied"))
         ELSE DOMAIN w.assignments = {} /\ DOMAIN w.tenants = {} /\ DOMAIN w.rooms = {}
    <2>1. CASE tx.pc > 6
      BY <1>8, <1>9, <1>10, <1>12, <2>1 DEF WroteAt
    <2>2. CASE ~(tx.pc > 6)
      BY <1>12, <2>2 DEF WroteAt
    <2>3. QED
      BY <2>1, <2>2
  <1>15. QED
    BY <1>1, <1>2, <1>6, <1>11, <1>13, <1>14 DEF RecordAt, WroteAt, Wrote, SetStatus

LEMMA GenerateStays ==
    ASSUME Base, TypeOK', MonthlyRunStaysValid', AllKept, NEW x, NEW tx, NEW w, NEW L, NEW new,
           GenerateAt(x, tx, w, L), tx.kind = "generate", tx.pc \in 1 .. 5, tx.month \in Months,
           Undisturbed(x, tx, L, new), OwnersNeverMix'
    PROVE  GenerateAt(x, tx, w, new)'
  <1> DEFINE o == tx.owner
  <1>1. /\ tx.run \in billRuns /\ tx.run.owner = o
        /\ \A b \in BillKeys : Listed(b, tx.todo) => b \in Month(tx)
        /\ DOMAIN w.bills \subseteq Month(tx)
        /\ \A b \in Month(tx) : b \in DOMAIN w.bills \/ bills[b] # Absent \/ Listed(b, tx.todo)
        /\ \A b \in DOMAIN w.bills : Entered(x, o, b, w.bills, L)
        /\ tx.pc < 5 <=> tx.todo # <<>>
        /\ tx.pc \in 2 .. 4 => Head(tx.todo) \in DOMAIN w.bills
        /\ \A i, j \in DOMAIN tx.todo : i < j => Older(tx.todo[i], tx.todo[j])
        /\ \A b \in DOMAIN w.bills, c \in BillKeys : Listed(c, tx.todo) => Older(b, c)
        /\ BillsAlone(w)
    BY DEF GenerateAt, BillsAlone
  <1>2. tx.run \in billRuns'
    BY <1>1 DEF Undisturbed
  <1>3. Month(tx) \subseteq BillKeys
    BY <1>1 DEF Month, Base, TypeOK, BillRun, BillKeys
  <1>4. \A b \in Month(tx) : bills[b] # Absent => bills'[b] # Absent
    BY <1>3 DEF AllKept, BillsKept, BillKept
  <1>5. ASSUME NEW b \in DOMAIN w.bills PROVE Entered(x, o, b, w.bills, new)'
    <2>1. Entered(x, o, b, w.bills, L) /\ b \in BillKeys /\ b \in Month(tx)
      BY <1>1, <1>3
    <2>2. Owns(L, x, NumberEntry(o, b)) /\ Holds(new, x, NumberEntry(o, b), "update")
      BY <2>1 DEF Entered, Owns, Undisturbed, KeepsLocks
    <2>3. ~NumberTaken(o, b)'
      BY <2>1, <2>2, NumberStaysFree DEF Entered, Undisturbed
    <2>4. AssignmentOf(o, b[1]) /\ assignments[b[1]].status = "active" /\ b[1] \in Assignments
      BY <1>1, <2>1, KeyParts DEF Month, Base, MonthlyRunStaysValid
    <2>5. assignments'[b[1]] = assignments[b[1]]
      BY <2>4 DEF AssignmentOf, AllKept, LeasesKept, LeaseKept
    <2>6. bills'[b] = Absent
      <3>1. SUFFICES ASSUME bills'[b] # Absent PROVE FALSE
        OBVIOUS
      <3>2. bills'[b].owner = o
        BY <2>1, <2>4, <2>5, <3>1 DEF OwnersNeverMix, AssignmentOf
      <3>3. QED
        BY <2>1, <2>2, <3>1, <3>2 DEF Entered, Undisturbed, NoIntrusion
    <2>7. QED
      BY <2>1, <2>2, <2>3, <2>5, <2>6 DEF Entered, NewBill, DueDate, BillNumber
  <1>6. QED
    BY <1>1, <1>2, <1>4, <1>5 DEF GenerateAt, BillsAlone, Month, Older

LEMMA ProgressStays ==
    ASSUME Base, Base', AllKept, NEW x, NEW tx \in Tx, NEW w, NEW L, NEW new,
           ProgressAt(x, tx, w, L), Undisturbed(x, tx, L, new)
    PROVE  ProgressAt(x, tx, w, new)'
  <1>1. /\ tx.kind = "assign" => tx.pc \in 1 .. 8 /\ tx.bill \in BillKeys /\ tx.terms \in Assignment
        /\ tx.kind = "cancel" => tx.pc \in 1 .. 6 /\ tx.lease \in Assignments
        /\ tx.kind = "record" => tx.pc \in 1 .. 10 /\ tx.bill \in BillKeys
        /\ tx.kind = "checkout" => tx.pc \in 1 .. 5 /\ tx.bill \in BillKeys
        /\ tx.kind = "generate" => tx.pc \in 1 .. 5 /\ tx.month \in Months
    BY DEF Tx
  <1>2. TypeOK' /\ OwnersNeverMix' /\ MonthlyRunStaysValid'
    BY DEF Base
  <1>3. tx.kind = "assign" => AssignAt(x, tx, w, new)'
    BY <1>1, <1>2, AssignStays DEF ProgressAt
  <1>4. tx.kind = "cancel" => CancelAt(x, tx, w, new)'
    BY <1>1, <1>2, CancelStays DEF ProgressAt
  <1>5. tx.kind = "record" => RecordAt(x, tx, w, new)'
    BY <1>1, <1>2, RecordStays DEF ProgressAt
  <1>6. tx.kind = "checkout" => CheckoutAt(x, tx, w, new)'
    BY <1>1, <1>2, CheckoutStays DEF ProgressAt
  <1>7. tx.kind = "generate" => GenerateAt(x, tx, w, new)'
    BY <1>1, <1>2, GenerateStays DEF ProgressAt
  <1>8. QED
    BY <1>3, <1>4, <1>5, <1>6, <1>7 DEF ProgressAt

-----------------------------------------------------------------------------
(* A commit is one step of Tenancy *)

\* The table with this version of the row k.
SetRow(table, k, v) == [table EXCEPT ![k] = v]

LEMMA OverlayNone ==
    ASSUME NEW S, NEW T, NEW old \in [S -> T], NEW f, DOMAIN f = {}
    PROVE  Overlay(old, f) = old
  BY DEF Overlay

LEMMA OverlayRow ==
    ASSUME NEW S, NEW T, NEW old \in [S -> T], NEW f, NEW k, NEW v, Wrote(f, k, v)
    PROVE  Overlay(old, f) = SetRow(old, k, v)
  BY DEF Overlay, Wrote, SetRow

LEMMA CommitTables ==
    ASSUME NEW x \in Txs, Commit(x)
    PROVE  /\ rooms' = Overlay(rooms, writes[x].rooms)
           /\ tenants' = Overlay(tenants, writes[x].tenants)
           /\ assignments' = Overlay(assignments, writes[x].assignments)
           /\ bills' = Overlay(bills, writes[x].bills)
           /\ payments' = Overlay(payments, writes[x].payments)
           /\ checkouts' = Overlay(checkouts, writes[x].checkouts)
           /\ deleting' = deleting /\ today' = today /\ billRuns' = billRuns /\ End(x)
  BY DEF Commit, End

LEMMA CommitRooms ==
    ASSUME TypeOK, NEW x \in Txs, Commit(x)
    PROVE  /\ DOMAIN writes[x].rooms = {} => rooms' = rooms
           /\ \A k, v : Wrote(writes[x].rooms, k, v) => rooms' = SetRow(rooms, k, v)
  <1>1. rooms \in [Rooms -> Room \cup {Absent}] /\ rooms' = Overlay(rooms, writes[x].rooms)
    BY CommitTables DEF TypeOK
  <1>2. DOMAIN writes[x].rooms = {} => Overlay(rooms, writes[x].rooms) = rooms
    BY <1>1, OverlayNone
  <1>3. ASSUME NEW k, NEW v, Wrote(writes[x].rooms, k, v)
        PROVE  Overlay(rooms, writes[x].rooms) = SetRow(rooms, k, v)
    BY <1>1, <1>3, OverlayRow
  <1>4. QED
    BY <1>1, <1>2, <1>3

LEMMA CommitTenants ==
    ASSUME TypeOK, NEW x \in Txs, Commit(x)
    PROVE  /\ DOMAIN writes[x].tenants = {} => tenants' = tenants
           /\ \A k, v : Wrote(writes[x].tenants, k, v) => tenants' = SetRow(tenants, k, v)
  <1>1. tenants \in [Tenants -> Tenant \cup {Absent}] /\ tenants' = Overlay(tenants, writes[x].tenants)
    BY CommitTables DEF TypeOK
  <1>2. DOMAIN writes[x].tenants = {} => Overlay(tenants, writes[x].tenants) = tenants
    BY <1>1, OverlayNone
  <1>3. ASSUME NEW k, NEW v, Wrote(writes[x].tenants, k, v)
        PROVE  Overlay(tenants, writes[x].tenants) = SetRow(tenants, k, v)
    BY <1>1, <1>3, OverlayRow
  <1>4. QED
    BY <1>1, <1>2, <1>3

LEMMA CommitAssignments ==
    ASSUME TypeOK, NEW x \in Txs, Commit(x)
    PROVE  /\ DOMAIN writes[x].assignments = {} => assignments' = assignments
           /\ \A k, v : Wrote(writes[x].assignments, k, v) => assignments' = SetRow(assignments, k, v)
  <1>1. assignments \in [Assignments -> Assignment \cup {Absent}] /\ assignments' = Overlay(assignments, writes[x].assignments)
    BY CommitTables DEF TypeOK
  <1>2. DOMAIN writes[x].assignments = {} => Overlay(assignments, writes[x].assignments) = assignments
    BY <1>1, OverlayNone
  <1>3. ASSUME NEW k, NEW v, Wrote(writes[x].assignments, k, v)
        PROVE  Overlay(assignments, writes[x].assignments) = SetRow(assignments, k, v)
    BY <1>1, <1>3, OverlayRow
  <1>4. QED
    BY <1>1, <1>2, <1>3

LEMMA CommitBills ==
    ASSUME TypeOK, NEW x \in Txs, Commit(x)
    PROVE  /\ DOMAIN writes[x].bills = {} => bills' = bills
           /\ \A k, v : Wrote(writes[x].bills, k, v) => bills' = SetRow(bills, k, v)
  <1>1. bills \in [BillKeys -> Bill \cup {Absent}] /\ bills' = Overlay(bills, writes[x].bills)
    BY CommitTables DEF TypeOK
  <1>2. DOMAIN writes[x].bills = {} => Overlay(bills, writes[x].bills) = bills
    BY <1>1, OverlayNone
  <1>3. ASSUME NEW k, NEW v, Wrote(writes[x].bills, k, v)
        PROVE  Overlay(bills, writes[x].bills) = SetRow(bills, k, v)
    BY <1>1, <1>3, OverlayRow
  <1>4. QED
    BY <1>1, <1>2, <1>3

LEMMA CommitPayments ==
    ASSUME TypeOK, NEW x \in Txs, Commit(x)
    PROVE  /\ DOMAIN writes[x].payments = {} => payments' = payments
           /\ \A k, v : Wrote(writes[x].payments, k, v) => payments' = SetRow(payments, k, v)
  <1>1. payments \in [BillKeys -> Seq(Payment)] /\ payments' = Overlay(payments, writes[x].payments)
    BY CommitTables DEF TypeOK
  <1>2. DOMAIN writes[x].payments = {} => Overlay(payments, writes[x].payments) = payments
    BY <1>1, OverlayNone
  <1>3. ASSUME NEW k, NEW v, Wrote(writes[x].payments, k, v)
        PROVE  Overlay(payments, writes[x].payments) = SetRow(payments, k, v)
    BY <1>1, <1>3, OverlayRow
  <1>4. QED
    BY <1>1, <1>2, <1>3

LEMMA CommitCheckouts ==
    ASSUME TypeOK, NEW x \in Txs, Commit(x)
    PROVE  /\ DOMAIN writes[x].checkouts = {} => checkouts' = checkouts
           /\ \A k, v : Wrote(writes[x].checkouts, k, v) => checkouts' = SetRow(checkouts, k, v)
  <1>1. checkouts \in [BillKeys -> Seq(Checkout)] /\ checkouts' = Overlay(checkouts, writes[x].checkouts)
    BY CommitTables DEF TypeOK
  <1>2. DOMAIN writes[x].checkouts = {} => Overlay(checkouts, writes[x].checkouts) = checkouts
    BY <1>1, OverlayNone
  <1>3. ASSUME NEW k, NEW v, Wrote(writes[x].checkouts, k, v)
        PROVE  Overlay(checkouts, writes[x].checkouts) = SetRow(checkouts, k, v)
    BY <1>1, <1>3, OverlayRow
  <1>4. QED
    BY <1>1, <1>2, <1>3

LEMMA AssignCommits ==
    ASSUME Base, Connections, NEW x \in Txs, Open(x, "assign"), Commit(x),
           AssignAt(x, txs[x], writes[x], locks)
    PROVE  AssignRoom(txs[x].owner, txs[x].bill[1], txs[x].terms.room, txs[x].terms.tenant,
                      txs[x].terms.rent, txs[x].terms.dueDay, txs[x].terms.start)
  <1> DEFINE o == txs[x].owner
             b == txs[x].bill
             row == txs[x].terms
             r == row.room
             t == row.tenant
  <1>1. /\ o \in Owners /\ b \in BillKeys /\ row \in Assignment /\ txs[x].pc = 8 /\ ~Open(x, "generate")
    BY AssignTx, AssignLabels DEF Commit, Open
  <1>2. /\ row.owner = o /\ row.status = "pending_payment" /\ b[2] = row.start
        /\ assignments[b[1]] = Absent
        /\ RoomVisible(o, r) /\ rooms[r].status = "available" /\ TenantVisible(o, t)
        /\ LiveInRoom(r) = {} /\ LiveForTenant(t) = {} /\ ~NumberTaken(o, b)
    BY <1>1 DEF AssignAt
  <1>3. /\ Wrote(writes[x].assignments, b[1], row)
        /\ Wrote(writes[x].bills, b, NewBill(row, b[2]))
        /\ Wrote(writes[x].rooms, r, SetStatus(rooms[r], "reserved"))
        /\ Wrote(writes[x].tenants, t, SetStatus(tenants[t], "pending_payment"))
        /\ DOMAIN writes[x].payments = {} /\ DOMAIN writes[x].checkouts = {}
    BY <1>1 DEF AssignAt, WroteAt
  <1>4. /\ assignments' = SetRow(assignments, b[1], row)
        /\ bills' = SetRow(bills, b, NewBill(row, b[2]))
        /\ rooms' = SetRow(rooms, r, SetStatus(rooms[r], "reserved"))
        /\ tenants' = SetRow(tenants, t, SetStatus(tenants[t], "pending_payment"))
        /\ UNCHANGED <<payments, checkouts, deleting, billRuns, today>>
    BY <1>1, <1>3, CommitTables, CommitRooms, CommitTenants, CommitAssignments, CommitBills,
       CommitPayments, CommitCheckouts DEF Base
  <1>5. UpdateRoomStatus(o, r, "reserved") /\ UpdateTenantStatus(o, t, "pending_payment")
    BY <1>2, <1>4 DEF UpdateRoomStatus, UpdateTenantStatus, SetStatus, SetRow
  <1>6. /\ b = <<b[1], row.start>>
        /\ row = [owner |-> o, room |-> r, tenant |-> t, rent |-> row.rent,
                  dueDay |-> row.dueDay, start |-> row.start, status |-> "pending_payment"]
    BY <1>1, <1>2 DEF BillKeys, Assignment
  <1>7. /\ assignments' = [assignments EXCEPT ![b[1]] = row]
        /\ bills' = [bills EXCEPT ![<<b[1], row.start>>] = NewBill(row, row.start)]
    BY <1>2, <1>4, <1>6 DEF SetRow
  <1>8. rooms[r] # Absent /\ ~NumberTaken(o, <<b[1], row.start>>)
    BY <1>2, <1>6 DEF RoomVisible
  <1>9. QED
    BY <1>2, <1>4, <1>5, <1>6, <1>7, <1>8 DEF AssignRoom

LEMMA CancelCommits ==
    ASSUME Base, Connections, NEW x \in Txs, Open(x, "cancel"), Commit(x),
           CancelAt(x, txs[x], writes[x], locks)
    PROVE  CancelOnboarding(txs[x].owner, txs[x].lease)
  <1> DEFINE o == txs[x].owner
             a == txs[x].lease
             r == assignments[a].room
             t == assignments[a].tenant
             w == writes[x]
  <1>1. /\ o \in Owners /\ a \in Assignments /\ txs[x].pc = 6 /\ ~Open(x, "generate")
    BY CancelTx, CancelLabels DEF Commit, Open
  <1>2. /\ AssignmentOf(o, a) /\ assignments[a].status = "pending_payment"
        /\ RoomVisible(o, r) /\ TenantVisible(o, t)
    BY <1>1 DEF CancelAt
  <1>3. /\ Wrote(w.assignments, a, SetStatus(assignments[a], "cancelled"))
        /\ Wrote(w.rooms, r, SetStatus(rooms[r], "available"))
        /\ Wrote(w.tenants, t, SetStatus(tenants[t], "pending_payment"))
        /\ DOMAIN w.payments = {} /\ DOMAIN w.checkouts = {}
        /\ DOMAIN w.bills = BillsToCancel(a)
        /\ \A b \in DOMAIN w.bills : w.bills[b] = SetStatus(bills[b], "cancelled")
    BY <1>1 DEF CancelAt, WroteAt
  <1>4. /\ assignments' = SetRow(assignments, a, SetStatus(assignments[a], "cancelled"))
        /\ rooms' = SetRow(rooms, r, SetStatus(rooms[r], "available"))
        /\ tenants' = SetRow(tenants, t, SetStatus(tenants[t], "pending_payment"))
        /\ UNCHANGED <<payments, checkouts, deleting, billRuns, today>>
        /\ bills' = Overlay(bills, w.bills)
    BY <1>1, <1>3, CommitTables, CommitRooms, CommitTenants, CommitAssignments,
       CommitPayments, CommitCheckouts DEF Base
  <1>5. UpdateRoomStatus(o, r, "available") /\ UpdateTenantStatus(o, t, "pending_payment")
    BY <1>2, <1>4 DEF UpdateRoomStatus, UpdateTenantStatus, SetStatus, SetRow
  <1>6. assignments' = [assignments EXCEPT ![a].status = "cancelled"]
    BY <1>4 DEF SetStatus, SetRow
  <1>7. DOMAIN bills = BillKeys
    BY DEF Base, TypeOK
  <1>8. CancelUnpaidBills(a)
    BY <1>3, <1>4, <1>7 DEF CancelUnpaidBills, Overlay, BillsToCancel, SetStatus
  <1>9. QED
    BY <1>2, <1>4, <1>5, <1>6, <1>8 DEF CancelOnboarding

LEMMA CheckoutCommits ==
    ASSUME Base, Connections, NEW x \in Txs, Open(x, "checkout"), Commit(x),
           CheckoutAt(x, txs[x], writes[x], locks)
    PROVE  PayBill(txs[x].owner, txs[x].tenant, txs[x].bill)
  <1> DEFINE o == txs[x].owner
             b == txs[x].bill
             w == writes[x]
  <1>1. txs[x].pc = 5 /\ ~Open(x, "generate")
    BY CheckoutTx, CheckoutLabels DEF Commit, Open
  <1>2. TenantBillOf(o, txs[x].tenant, b) /\ NeedsCheckout(b) /\ Len(checkouts[b]) < MaxCheckouts
    BY <1>1 DEF CheckoutAt
  <1>3. /\ Wrote(w.checkouts, b, WithCheckout(o, b))
        /\ Wrote(w.bills, b, SetStatus(bills[b], "gateway_pending"))
        /\ DOMAIN w.rooms = {} /\ DOMAIN w.tenants = {}
        /\ DOMAIN w.assignments = {} /\ DOMAIN w.payments = {}
    BY <1>1 DEF CheckoutAt, WroteAt
  <1>4. /\ checkouts' = SetRow(checkouts, b, WithCheckout(o, b))
        /\ bills' = SetRow(bills, b, SetStatus(bills[b], "gateway_pending"))
        /\ UNCHANGED <<leases, payments, deleting, billRuns, today>>
    BY <1>1, <1>3, CommitTables, CommitRooms, CommitTenants, CommitAssignments, CommitBills,
       CommitPayments, CommitCheckouts DEF Base, leases
  <1>5. /\ checkouts' = [checkouts EXCEPT ![b] = Append(@, NewCheckout(o, bills[b]))]
        /\ bills' = [bills EXCEPT ![b].status = "gateway_pending"]
    BY <1>4 DEF SetRow, SetStatus, WithCheckout
  <1>6. QED
    BY <1>2, <1>4, <1>5 DEF PayBill

LEMMA RecordCommits ==
    ASSUME Base, Connections, NEW x \in Txs, Open(x, "record"), Commit(x),
           RecordAt(x, txs[x], writes[x], locks)
    PROVE  RecordManual(txs[x].owner, txs[x].bill, txs[x].amount)
  <1> DEFINE o == txs[x].owner
             b == txs[x].bill
             a == b[1]
             r == bills[b].room
             t == bills[b].tenant
             w == writes[x]
             activates == assignments[a].status = "pending_payment"
  <1>1. txs[x].pc = 10 /\ ~Open(x, "generate")
    BY RecordTx, RecordLabels DEF Commit, Open
  <1>2. Payable(o, b, txs[x].amount) /\ payments[b] = <<>>
    BY <1>1 DEF RecordAt
  <1>3. activates => RoomVisible(o, r) /\ TenantVisible(o, t)
    BY <1>1 DEF RecordAt
  <1>4. /\ Wrote(w.payments, b, WithPayment(b, txs[x].amount))
        /\ Wrote(w.bills, b, SetStatus(bills[b], "paid")) /\ DOMAIN w.checkouts = {}
    BY <1>1 DEF RecordAt, WroteAt
  <1>5. activates => /\ Wrote(w.assignments, a, SetStatus(assignments[a], "active"))
                     /\ Wrote(w.tenants, t, SetStatus(tenants[t], "active"))
                     /\ Wrote(w.rooms, r, SetStatus(rooms[r], "occupied"))
    BY <1>1 DEF RecordAt, WroteAt
  <1>6. ~activates => DOMAIN w.assignments = {} /\ DOMAIN w.tenants = {} /\ DOMAIN w.rooms = {}
    BY <1>1 DEF RecordAt
  <1>7. /\ payments' = SetRow(payments, b, WithPayment(b, txs[x].amount))
        /\ bills' = SetRow(bills, b, SetStatus(bills[b], "paid"))
        /\ UNCHANGED <<checkouts, deleting, billRuns, today>>
    BY <1>1, <1>4, CommitTables, CommitBills, CommitPayments, CommitCheckouts DEF Base
  <1>8. /\ payments' = [payments EXCEPT ![b] = Append(@, PaymentFor(bills[b], txs[x].amount))]
        /\ bills' = [bills EXCEPT ![b].status = "paid"]
    BY <1>7 DEF SetRow, SetStatus, WithPayment
  <1>9. ActivateTenancy(o, b)
    <2>1. CASE activates
      <3>1. /\ assignments' = SetRow(assignments, a, SetStatus(assignments[a], "active"))
            /\ tenants' = SetRow(tenants, t, SetStatus(tenants[t], "active"))
            /\ rooms' = SetRow(rooms, r, SetStatus(rooms[r], "occupied"))
        BY <1>5, <2>1, CommitRooms, CommitTenants, CommitAssignments DEF Base
      <3>2. assignments' = [assignments EXCEPT ![a].status = "active"]
        BY <3>1 DEF SetRow, SetStatus
      <3>3. UpdateTenantStatus(o, t, "active") /\ UpdateRoomStatus(o, r, "occupied")
        BY <1>3, <2>1, <3>1 DEF UpdateTenantStatus, UpdateRoomStatus, SetRow, SetStatus
      <3>4. QED
        BY <2>1, <3>2, <3>3 DEF ActivateTenancy
    <2>2. CASE ~activates
      BY <1>6, <2>2, CommitRooms, CommitTenants, CommitAssignments DEF Base, ActivateTenancy, leases
    <2>3. QED
      BY <2>1, <2>2
  <1>10. QED
    BY <1>2, <1>7, <1>8, <1>9 DEF RecordManual, SettleInFull

LEMMA GenerateCommits ==
    ASSUME Base, Connections, NEW x \in Txs, Open(x, "generate"), Commit(x),
           GenerateAt(x, txs[x], writes[x], locks)
    PROVE  InsertMonthlyBills(txs[x].run, txs[x].month)
  <1> DEFINE tx == txs[x]
             o == tx.owner
             w == writes[x]
             new == MissingBills(tx.run, tx.month)
  <1>1. txs[x].pc = 5
    BY GenerateTx, GenerateLabels DEF Commit, Open
  <1>2. /\ tx.run \in billRuns /\ tx.run.owner = o /\ DOMAIN w.bills \subseteq Month(tx)
        /\ \A b \in Month(tx) : b \in DOMAIN w.bills \/ bills[b] # Absent
        /\ \A b \in DOMAIN w.bills : Entered(x, o, b, w.bills, locks)
        /\ BillsAlone(w)
    <2>1. /\ tx.run \in billRuns /\ tx.run.owner = o /\ DOMAIN w.bills \subseteq Month(tx)
          /\ \A b \in DOMAIN w.bills : Entered(x, o, b, w.bills, locks)
          /\ BillsAlone(w)
      BY DEF GenerateAt, BillsAlone
    <2>2. txs[x].todo = <<>>
      BY <1>1 DEF GenerateAt
    <2>3. \A b : ~Listed(b, txs[x].todo)
      BY <2>2 DEF Listed
    <2>4. \A b \in Month(tx) : b \in DOMAIN w.bills \/ bills[b] # Absent
      BY <2>3 DEF GenerateAt
    <2>5. QED
      BY <2>1, <2>4
  <1>3. DOMAIN w.bills = new
    <2>1. \A b \in DOMAIN w.bills : bills[b] = Absent
      BY <1>2 DEF Entered
    <2>2. QED
      BY <1>2, <2>1 DEF MissingBills, Month
  <1>4. /\ \A b \in new : w.bills[b] = NewBill(assignments[b[1]], b[2]) /\ ~NumberTaken(o, b)
        /\ \A b, c \in new : BillNumber(c) = BillNumber(b) => c = b
    BY <1>2, <1>3 DEF Entered
  <1>5. DOMAIN bills = BillKeys
    BY DEF Base, TypeOK
  <1>6. /\ bills' = Overlay(bills, w.bills)
        /\ UNCHANGED <<rooms, tenants, assignments, payments, checkouts, deleting, billRuns, today>>
    BY <1>2, CommitTables, CommitRooms, CommitTenants, CommitAssignments,
       CommitPayments, CommitCheckouts DEF Base, BillsAlone
  <1>7. bills' = [b \in BillKeys |-> IF b \in new THEN NewBill(assignments[b[1]], b[2]) ELSE bills[b]]
    BY <1>3, <1>4, <1>5, <1>6 DEF Overlay
  <1>8. QED
    BY <1>2, <1>4, <1>6, <1>7 DEF InsertMonthlyBills, leases

\* A run of a transaction statement moves it on, rolls it back or commits it.
LEMMA ExecuteCases ==
    ASSUME Base, Connections, NEW x \in Txs, Progress(x), Execute(x)
    PROVE  Moves(x) \/ Rollback(x) \/ (Label(x) = "Commit" /\ Commit(x))
  BY StatementMoves, Dispatch

\* What a commit does is one operation of Tenancy: the one the request names.
Committed(x) ==
    /\ Open(x, "assign") =>
          AssignRoom(txs[x].owner, txs[x].bill[1], txs[x].terms.room, txs[x].terms.tenant,
                     txs[x].terms.rent, txs[x].terms.dueDay, txs[x].terms.start)
    /\ Open(x, "cancel")   => CancelOnboarding(txs[x].owner, txs[x].lease)
    /\ Open(x, "record")   => RecordManual(txs[x].owner, txs[x].bill, txs[x].amount)
    /\ Open(x, "checkout") => PayBill(txs[x].owner, txs[x].tenant, txs[x].bill)
    /\ Open(x, "generate") => InsertMonthlyBills(txs[x].run, txs[x].month)

LEMMA CommitIsAtomic ==
    ASSUME Base, Connections, NEW x \in Txs, txs[x] # Absent, Progress(x), Commit(x)
    PROVE  Committed(x)
  <1>1. ProgressAt(x, txs[x], writes[x], locks)
    BY DEF Progress
  <1>2. QED
    BY <1>1, AssignCommits, CancelCommits, RecordCommits, CheckoutCommits, GenerateCommits
       DEF Committed, ProgressAt, Open

LEMMA CommittedIsNext ==
    ASSUME Base, Connections, NEW x \in Txs, txs[x] # Absent, Committed(x)
    PROVE  Next
  <1>1. CASE Open(x, "assign")
    <2>1. /\ txs[x].owner \in Owners /\ txs[x].bill[1] \in Assignments
          /\ txs[x].terms.room \in Rooms /\ txs[x].terms.tenant \in Tenants
          /\ txs[x].terms.rent \in Rents /\ txs[x].terms.dueDay \in DueDays
          /\ txs[x].terms.start \in Months
      BY <1>1, AssignTx, KeyParts DEF Assignment
    <2>2. QED
      BY <1>1, <2>1 DEF Committed, Next, Onboard
  <1>2. CASE Open(x, "cancel")
    BY <1>2, CancelTx DEF Committed, Next, Onboard
  <1>3. CASE Open(x, "record")
    BY <1>3, RecordTx DEF Committed, Next, Pay
  <1>4. CASE Open(x, "checkout")
    BY <1>4, CheckoutTx DEF Committed, Next, Pay
  <1>5. CASE Open(x, "generate")
    BY <1>5, GenerateTx DEF Committed, InsertMonthlyBills, Next, Billing
  <1>6. QED
    BY <1>1, <1>2, <1>3, <1>4, <1>5, OpenKind

\* A rollback leaves the tables alone.
LEMMA RollbackStep == ASSUME NEW x \in Txs, Rollback(x) PROVE UNCHANGED vars
  BY DEF Rollback, End, vars

LEMMA SingleIsNext == ASSUME Single PROVE Next
  BY DEF Single, Next, Billing

LEMMA ExecuteOpen == ASSUME NEW x \in Txs, Execute(x) PROVE txs[x] # Absent
  <1>1. Label(x) # "none"
    BY DEF Execute, LockRoom, LockTenant, CountLive, InsertAssignment, InsertBill, UpdateRoom,
           UpdateTenant, LockAssignment, UpdateAssignment, CancelBills, LockBill, InsertPayment,
           InsertCheckout, UpdateBill, TenantKey, RoomKey, AssignmentKey, Commit, Lock, Write, Statement
  <1>2. QED
    BY <1>1 DEF Label

\* The ways a step can go.
LEMMA Steps ==
    ASSUME TxInv, [TxNext]_allVars
    PROVE  \/ UNCHANGED allVars
           \/ Single
           \/ \E x \in Txs : \/ Request(x)
                             \/ txs[x] # Absent /\ Moves(x)
                             \/ Rollback(x)
                             \/ txs[x] # Absent /\ Label(x) = "Commit" /\ Commit(x)
  <1>1. CASE UNCHANGED allVars
    BY <1>1
  <1>2. CASE Single
    BY <1>2
  <1>3. ASSUME NEW x \in Txs, Execute(x)
        PROVE  \/ (txs[x] # Absent /\ Moves(x)) \/ Rollback(x)
               \/ (txs[x] # Absent /\ Label(x) = "Commit" /\ Commit(x))
    <2>1. txs[x] # Absent
      BY <1>3, ExecuteOpen
    <2>2. QED
      BY <1>3, <2>1, ExecuteCases DEF TxInv
  <1>4. ASSUME NEW x \in Txs, Lose(x) \/ BreakDeadlock(x) PROVE Rollback(x)
    BY <1>4 DEF Lose, BreakDeadlock
  <1>5. QED
    BY <1>1, <1>2, <1>3, <1>4 DEF TxNext

\* Refinement, one step: whatever the connections do, the tables change as Tenancy's do.
LEMMA StepRefines == ASSUME TxInv, [TxNext]_allVars PROVE [Next]_vars
  <1>1. CASE UNCHANGED allVars
    BY <1>1 DEF allVars
  <1>2. CASE Single
    BY <1>2, SingleIsNext
  <1>3. ASSUME NEW x \in Txs, Request(x) PROVE UNCHANGED vars
    BY <1>3 DEF Request, BeginAssign, BeginCancel, BeginRecord, BeginCheckout, BeginGenerate, Begin
  <1>4. ASSUME NEW x \in Txs, Moves(x) PROVE UNCHANGED vars
    BY <1>4 DEF Moves, Ran
  <1>5. ASSUME NEW x \in Txs, Rollback(x) PROVE UNCHANGED vars
    BY <1>5, RollbackStep
  <1>6. ASSUME NEW x \in Txs, txs[x] # Absent, Commit(x) PROVE Next
    BY <1>6, CommitIsAtomic, CommittedIsNext DEF TxInv
  <1>7. QED
    BY <1>1, <1>2, <1>3, <1>4, <1>5, <1>6, Steps

-----------------------------------------------------------------------------
(* A commit writes only what its transaction owns *)

\* x owns, in L, the rows that a step changes, the room and the tenant of a lease that it
\* adds, the numbers of the bills it adds, and the pending lease of which it adds or ends one.
Covered(x, L) ==
    /\ \A r \in Rooms : rooms'[r] # rooms[r] => Owns(L, x, RoomRow(r))
    /\ \A t \in Tenants : tenants'[t] # tenants[t] => Owns(L, x, TenantRow(t))
    /\ \A a \in Assignments : assignments[a] # Absent /\ assignments'[a] # assignments[a] =>
          Owns(L, x, AssignmentRow(a))
    /\ \A b \in BillKeys :
          /\ bills[b] # Absent
          /\ bills'[b] # bills[b] \/ payments'[b] # payments[b] \/ checkouts'[b] # checkouts[b]
          => Owns(L, x, BillRow(b))
    /\ \A a \in Assignments : assignments[a] = Absent /\ assignments'[a] # Absent =>
          Owns(L, x, RoomRow(assignments'[a].room)) /\ Owns(L, x, TenantRow(assignments'[a].tenant))
    /\ \A b \in BillKeys : bills[b] = Absent /\ bills'[b] # Absent =>
          Owns(L, x, NumberEntry(bills'[b].owner, b))
    /\ \A b \in BillKeys :
          /\ ~(ToCollect(b)' <=> ToCollect(b))
          /\ assignments[b[1]] # Absent /\ assignments[b[1]].status = "pending_payment"
          => Owns(L, x, AssignmentRow(b[1]))

LEMMA UpdatesOne ==
    ASSUME Base, NEW o, NEW r, NEW t, NEW s
    PROVE  /\ UpdateRoomStatus(o, r, s) => \A i \in Rooms \ {r} : rooms'[i] = rooms[i]
           /\ UpdateTenantStatus(o, t, s) => \A i \in Tenants \ {t} : tenants'[i] = tenants[i]
  BY DEF UpdateRoomStatus, UpdateTenantStatus, Base, TypeOK

LEMMA AssignCovered ==
    ASSUME Base, Connections, NEW x \in Txs, Open(x, "assign"), Commit(x),
           AssignAt(x, txs[x], writes[x], locks)
    PROVE  Covered(x, locks)
  <1> DEFINE o == txs[x].owner
             b == txs[x].bill
             a == txs[x].bill[1]
             row == txs[x].terms
             r == txs[x].terms.room
             t == txs[x].terms.tenant
  <1>1. /\ o \in Owners /\ b \in BillKeys /\ row \in Assignment /\ txs[x].pc = 8
        /\ a \in Assignments /\ row.start \in Months /\ b = <<a, b[2]>>
        /\ r \in Rooms /\ t \in Tenants /\ row.rent \in Rents /\ row.dueDay \in DueDays
    BY AssignTx, AssignLabels, KeyParts DEF Commit, Open, Assignment, BillKeys
  <1>2. /\ Holds(locks, x, RoomRow(r), "update") /\ Holds(locks, x, TenantRow(t), "update")
        /\ Holds(locks, x, NumberEntry(o, b), "update")
        /\ row.owner = o /\ b[2] = row.start /\ assignments[a] = Absent
    BY <1>1 DEF AssignAt
  <1>3. AssignRoom(o, a, r, t, row.rent, row.dueDay, row.start)
    BY AssignCommits
  <1>4. Assigned(a, row.start) /\ b = <<a, row.start>>
    BY <1>1, <1>2, <1>3, AssignShape
  <1>5. /\ \A i \in Rooms \ {r} : rooms'[i] = rooms[i]
        /\ \A i \in Tenants \ {t} : tenants'[i] = tenants[i]
        /\ assignments'[a].room = r /\ assignments'[a].tenant = t /\ assignments'[a].owner = o
        /\ payments' = payments /\ checkouts' = checkouts
    <2>1. UpdateRoomStatus(o, r, "reserved") /\ UpdateTenantStatus(o, t, "pending_payment")
      BY <1>3 DEF AssignRoom
    <2>2. DOMAIN assignments = Assignments
      BY DEF Base, TypeOK
    <2>3. assignments'[a].room = r /\ assignments'[a].tenant = t /\ assignments'[a].owner = o
      BY <1>1, <1>3, <2>2 DEF AssignRoom
    <2>4. QED
      BY <2>1, <2>3, <1>4, UpdatesOne DEF Assigned
  <1>6. /\ \A i \in Assignments \ {a} : assignments'[i] = assignments[i]
        /\ \A c \in BillKeys \ {b} : bills'[c] = bills[c]
        /\ bills[b] = Absent /\ bills'[b].owner = o
    BY <1>4, <1>5 DEF Assigned, NewBill
  <1>7. /\ \A i \in Rooms : rooms'[i] # rooms[i] => Owns(locks, x, RoomRow(i))
        /\ \A i \in Tenants : tenants'[i] # tenants[i] => Owns(locks, x, TenantRow(i))
        /\ Owns(locks, x, RoomRow(r)) /\ Owns(locks, x, TenantRow(t))
        /\ Owns(locks, x, NumberEntry(o, b))
    BY <1>2, <1>5 DEF Owns
  <1>8. \A c \in BillKeys : assignments[c[1]] # Absent => (ToCollect(c)' <=> ToCollect(c))
    BY <1>2, <1>6 DEF ToCollect
  <1>9. QED
    BY <1>2, <1>5, <1>6, <1>7, <1>8 DEF Covered

LEMMA CancelCovered ==
    ASSUME Base, Connections, NEW x \in Txs, Open(x, "cancel"), Commit(x),
           CancelAt(x, txs[x], writes[x], locks)
    PROVE  Covered(x, locks)
  <1> DEFINE o == txs[x].owner
             a == txs[x].lease
             r == assignments[a].room
             t == assignments[a].tenant
  <1>1. o \in Owners /\ a \in Assignments /\ txs[x].pc = 6
    BY CancelTx, CancelLabels DEF Commit, Open
  <1>2. /\ Holds(locks, x, AssignmentRow(a), "update") /\ Owns(locks, x, RoomRow(r))
        /\ Owns(locks, x, TenantRow(t)) /\ \A b \in BillsToCancel(a) : Owns(locks, x, BillRow(b))
    BY <1>1 DEF CancelAt
  <1>3. CancelOnboarding(o, a)
    BY CancelCommits
  <1>4. Cancelled(a)
    BY <1>1, <1>3, CancelShape
  <1>5. /\ \A i \in Rooms \ {r} : rooms'[i] = rooms[i]
        /\ \A i \in Tenants \ {t} : tenants'[i] = tenants[i]
    BY <1>3, UpdatesOne DEF CancelOnboarding
  <1>6. /\ \A i \in Assignments \ {a} : assignments'[i] = assignments[i]
        /\ assignments[a] # Absent /\ assignments'[a] # Absent
        /\ \A b \in BillKeys : bills'[b] # bills[b] => b \in BillsToCancel(a) /\ b[1] = a /\ bills[b] # Absent
        /\ payments' = payments /\ checkouts' = checkouts
    BY <1>4 DEF Cancelled, BillsToCancel
  <1>7. Owns(locks, x, AssignmentRow(a))
    BY <1>2 DEF Owns
  <1>8. \A b \in BillKeys : b[1] # a => (ToCollect(b)' <=> ToCollect(b))
    BY <1>6 DEF ToCollect
  <1>9. QED
    BY <1>2, <1>5, <1>6, <1>7, <1>8 DEF Covered

LEMMA RecordCovered ==
    ASSUME Base, Connections, NEW x \in Txs, Open(x, "record"), Commit(x),
           RecordAt(x, txs[x], writes[x], locks)
    PROVE  Covered(x, locks)
  <1> DEFINE o == txs[x].owner
             b == txs[x].bill
             a == txs[x].bill[1]
             r == bills[b].room
             t == bills[b].tenant
             activates == assignments[a].status = "pending_payment"
  <1>1. o \in Owners /\ b \in BillKeys /\ txs[x].amount \in Rents /\ txs[x].pc = 10
    BY RecordTx, RecordLabels DEF Commit, Open
  <1>2. Holds(locks, x, BillRow(b), "update") /\ Holds(locks, x, AssignmentRow(a), "update")
    BY <1>1 DEF RecordAt
  <1>3. activates => Owns(locks, x, TenantRow(t)) /\ Owns(locks, x, RoomRow(r))
    BY <1>1 DEF RecordAt
  <1>4. RecordManual(o, b, txs[x].amount)
    BY RecordCommits
  <1>5. Settled(b)
    BY <1>1, <1>4, RecordShape
  <1>6. ActivateTenancy(o, b)
    BY <1>4 DEF RecordManual, SettleInFull
  <1>7. /\ activates => /\ \A i \in Rooms \ {r} : rooms'[i] = rooms[i]
                        /\ \A i \in Tenants \ {t} : tenants'[i] = tenants[i]
        /\ ~activates => rooms' = rooms /\ tenants' = tenants
    <2>1. activates => UpdateRoomStatus(o, r, "occupied") /\ UpdateTenantStatus(o, t, "active")
      BY <1>6 DEF ActivateTenancy
    <2>2. ~activates => rooms' = rooms /\ tenants' = tenants
      BY <1>6 DEF ActivateTenancy, leases
    <2>3. QED
      BY <2>1, <2>2, UpdatesOne
  <1>8. /\ \A i \in Assignments \ {a} : assignments'[i] = assignments[i]
        /\ \A c \in BillKeys \ {b} : bills'[c] = bills[c] /\ payments'[c] = payments[c]
        /\ bills[b] # Absent /\ checkouts' = checkouts
    BY <1>5 DEF Settled
  <1>9. assignments[a] # Absent
    BY <1>1, <1>8 DEF Base, OwnersNeverMix
  <1>10. Owns(locks, x, AssignmentRow(a)) /\ Owns(locks, x, BillRow(b))
    BY <1>2 DEF Owns
  <1>11. \A c \in BillKeys : c # b => (ToCollect(c)' <=> ToCollect(c))
    BY <1>8 DEF ToCollect
  <1>12. QED
    BY <1>3, <1>7, <1>8, <1>9, <1>10, <1>11 DEF Covered

LEMMA CheckoutCovered ==
    ASSUME Base, Connections, NEW x \in Txs, Open(x, "checkout"), Commit(x),
           CheckoutAt(x, txs[x], writes[x], locks)
    PROVE  Covered(x, locks)
  <1> DEFINE b == txs[x].bill
  <1>1. /\ txs[x].owner \in Owners /\ b \in BillKeys /\ txs[x].tenant \in Tenants
        /\ txs[x].pc = 5
    BY CheckoutTx, CheckoutLabels DEF Commit, Open
  <1>2. Owns(locks, x, BillRow(b))
    <2>1. Holds(locks, x, BillRow(b), "update")
      BY <1>1 DEF CheckoutAt
    <2>2. QED
      BY <2>1 DEF Owns
  <1>3. PayBill(txs[x].owner, txs[x].tenant, b)
    BY CheckoutCommits
  <1>4. Opened(b)
    BY <1>1, <1>3, PayBillShape
  <1>5. UNCHANGED <<rooms, tenants, assignments, payments>>
    BY <1>3 DEF PayBill, leases
  <1>6. /\ \A c \in BillKeys \ {b} : bills'[c] = bills[c] /\ checkouts'[c] = checkouts[c]
        /\ bills[b] # Absent
    BY <1>4 DEF Opened
  <1>7. \A c \in BillKeys : ToCollect(c)' <=> ToCollect(c)
    BY <1>4, <1>6 DEF ToCollect, Opened, NeedsCheckout, Collectible
  <1>8. QED
    BY <1>2, <1>5, <1>6, <1>7 DEF Covered

LEMMA GenerateCovered ==
    ASSUME Base, Connections, NEW x \in Txs, Open(x, "generate"), Commit(x),
           GenerateAt(x, txs[x], writes[x], locks)
    PROVE  Covered(x, locks)
  <1> DEFINE o == txs[x].owner
             w == writes[x]
  <1>1. o \in Owners
    BY GenerateTx
  <1>2. InsertMonthlyBills(txs[x].run, txs[x].month)
    BY GenerateCommits
  <1>3. UNCHANGED <<rooms, tenants, assignments, payments, checkouts>>
    BY <1>2 DEF InsertMonthlyBills, leases
  <1>4. /\ bills' = Overlay(bills, w.bills) /\ DOMAIN bills = BillKeys
        /\ txs[x].run \in billRuns /\ txs[x].run.owner = o /\ DOMAIN w.bills \subseteq Month(txs[x])
        /\ \A b \in DOMAIN w.bills : Entered(x, o, b, w.bills, locks)
    BY CommitTables DEF GenerateAt, Base, TypeOK
  <1>5. \A b \in BillKeys : bills'[b] # bills[b] =>
           /\ b \in DOMAIN w.bills /\ bills[b] = Absent
           /\ bills'[b] = NewBill(assignments[b[1]], b[2])
           /\ AssignmentOf(o, b[1]) /\ assignments[b[1]].status = "active"
           /\ Holds(locks, x, NumberEntry(o, b), "update")
    <2> SUFFICES ASSUME NEW b \in BillKeys, bills'[b] # bills[b]
                 PROVE  /\ b \in DOMAIN w.bills /\ bills[b] = Absent
                        /\ bills'[b] = NewBill(assignments[b[1]], b[2])
                        /\ AssignmentOf(o, b[1]) /\ assignments[b[1]].status = "active"
                        /\ Holds(locks, x, NumberEntry(o, b), "update")
      OBVIOUS
    <2>1. b \in DOMAIN w.bills /\ bills'[b] = w.bills[b]
      BY <1>4 DEF Overlay
    <2>2. Entered(x, o, b, w.bills, locks) /\ b[1] \in txs[x].run.seen
      BY <1>4, <2>1 DEF Month
    <2>3. AssignmentOf(o, b[1]) /\ assignments[b[1]].status = "active"
      BY <1>1, <1>4, <2>2 DEF Base, MonthlyRunStaysValid
    <2>4. QED
      BY <2>1, <2>2, <2>3 DEF Entered
  <1>6. \A b \in BillKeys : bills'[b] # bills[b] =>
           bills[b] = Absent /\ Owns(locks, x, NumberEntry(bills'[b].owner, b))
    <2>1. \A b \in BillKeys : bills'[b] # bills[b] => bills'[b].owner = o
      <3>1. SUFFICES ASSUME NEW b \in BillKeys, bills'[b] # bills[b] PROVE bills'[b].owner = o
        OBVIOUS
      <3>2. bills'[b] = NewBill(assignments[b[1]], b[2]) /\ AssignmentOf(o, b[1])
        BY <1>5, <3>1
      <3>3. QED
        BY <3>2 DEF NewBill, AssignmentOf
    <2>2. QED
      BY <1>5, <2>1 DEF Owns
  <1>7. \A b \in BillKeys : assignments[b[1]].status = "pending_payment" =>
           (ToCollect(b)' <=> ToCollect(b))
    BY <1>5 DEF ToCollect
  <1>8. QED
    BY <1>3, <1>6, <1>7 DEF Covered

LEMMA CommitCovered ==
    ASSUME Base, Connections, NEW x \in Txs, txs[x] # Absent, Progress(x), Commit(x)
    PROVE  Covered(x, locks)
  <1>1. ProgressAt(x, txs[x], writes[x], locks)
    BY DEF Progress
  <1>2. QED
    BY <1>1, OpenKind, AssignCovered, CancelCovered, RecordCovered, CheckoutCovered, GenerateCovered
       DEF ProgressAt, Open

-----------------------------------------------------------------------------
(* ... so it disturbs no other transaction, and neither does anything else *)

LEMMA OwnersExclude ==
    ASSUME LocksExclude, NEW x, NEW y, x # y, NEW row, Owns(locks, x, row)
    PROVE  ~Owns(locks, y, row)
  BY DEF Owns, Holds, LocksExclude, Blocks, Conflicts

LEMMA CoveredSpares ==
    ASSUME LocksExclude, NEW x, NEW y, x # y, Covered(x, locks)
    PROVE  SameRows(y, locks) /\ NoIntrusion(y, locks)
  <1>1. \A row : Owns(locks, x, row) => ~Owns(locks, y, row)
    BY OwnersExclude
  <1>2. SameRows(y, locks)
    BY <1>1 DEF Covered, SameRows
  <1>3. NoIntrusion(y, locks)
    BY <1>1 DEF Covered, NoIntrusion
  <1>4. QED
    BY <1>2, <1>3

LEMMA UnchangedSpares ==
    ASSUME UNCHANGED <<leases, money>>, NEW y, NEW L
    PROVE  SameRows(y, L) /\ NoIntrusion(y, L)
  BY DEF leases, money, SameRows, NoIntrusion, ToCollect

LEMMA OwnedIsNotFree ==
    ASSUME NEW y, NEW row, Owns(locks, y, row)
    PROVE  ~Free(row)
  BY DEF Owns, Holds, Free, Conflicts

LEMMA SingleEffect ==
    ASSUME Base, Single
    PROVE  /\ UNCHANGED <<assignments, payments, checkouts, txs, locks, writes>>
           /\ UpdatesWait
           /\ \A b \in BillKeys : /\ bills[b] = Absent => bills'[b] = Absent
                                  /\ ToCollect(b)' <=> ToCollect(b)
  <1>1. UpdatesWait /\ UNCHANGED <<txs, locks, writes>>
    BY DEF Single, txVars
  <1>2. CASE Manage
    BY <1>1, <1>2 DEF Manage, ManageRooms, ManageTenants, CreateRoom, PatchRoom, CheckRoomDelete,
       SoftDeleteRoom, CreateTenant, PatchTenant, DeleteTenant, leases, money, ToCollect
  <1>3. ASSUME NEW o \in Owners, MarkOverdue(o)
        PROVE  /\ UNCHANGED <<assignments, payments, checkouts>>
               /\ \A b \in BillKeys : /\ bills[b] = Absent => bills'[b] = Absent
                                      /\ ToCollect(b)' <=> ToCollect(b)
    <2>1. \A b \in BillKeys :
             \/ bills'[b] = bills[b]
             \/ /\ bills[b] # Absent /\ bills[b].status = "unpaid" /\ bills'[b].status = "overdue"
                /\ bills'[b] # Absent
      <3>1. SUFFICES ASSUME NEW b \in BillKeys, bills'[b] # bills[b]
                     PROVE  /\ bills[b] # Absent /\ bills[b].status = "unpaid"
                            /\ bills'[b].status = "overdue" /\ bills'[b] # Absent
        OBVIOUS
      <3>2. /\ BillOf(o, b) /\ PastDue(b)
            /\ bills'[b] = [bills[b] EXCEPT !.status = "overdue"]
        BY <1>3, <3>1 DEF MarkOverdue
      <3>3. bills[b] \in Bill
        BY <3>2 DEF Base, TypeOK, BillOf
      <3>4. bills'[b] \in Bill /\ bills'[b].status = "overdue"
        BY <3>2, <3>3 DEF Bill, BillStatus
      <3>5. QED
        BY <3>2, <3>4, AbsentAssumption DEF BillOf, PastDue
    <2>2. UNCHANGED <<assignments, payments, checkouts>>
      BY <1>3 DEF MarkOverdue, leases
    <2>3. QED
      BY <2>1, <2>2 DEF ToCollect, Collectible
  <1>4. ASSUME NEW o \in Owners, ReadActiveAssignments(o)
        PROVE  UNCHANGED <<leases, money>>
    BY <1>4 DEF ReadActiveAssignments
  <1>6. CASE Tick
    BY <1>1, <1>6 DEF Tick, leases, money, ToCollect
  <1>7. UNCHANGED <<leases, money>> =>
           /\ UNCHANGED <<assignments, payments, checkouts>>
           /\ \A b \in BillKeys : /\ bills[b] = Absent => bills'[b] = Absent
                                  /\ ToCollect(b)' <=> ToCollect(b)
    BY DEF leases, money, ToCollect
  <1>8. QED
    BY <1>1, <1>2, <1>3, <1>4, <1>6, <1>7 DEF Single

LEMMA SingleSpares ==
    ASSUME Base, Single, NEW y
    PROVE  SameRows(y, locks) /\ NoIntrusion(y, locks)
  <1>1. SameRows(y, locks)
    <2>1. \A row : Owns(locks, y, row) => ~Free(row)
      BY OwnedIsNotFree
    <2>2. UpdatesWait /\ UNCHANGED <<assignments, payments, checkouts>>
      BY SingleEffect
    <2>3. QED
      BY <2>1, <2>2 DEF SameRows, UpdatesWait
  <1>2. NoIntrusion(y, locks)
    BY SingleEffect DEF NoIntrusion
  <1>3. QED
    BY <1>1, <1>2

\* What is so of the request of y itself.
LEMMA SingleUndisturbed ==
    ASSUME TxInv, Single, NEW y \in Txs, txs[y] # Absent
    PROVE  Undisturbed(y, txs[y], locks, locks')
  <1>1. ProgressAt(y, txs[y], writes[y], locks)
    BY DEF TxInv, Progress
  <1>2. KeepsLocks(y, locks, locks') /\ SameRows(y, locks) /\ NoIntrusion(y, locks)
    BY SingleEffect, SingleSpares DEF TxInv, KeepsLocks
  <1>3. txs[y].kind = "assign" => assignments'[txs[y].bill[1]] = Absent
    BY <1>1, SingleEffect DEF TxInv, ProgressAt, AssignAt
  <1>4. txs[y].kind = "checkout" => today' = today
    <2>1. CASE \A z \in Txs : ~Open(z, "checkout")
      BY <2>1 DEF Open
    <2>2. CASE ~\A z \in Txs : ~Open(z, "checkout")
      BY <2>2 DEF Single, Manage, ManageRooms, ManageTenants, CreateRoom, PatchRoom, CheckRoomDelete,
         SoftDeleteRoom, CreateTenant, PatchTenant, DeleteTenant, ReadActiveAssignments, MarkOverdue
    <2>3. QED
      BY <2>1, <2>2
  <1>5. billRuns \subseteq billRuns'
    BY DEF Single, Manage, ManageRooms, ManageTenants, CreateRoom, PatchRoom, CheckRoomDelete,
       SoftDeleteRoom, CreateTenant, PatchTenant, DeleteTenant, ReadActiveAssignments, MarkOverdue, Tick
  <1>6. QED
    BY <1>2, <1>3, <1>4, <1>5 DEF Undisturbed

\* The end of x, as the others see it.
LEMMA EndOthers ==
    ASSUME Connections, NEW x \in Txs, End(x), NEW y \in Txs, y # x
    PROVE  /\ txs'[y] = txs[y] /\ writes'[y] = writes[y] /\ today' = today /\ billRuns' = billRuns
           /\ KeepsLocks(y, locks, locks')
  BY DEF End, Connections, KeepsLocks, Holds

LEMMA RollbackUndisturbed ==
    ASSUME TxInv, NEW x \in Txs, Rollback(x), NEW y \in Txs, y # x, txs[y] # Absent
    PROVE  Undisturbed(y, txs[y], locks, locks')
  <1>1. End(x) /\ UNCHANGED <<leases, money>> /\ Connections
    BY DEF Rollback, TxInv
  <1>2. ProgressAt(y, txs[y], writes[y], locks)
    BY DEF TxInv, Progress
  <1>3. KeepsLocks(y, locks, locks') /\ SameRows(y, locks) /\ NoIntrusion(y, locks) /\ today' = today
        /\ billRuns' = billRuns
    BY <1>1, EndOthers, UnchangedSpares
  <1>4. txs[y].kind = "assign" => assignments'[txs[y].bill[1]] = Absent
    BY <1>1, <1>2 DEF leases, ProgressAt, AssignAt
  <1>5. QED
    BY <1>3, <1>4 DEF Undisturbed

\* Only an onboarding adds a lease, the one its request names.
LEMMA CommitAdds ==
    ASSUME Base, Connections, NEW x \in Txs, txs[x] # Absent, Progress(x), Commit(x),
           NEW a \in Assignments, assignments[a] = Absent, assignments'[a] # Absent
    PROVE  Open(x, "assign") /\ txs[x].bill[1] = a
  <1>1. Committed(x)
    BY CommitIsAtomic
  <1>2. CASE Open(x, "assign")
    <2>1. assignments' = [assignments EXCEPT ![txs[x].bill[1]] =
             [owner |-> txs[x].owner, room |-> txs[x].terms.room, tenant |-> txs[x].terms.tenant,
              rent |-> txs[x].terms.rent, dueDay |-> txs[x].terms.dueDay,
              start |-> txs[x].terms.start, status |-> "pending_payment"]]
      BY <1>1, <1>2 DEF Committed, AssignRoom
    <2>2. QED
      BY <1>2, <2>1 DEF Base, TypeOK
  <1>3. CASE Open(x, "cancel")
    BY <1>1, <1>3, CancelTx, CancelShape DEF Committed, Cancelled
  <1>4. CASE Open(x, "record")
    <2>1. Settled(txs[x].bill)
      BY <1>1, <1>4, RecordTx, RecordShape DEF Committed
    <2>2. assignments[txs[x].bill[1]] # Absent
      BY <1>4, <2>1, RecordTx DEF Settled, Base, OwnersNeverMix
    <2>3. QED
      BY <2>1, <2>2 DEF Settled
  <1>5. CASE Open(x, "checkout")
    BY <1>1, <1>5 DEF Committed, PayBill, leases
  <1>6. CASE Open(x, "generate")
    BY <1>1, <1>6 DEF Committed, InsertMonthlyBills, leases
  <1>7. QED
    BY <1>2, <1>3, <1>4, <1>5, <1>6, OpenKind

LEMMA CommitUndisturbed ==
    ASSUME TxInv, NEW x \in Txs, txs[x] # Absent, Commit(x), NEW y \in Txs, y # x, txs[y] # Absent
    PROVE  Undisturbed(y, txs[y], locks, locks')
  <1>1. /\ Base /\ Connections /\ LocksExclude /\ Progress(x) /\ End(x)
        /\ ProgressAt(y, txs[y], writes[y], locks)
    BY CommitTables DEF TxInv, Progress
  <1>2. KeepsLocks(y, locks, locks') /\ today' = today /\ billRuns' = billRuns
    BY <1>1, EndOthers
  <1>3. SameRows(y, locks) /\ NoIntrusion(y, locks)
    BY <1>1, CommitCovered, CoveredSpares
  <1>4. txs[y].kind = "assign" => assignments'[txs[y].bill[1]] = Absent
    <2>1. SUFFICES ASSUME txs[y].kind = "assign", assignments'[txs[y].bill[1]] # Absent PROVE FALSE
      OBVIOUS
    <2>2. Open(y, "assign") /\ txs[y].bill[1] \in Assignments
      BY <1>1, <2>1, AssignTx, KeyParts DEF Open
    <2>3. assignments[txs[y].bill[1]] = Absent
      BY <1>1, <2>1 DEF ProgressAt, AssignAt
    <2>4. Open(x, "assign") /\ txs[x].bill[1] = txs[y].bill[1]
      BY <1>1, <2>1, <2>2, <2>3, CommitAdds
    <2>5. QED
      BY <2>2, <2>4 DEF TxInv, Apart
  <1>5. QED
    BY <1>2, <1>3, <1>4 DEF Undisturbed

-----------------------------------------------------------------------------
(* The invariant holds in every reachable state *)

LEMMA OthersProgress ==
    ASSUME TxInv, Base', AllKept, NEW y \in Txs, txs[y] # Absent, txs'[y] = txs[y],
           writes'[y] = writes[y], Undisturbed(y, txs[y], locks, locks')
    PROVE  Progress(y)'
  <1>1. ProgressAt(y, txs[y], writes[y], locks) /\ txs[y] \in Tx /\ Base
    BY DEF TxInv, Progress, Connections
  <1>2. ProgressAt(y, txs[y], writes[y], locks)'
    <2> DEFINE tx == txs[y]
               w == writes[y]
    <2>1. \A t \in Tx : \A v, L, new : ProgressAt(y, t, v, L) /\ Undisturbed(y, t, L, new)
                                      => ProgressAt(y, t, v, new)'
      BY <1>1, ProgressStays
    <2>2. QED
      BY <1>1, <2>1
  <1>3. QED
    BY <1>2 DEF Progress

\* The statement of x that has run is one more behind it.
LEMMA MoverProgress ==
    ASSUME TxInv, Base', AllKept, NEW x \in Txs, Moves(x)
    PROVE  Progress(x)'
  <1>1. /\ ProgressAt(x, txs'[x], writes'[x], locks') /\ txs'[x] \in Tx /\ Base
        /\ UNCHANGED vars
    BY DEF TxInv, Moves, Ran
  <1>2. Undisturbed(x, txs'[x], locks', locks')
    <2>1. UNCHANGED <<leases, money>> /\ assignments' = assignments /\ today' = today /\ billRuns' = billRuns
      BY <1>1, VarsUnchanged DEF vars, leases
    <2>2. SameRows(x, locks') /\ NoIntrusion(x, locks') /\ KeepsLocks(x, locks', locks')
      BY <2>1, UnchangedSpares DEF KeepsLocks
    <2>3. txs'[x].kind = "assign" => assignments'[txs'[x].bill[1]] = Absent
      BY <1>1, <2>1 DEF ProgressAt, AssignAt
    <2>4. QED
      BY <2>1, <2>2, <2>3 DEF Undisturbed
  <1>3. \A t \in Tx : \A v, L, new : ProgressAt(x, t, v, L) /\ Undisturbed(x, t, L, new)
                                    => ProgressAt(x, t, v, new)'
    BY <1>1, ProgressStays
  <1>4. ProgressAt(x, txs[x], writes[x], locks)'
    BY <1>1, <1>2, <1>3
  <1>5. QED
    BY <1>4 DEF Progress

LEMMA ConflictsSymmetric == ASSUME NEW m, NEW n PROVE Conflicts(m, n) <=> Conflicts(n, m)
  BY DEF Conflicts

LEMMA MovesInv ==
    ASSUME TxInv, Base', AllKept, NEW x \in Txs, txs[x] # Absent, Moves(x)
    PROVE  TxInv'
  <1>1. /\ Granted(x) /\ locks' = locks \cup Wants(x) /\ Wants(x) \subseteq RowLock
        /\ txs' = [txs EXCEPT ![x] = txs'[x]] /\ writes' = [writes EXCEPT ![x] = writes'[x]]
        /\ UNCHANGED vars
        /\ txs'[x] \in Tx /\ DOMAIN writes'[x] = DOMAIN NoWrites
        /\ txs'[x].kind = txs[x].kind /\ txs'[x].owner = txs[x].owner
        /\ Open(x, "assign") => txs'[x].bill = txs[x].bill
    BY DEF Moves, Ran
  <1>2. Connections /\ LocksExclude /\ Apart
    BY DEF TxInv
  <1>3. txs'[x] # Absent /\ \A l \in Wants(x) : l.tx = x
    BY <1>1, NoTxAssumption DEF Wants
  <1>4. \A y \in Txs \ {x} : txs'[y] = txs[y] /\ writes'[y] = writes[y]
    BY <1>1, <1>2 DEF Connections
  <1>5. Connections'
    <2>1. txs' \in [Txs -> Tx \cup {Absent}] /\ DOMAIN writes' = Txs
      BY <1>1, <1>2 DEF Connections
    <2>2. locks' \subseteq RowLock
      BY <1>1, <1>2 DEF Connections
    <2>3. \A l \in locks' : txs'[l.tx] # Absent
      BY <1>1, <1>2, <1>3, <1>4 DEF Connections, RowLock
    <2>4. \A y \in Txs : /\ DOMAIN writes'[y] = DOMAIN NoWrites
                         /\ txs'[y] = Absent => writes'[y] = NoWrites
      BY <1>1, <1>2, <1>3, <1>4 DEF Connections
    <2>5. QED
      BY <2>1, <2>2, <2>3, <2>4 DEF Connections
  <1>6. LocksExclude'
    <2>1. \A l, k \in locks' : ~Blocks(l, k)
      <3>1. SUFFICES ASSUME NEW l \in locks', NEW k \in locks' PROVE ~Blocks(l, k)
        OBVIOUS
      <3>2. CASE l \in locks /\ k \in locks
        BY <1>2, <3>2 DEF LocksExclude
      <3>3. CASE l \in locks /\ k \in Wants(x)
        BY <1>1, <3>3 DEF Granted
      <3>4. CASE l \in Wants(x) /\ k \in locks
        BY <1>1, <3>4, ConflictsSymmetric DEF Granted, Blocks
      <3>5. CASE l \in Wants(x) /\ k \in Wants(x)
        BY <1>3, <3>5 DEF Blocks
      <3>6. QED
        BY <1>1, <3>2, <3>3, <3>4, <3>5
    <2>2. QED
      BY <2>1 DEF LocksExclude, Blocks, Conflicts
  <1>7. Apart'
    BY <1>1, <1>2, <1>4 DEF Apart, Open
  <1>8. ASSUME NEW y \in Txs PROVE Progress(y)'
    <2>1. CASE y = x
      BY <2>1, MoverProgress
    <2>2. CASE y # x /\ txs[y] # Absent
      <3>1. UNCHANGED <<leases, money>> /\ assignments' = assignments /\ today' = today /\ billRuns' = billRuns
        BY <1>1, VarsUnchanged DEF vars, leases
      <3>2. SameRows(y, locks) /\ NoIntrusion(y, locks) /\ KeepsLocks(y, locks, locks')
        BY <1>1, <3>1, UnchangedSpares DEF KeepsLocks, Holds
      <3>3. txs[y].kind = "assign" => assignments'[txs[y].bill[1]] = Absent
        BY <2>2, <3>1 DEF TxInv, Progress, ProgressAt, AssignAt
      <3>4. Undisturbed(y, txs[y], locks, locks')
        BY <3>1, <3>2, <3>3 DEF Undisturbed
      <3>5. QED
        BY <1>4, <2>2, <3>4, OthersProgress
    <2>3. CASE y # x /\ txs[y] = Absent
      BY <1>4, <2>3 DEF Progress
    <2>4. QED
      BY <2>1, <2>2, <2>3
  <1>9. QED
    BY <1>5, <1>6, <1>7, <1>8 DEF TxInv

\* A transaction that ends, in either way, takes its locks along.
LEMMA EndInv ==
    ASSUME TxInv, Base', AllKept, NEW x \in Txs, End(x),
           \A y \in Txs : y # x /\ txs[y] # Absent => Undisturbed(y, txs[y], locks, locks')
    PROVE  TxInv'
  <1>1. /\ Connections /\ LocksExclude /\ Apart
        /\ txs' = [txs EXCEPT ![x] = Absent] /\ writes' = [writes EXCEPT ![x] = NoWrites]
        /\ locks' = {l \in locks : l.tx # x}
    BY DEF TxInv, End
  <1>2. \A y \in Txs \ {x} : txs'[y] = txs[y] /\ writes'[y] = writes[y]
    BY <1>1 DEF Connections
  <1>3. txs'[x] = Absent /\ writes'[x] = NoWrites
    BY <1>1 DEF Connections
  <1>4. Connections'
    BY <1>1, <1>2, <1>3 DEF Connections, RowLock
  <1>5. LocksExclude'
    BY <1>1 DEF LocksExclude, Blocks, Conflicts
  <1>6. Apart'
    BY <1>1, <1>2, <1>3 DEF Apart, Open
  <1>7. ASSUME NEW y \in Txs PROVE Progress(y)'
    <2>1. CASE y = x
      BY <1>3, <2>1 DEF Progress
    <2>2. CASE y # x /\ txs[y] # Absent
      BY <1>2, <2>2, OthersProgress
    <2>3. CASE y # x /\ txs[y] = Absent
      BY <1>2, <2>3 DEF Progress
    <2>4. QED
      BY <2>1, <2>2, <2>3
  <1>8. QED
    BY <1>4, <1>5, <1>6, <1>7 DEF TxInv

LEMMA SingleInv ==
    ASSUME TxInv, Base', AllKept, Single
    PROVE  TxInv'
  <1>1. UNCHANGED <<txs, locks, writes>> /\ Base
    BY SingleEffect DEF TxInv
  <1>2. Connections' /\ LocksExclude' /\ Apart'
    BY <1>1 DEF TxInv, Connections, LocksExclude, Blocks, Conflicts, Apart, Open
  <1>3. ASSUME NEW y \in Txs PROVE Progress(y)'
    <2>1. CASE txs[y] # Absent
      BY <1>1, <2>1, SingleUndisturbed, OthersProgress
    <2>2. CASE txs[y] = Absent
      BY <1>1, <2>2 DEF Progress
    <2>3. QED
      BY <2>1, <2>2
  <1>4. QED
    BY <1>2, <1>3 DEF TxInv

\* A request, as far as the proofs look at it.
Requests(x, tx) ==
    /\ tx \in Tx /\ Begin(x, tx)
    /\ tx.kind = "assign" => \A y \in Txs : Open(y, "assign") => txs[y].bill[1] # tx.bill[1]
    /\ ProgressAt(x, tx, NoWrites, locks)

LEMMA AssignRequests ==
    ASSUME NEW x \in Txs, NEW o \in Owners, NEW a \in Assignments, NEW r \in Rooms, NEW t \in Tenants,
           NEW rent \in Rents, NEW d \in DueDays, NEW m \in Months,
           BeginAssign(x, [owner |-> o, room |-> r, tenant |-> t, rent |-> rent,
                           dueDay |-> d, start |-> m, status |-> "pending_payment"], a)
    PROVE  \E tx : Requests(x, tx)
  <1> DEFINE row == [owner |-> o, room |-> r, tenant |-> t, rent |-> rent,
                     dueDay |-> d, start |-> m, status |-> "pending_payment"]
             tx == [kind |-> "assign", owner |-> o, bill |-> <<a, m>>, terms |-> row, pc |-> 1]
  <1>1. /\ assignments[a] = Absent /\ \A y \in Txs : Open(y, "assign") => txs[y].bill[1] # a
        /\ Begin(x, tx)
    BY DEF BeginAssign
  <1>2. row \in Assignment /\ <<a, m>> \in BillKeys
    BY DEF Assignment, BillKeys, AssignmentStatus
  <1>3. tx \in Tx
    BY <1>2 DEF Tx
  <1>4. AssignAt(x, tx, NoWrites, locks)
    BY <1>1 DEF AssignAt, WroteAt, NoWrites
  <1>5. Requests(x, tx)
    BY <1>1, <1>3, <1>4 DEF Requests, ProgressAt
  <1>6. QED
    BY <1>5

LEMMA CancelRequests ==
    ASSUME NEW x \in Txs, NEW o \in Owners, NEW a \in Assignments, BeginCancel(x, o, a)
    PROVE  \E tx : Requests(x, tx)
  <1> DEFINE tx == [kind |-> "cancel", owner |-> o, lease |-> a, pc |-> 1]
  <1>1. AssignmentOf(o, a) /\ Begin(x, tx) /\ tx \in Tx
    BY DEF BeginCancel, Tx
  <1>2. CancelAt(x, tx, NoWrites, locks)
    BY <1>1 DEF CancelAt, WroteAt, NoWrites
  <1>3. Requests(x, tx)
    BY <1>1, <1>2 DEF Requests, ProgressAt
  <1>4. QED
    BY <1>3

LEMMA RecordRequests ==
    ASSUME NEW x \in Txs, NEW o \in Owners, NEW b \in BillKeys, NEW amount \in Rents,
           BeginRecord(x, o, b, amount)
    PROVE  \E tx : Requests(x, tx)
  <1> DEFINE tx == [kind |-> "record", owner |-> o, bill |-> b, amount |-> amount, pc |-> 1]
  <1>1. BillOf(o, b) /\ Begin(x, tx) /\ tx \in Tx
    BY DEF BeginRecord, Tx
  <1>2. RecordAt(x, tx, NoWrites, locks)
    BY <1>1 DEF RecordAt, WroteAt, NoWrites
  <1>3. Requests(x, tx)
    BY <1>1, <1>2 DEF Requests, ProgressAt
  <1>4. QED
    BY <1>3

LEMMA CheckoutRequests ==
    ASSUME NEW x \in Txs, NEW o \in Owners, NEW b \in BillKeys, NEW t \in Tenants,
           BeginCheckout(x, o, t, b)
    PROVE  \E tx : Requests(x, tx)
  <1> DEFINE tx == [kind |-> "checkout", owner |-> o, tenant |-> t, bill |-> b, pc |-> 1]
  <1>1. TenantBillOf(o, t, b) /\ Begin(x, tx) /\ tx \in Tx
    BY DEF BeginCheckout, Tx
  <1>2. CheckoutAt(x, tx, NoWrites, locks)
    BY <1>1 DEF CheckoutAt, WroteAt, NoWrites
  <1>3. Requests(x, tx)
    BY <1>1, <1>2 DEF Requests, ProgressAt
  <1>4. QED
    BY <1>3

LEMMA GenerateRequests ==
    ASSUME Base, NEW x \in Txs, NEW run \in BillRun, NEW m \in Months, NEW n \in Nat \ {0},
           NEW todo \in [1 .. n -> BillKeys], BeginGenerate(x, run, m, todo)
    PROVE  \E tx : Requests(x, tx)
  <1> DEFINE tx == [kind |-> "generate", owner |-> run.owner, run |-> run, month |-> m,
                    todo |-> todo, pc |-> 1]
  <1>1. /\ run \in billRuns
        /\ \A b \in BillKeys : b \in Month(tx) <=> Listed(b, todo)
        /\ \A i, j \in DOMAIN todo : i < j => Older(todo[i], todo[j])
        /\ Begin(x, tx)
    BY DEF BeginGenerate, Month, Listed, Older
  <1>2. todo \in Seq(BillKeys) /\ todo # <<>>
    OBVIOUS
  <1>3. run.owner \in Owners /\ run.seen \subseteq Assignments
    BY DEF BillRun
  <1>4. tx \in Tx
    BY <1>2, <1>3 DEF Tx
  <1>5. Month(tx) \subseteq BillKeys
    BY <1>3 DEF Month, BillKeys
  <1>6. GenerateAt(x, tx, NoWrites, locks)
    <2>1. /\ DOMAIN NoWrites.bills = {} /\ DOMAIN NoWrites.rooms = {} /\ DOMAIN NoWrites.tenants = {}
          /\ DOMAIN NoWrites.assignments = {} /\ DOMAIN NoWrites.payments = {}
          /\ DOMAIN NoWrites.checkouts = {}
      BY DEF NoWrites
    <2>2. tx.owner = run.owner /\ tx.run = run /\ tx.todo = todo /\ tx.pc = 1
      OBVIOUS
    <2>3. \A b \in Month(tx) : Listed(b, todo)
      BY <1>1, <1>5
    <2> HIDE DEF tx
    <2>4. QED
      BY <1>1, <1>2, <2>1, <2>2, <2>3 DEF GenerateAt
  <1>7. Requests(x, tx)
    BY <1>1, <1>4, <1>6 DEF Requests, ProgressAt
  <1>8. QED
    BY <1>7

LEMMA RequestsShape ==
    ASSUME Base, NEW x \in Txs, Request(x)
    PROVE  \E tx : Requests(x, tx)
  <1>1. ASSUME NEW run \in billRuns, NEW m \in Months, NEW n \in 1 .. Cardinality(run.seen),
               NEW todo \in [1 .. n -> run.seen \X {m}], BeginGenerate(x, run, m, todo)
        PROVE  \E tx : Requests(x, tx)
    <2>1. run \in BillRun
      BY DEF Base, TypeOK
    <2>2. todo \in [1 .. n -> BillKeys]
      BY <2>1 DEF BillRun, BillKeys
    <2>3. CASE n \in Nat \ {0}
      BY <1>1, <2>1, <2>2, <2>3, GenerateRequests
    <2>4. CASE n \notin Nat \ {0}
      BY <1>1, <2>4
    <2>5. QED
      BY <2>3, <2>4
  <1>2. ASSUME NEW o \in Owners, NEW a \in Assignments, NEW r \in Rooms, NEW t \in Tenants,
               NEW rent \in Rents, NEW d \in DueDays, NEW m \in Months,
               BeginAssign(x, [owner |-> o, room |-> r, tenant |-> t, rent |-> rent,
                               dueDay |-> d, start |-> m, status |-> "pending_payment"], a)
        PROVE  \E tx : Requests(x, tx)
    BY <1>2, AssignRequests
  <1>3. ASSUME NEW o \in Owners, NEW a \in Assignments, BeginCancel(x, o, a)
        PROVE  \E tx : Requests(x, tx)
    BY <1>3, CancelRequests
  <1>4. ASSUME NEW o \in Owners, NEW b \in BillKeys, NEW amount \in Rents, BeginRecord(x, o, b, amount)
        PROVE  \E tx : Requests(x, tx)
    BY <1>4, RecordRequests
  <1>5. ASSUME NEW o \in Owners, NEW b \in BillKeys, NEW t \in Tenants, BeginCheckout(x, o, t, b)
        PROVE  \E tx : Requests(x, tx)
    BY <1>5, CheckoutRequests
  <1>6. QED
    BY <1>1, <1>2, <1>3, <1>4, <1>5 DEF Request

LEMMA RequestInv ==
    ASSUME TxInv, Base', AllKept, NEW x \in Txs, Request(x)
    PROVE  TxInv'
  <1>1. PICK tx : Requests(x, tx)
    BY RequestsShape DEF TxInv
  <1>2. /\ Connections /\ LocksExclude /\ Apart /\ Base
        /\ txs[x] = Absent /\ txs' = [txs EXCEPT ![x] = tx] /\ tx \in Tx
        /\ UNCHANGED <<vars, locks, writes>>
    BY <1>1 DEF TxInv, Requests, Begin
  <1>3. /\ txs'[x] = tx /\ writes[x] = NoWrites /\ tx # Absent
        /\ \A y \in Txs \ {x} : txs'[y] = txs[y]
    BY <1>2, NoTxAssumption DEF Connections
  <1>4. Connections'
    BY <1>2, <1>3 DEF Connections, RowLock
  <1>5. LocksExclude'
    BY <1>2 DEF LocksExclude, Blocks, Conflicts
  <1>6. Apart'
    BY <1>1, <1>2, <1>3 DEF Requests, Apart, Open
  <1>7. /\ UNCHANGED <<leases, money>> /\ assignments' = assignments
        /\ today' = today /\ billRuns' = billRuns
    BY <1>2, VarsUnchanged DEF vars, leases
  <1>8. ASSUME NEW y, NEW t, t.kind = "assign" => assignments[t.bill[1]] = Absent
        PROVE  Undisturbed(y, t, locks, locks')
    <2>1. SameRows(y, locks) /\ NoIntrusion(y, locks) /\ KeepsLocks(y, locks, locks')
      BY <1>2, <1>7, UnchangedSpares DEF KeepsLocks
    <2>2. QED
      BY <1>7, <1>8, <2>1 DEF Undisturbed
  <1>9. ASSUME NEW y \in Txs PROVE Progress(y)'
    <2>1. CASE y = x
      <3>1. ProgressAt(x, tx, NoWrites, locks)
        BY <1>1 DEF Requests
      <3>2. Undisturbed(x, tx, locks, locks')
        BY <1>8, <3>1 DEF ProgressAt, AssignAt
      <3>3. \A t \in Tx : \A v, L, new : ProgressAt(x, t, v, L) /\ Undisturbed(x, t, L, new)
                                        => ProgressAt(x, t, v, new)'
        BY <1>2, ProgressStays
      <3>4. ProgressAt(x, txs[x], writes[x], locks)'
        BY <1>2, <1>3, <3>1, <3>2, <3>3
      <3>5. QED
        BY <2>1, <3>4 DEF Progress
    <2>2. CASE y # x /\ txs[y] # Absent
      <3>1. Undisturbed(y, txs[y], locks, locks')
        BY <1>8, <2>2 DEF TxInv, Progress, ProgressAt, AssignAt
      <3>2. QED
        BY <1>2, <1>3, <2>2, <3>1, OthersProgress
    <2>3. CASE y # x /\ txs[y] = Absent
      BY <1>3, <2>3 DEF Progress
    <2>4. QED
      BY <2>1, <2>2, <2>3
  <1>10. QED
    BY <1>4, <1>5, <1>6, <1>9 DEF TxInv

LEMMA StepInv == ASSUME TxInv, [TxNext]_allVars PROVE TxInv'
  <1>1. Base /\ [Next]_vars
    BY StepRefines DEF TxInv
  <1>2. AllKept
    BY <1>1, StepKeeps
  <1>3. Base'
    BY <1>1, <1>2, StepTypes, LinksKept, MoneyKept, RunsKept DEF Base
  <1>4. CASE UNCHANGED allVars
    <2>1. UNCHANGED vars /\ UNCHANGED <<txs, locks, writes>> /\ UNCHANGED <<leases, money>>
      BY <1>4 DEF allVars, txVars, vars
    <2>2. Connections' /\ LocksExclude' /\ Apart'
      BY <2>1 DEF TxInv, Connections, LocksExclude, Blocks, Conflicts, Apart, Open
    <2>3. ASSUME NEW y \in Txs PROVE Progress(y)'
      <3>1. CASE txs[y] # Absent
        <4>1. /\ SameRows(y, locks) /\ NoIntrusion(y, locks) /\ KeepsLocks(y, locks, locks')
              /\ assignments' = assignments /\ today' = today /\ billRuns' = billRuns
          BY <2>1, UnchangedSpares, VarsUnchanged DEF KeepsLocks
        <4>2. txs[y].kind = "assign" => assignments'[txs[y].bill[1]] = Absent
          BY <3>1, <4>1 DEF TxInv, Progress, ProgressAt, AssignAt
        <4>3. Undisturbed(y, txs[y], locks, locks')
          BY <4>1, <4>2 DEF Undisturbed
        <4>4. QED
          BY <1>2, <1>3, <2>1, <3>1, <4>3, OthersProgress
      <3>2. CASE txs[y] = Absent
        BY <2>1, <3>2 DEF Progress
      <3>3. QED
        BY <3>1, <3>2
    <2>4. QED
      BY <1>3, <2>2, <2>3 DEF TxInv
  <1>5. CASE Single
    BY <1>2, <1>3, <1>5, SingleInv
  <1>6. ASSUME NEW x \in Txs, Request(x) PROVE TxInv'
    BY <1>2, <1>3, <1>6, RequestInv
  <1>7. ASSUME NEW x \in Txs, txs[x] # Absent, Moves(x) PROVE TxInv'
    BY <1>2, <1>3, <1>7, MovesInv
  <1>8. ASSUME NEW x \in Txs, Rollback(x) PROVE TxInv'
    BY <1>2, <1>3, <1>8, RollbackUndisturbed, EndInv DEF Rollback
  <1>9. ASSUME NEW x \in Txs, txs[x] # Absent, Commit(x) PROVE TxInv'
    BY <1>2, <1>3, <1>9, CommitUndisturbed, EndInv DEF Commit
  <1>10. QED
    BY <1>4, <1>5, <1>6, <1>7, <1>8, <1>9, Steps

LEMMA TxInitInv == TxInit => TxInv
  <1> SUFFICES ASSUME TxInit PROVE TxInv
    OBVIOUS
  <1>1. Base
    BY BoundsAssumption DEF TxInit, Init, Base, TypeOK, OwnersNeverMix, MoneyLinked, MonthlyRunStaysValid
  <1>2. \A x \in Txs : txs[x] = Absent
    BY DEF TxInit
  <1>3. Connections /\ LocksExclude
    BY <1>2 DEF TxInit, Connections, LocksExclude
  <1>4. Apart /\ \A x \in Txs : Progress(x)
    BY <1>2 DEF Apart, Progress, Open
  <1>5. QED
    BY <1>1, <1>3, <1>4 DEF TxInv

\* The inductive invariant: locks exclude each other, and every open transaction is where
\* its program is, with what it has checked still so and exactly the rows of its statements
\* written.
THEOREM TransactionsInvariant == TxSpec => []TxInv
  BY TxInitInv, StepInv, PTL DEF TxSpec

\* Transactions implements Tenancy, for any number of connections: the statements, waits,
\* crashes, deadlocks and rollbacks of all the transactions change the tables only as the
\* one-step operations of Tenancy do.
THEOREM TransactionsAreAtomic == TxSpec => ActsAtomically
  <1>1. TxInit => Init
    BY DEF TxInit
  <1>2. TxInv /\ [TxNext]_allVars => [Next]_vars
    BY StepRefines
  <1>3. QED
    BY <1>1, <1>2, TransactionsInvariant, PTL DEF TxSpec, Spec, ActsAtomically

\* What is true of Tenancy is so of the tables that the transactions change: one lease per
\* room and tenant, one payment per bill, one open checkout, nothing owed on a cancelled
\* lease, no row that joins two owners, and what is settled never changes.
THEOREM SafetyOfTransactions ==
    TxSpec => /\ [](/\ RoomAndTenantExclusive /\ FirstPaymentGatesTenancy /\ PaidOnceInFull
                    /\ CancelledOwesNothing /\ OneOpenCheckout
                    /\ OwnersNeverMix /\ OverdueOnlyWhenLate /\ ActiveTenantHasTenancy)
              /\ HistoryIsFinal /\ RoomFollowsTenancy
  <1>1. TxSpec => Spec
    BY TransactionsAreAtomic DEF ActsAtomically
  <1>2. Spec => []RoomAndTenantExclusive /\ []FirstPaymentGatesTenancy /\ []PaidOnceInFull
    BY ExclusiveTenancy, FirstPaymentGates, PaidOnce
  <1>3. Spec => []CancelledOwesNothing
    BY CancelledOwes
  <1>4. Spec => RoomFollowsTenancy
    BY RoomsFollow
  <1>5. Spec => []OneOpenCheckout
    BY OneCheckout
  <1>6. Spec => []OwnersNeverMix /\ []OverdueOnlyWhenLate /\ []ActiveTenantHasTenancy
    BY OwnerIsolation, OverdueIsLate, ActiveTenantTenancy
  <1>7. Spec => HistoryIsFinal
    BY FinalHistory
  <1>8. QED
    BY <1>1, <1>2, <1>3, <1>4, <1>5, <1>6, <1>7, PTL

-----------------------------------------------------------------------------
(* Types *)

LEMMA WroteVersions ==
    ASSUME NEW S, NEW T, NEW f, NEW n, NEW pc, NEW k, NEW v, WroteAt(f, n, pc, k, v),
           pc > n => k \in S /\ v \in T
    PROVE  Versions(f, S, T)
  BY DEF WroteAt, Wrote, Versions

LEMMA NoVersions ==
    ASSUME NEW S, NEW T, NEW f, DOMAIN f = {}
    PROVE  Versions(f, S, T)
  BY DEF Versions

\* The new version of a row differs in its status alone.
LEMMA StatusTypes ==
    ASSUME TypeOK
    PROVE  /\ \A r \in Rooms, s \in RoomStatus : rooms[r] # Absent => SetStatus(rooms[r], s) \in Room
           /\ \A t \in Tenants, s \in TenantStatus :
                tenants[t] # Absent => SetStatus(tenants[t], s) \in Tenant
           /\ \A a \in Assignments, s \in AssignmentStatus :
                assignments[a] # Absent => SetStatus(assignments[a], s) \in Assignment
           /\ \A b \in BillKeys, s \in BillStatus : bills[b] # Absent => SetStatus(bills[b], s) \in Bill
  BY RowTypes DEF SetStatus, Room, Tenant, Assignment, Bill

\* The writes of a transaction are rows of the schema.
WriteTypes(w) ==
    /\ Versions(w.rooms, Rooms, Room) /\ Versions(w.tenants, Tenants, Tenant)
    /\ Versions(w.assignments, Assignments, Assignment) /\ Versions(w.bills, BillKeys, Bill)
    /\ Versions(w.payments, BillKeys, Seq(Payment)) /\ Versions(w.checkouts, BillKeys, Seq(Checkout))

LEMMA AssignWriteTypes ==
    ASSUME Base, NEW x, NEW tx \in Tx, tx.kind = "assign", NEW w, NEW L, AssignAt(x, tx, w, L)
    PROVE  WriteTypes(w)
  <1> DEFINE b == tx.bill
             r == tx.terms.room
             t == tx.terms.tenant
  <1>1. /\ b \in BillKeys /\ tx.terms \in Assignment /\ tx.pc \in 1 .. 8
        /\ b[1] \in Assignments /\ b[2] \in Months /\ r \in Rooms /\ t \in Tenants
    BY KeyParts DEF Tx, Assignment
  <1>2. /\ WroteAt(w.assignments, 4, tx.pc, b[1], tx.terms)
        /\ WroteAt(w.bills, 5, tx.pc, b, NewBill(tx.terms, b[2]))
        /\ WroteAt(w.rooms, 6, tx.pc, r, SetStatus(rooms[r], "reserved"))
        /\ WroteAt(w.tenants, 7, tx.pc, t, SetStatus(tenants[t], "pending_payment"))
        /\ DOMAIN w.payments = {} /\ DOMAIN w.checkouts = {}
    BY DEF AssignAt
  <1>3. /\ tx.pc > 1 => rooms[r] # Absent
        /\ tx.pc > 2 => tenants[t] # Absent
    BY DEF AssignAt, RoomVisible, TenantVisible
  <1>4. /\ tx.pc > 6 => SetStatus(rooms[r], "reserved") \in Room
        /\ tx.pc > 7 => SetStatus(tenants[t], "pending_payment") \in Tenant
        /\ NewBill(tx.terms, b[2]) \in Bill
    BY <1>1, <1>3, StatusTypes, NewBillType DEF Base, RoomStatus, TenantStatus
  <1>5. Versions(w.assignments, Assignments, Assignment) /\ Versions(w.bills, BillKeys, Bill)
    BY <1>1, <1>2, <1>4, WroteVersions
  <1>6. Versions(w.rooms, Rooms, Room) /\ Versions(w.tenants, Tenants, Tenant)
    BY <1>1, <1>2, <1>4, WroteVersions
  <1>7. QED
    BY <1>2, <1>5, <1>6, NoVersions DEF WriteTypes

LEMMA CancelWriteTypes ==
    ASSUME Base, NEW x, NEW tx \in Tx, tx.kind = "cancel", NEW w, NEW L, CancelAt(x, tx, w, L)
    PROVE  WriteTypes(w)
  <1> DEFINE a == tx.lease
             r == assignments[a].room
             t == assignments[a].tenant
  <1>1. a \in Assignments /\ tx.pc \in 1 .. 6 /\ assignments[a] # Absent
    BY DEF Tx, CancelAt, AssignmentOf
  <1>2. r \in Rooms /\ t \in Tenants
    BY <1>1, RowTypes DEF Base, Assignment
  <1>3. /\ WroteAt(w.assignments, 2, tx.pc, a, SetStatus(assignments[a], "cancelled"))
        /\ WroteAt(w.rooms, 4, tx.pc, r, SetStatus(rooms[r], "available"))
        /\ WroteAt(w.tenants, 5, tx.pc, t, SetStatus(tenants[t], "pending_payment"))
        /\ DOMAIN w.payments = {} /\ DOMAIN w.checkouts = {}
        /\ DOMAIN w.bills = IF tx.pc > 3 THEN BillsToCancel(a) ELSE {}
        /\ \A b \in DOMAIN w.bills : w.bills[b] = SetStatus(bills[b], "cancelled")
    BY DEF CancelAt
  <1>4. /\ tx.pc > 4 => rooms[r] # Absent
        /\ tx.pc > 5 => tenants[t] # Absent
    BY DEF CancelAt, RoomVisible, TenantVisible
  <1>5. /\ tx.pc > 4 => SetStatus(rooms[r], "available") \in Room
        /\ tx.pc > 5 => SetStatus(tenants[t], "pending_payment") \in Tenant
        /\ SetStatus(assignments[a], "cancelled") \in Assignment
    BY <1>1, <1>2, <1>4, StatusTypes DEF Base, RoomStatus, TenantStatus, AssignmentStatus
  <1>6. Versions(w.bills, BillKeys, Bill)
    BY <1>3, StatusTypes DEF Versions, BillsToCancel, Base, BillStatus
  <1>7. /\ Versions(w.rooms, Rooms, Room) /\ Versions(w.tenants, Tenants, Tenant)
        /\ Versions(w.assignments, Assignments, Assignment)
    BY <1>1, <1>2, <1>3, <1>5, WroteVersions
  <1>8. QED
    BY <1>3, <1>6, <1>7, NoVersions DEF WriteTypes

LEMMA RecordWriteTypes ==
    ASSUME Base, NEW x, NEW tx \in Tx, tx.kind = "record", NEW w, NEW L, RecordAt(x, tx, w, L)
    PROVE  WriteTypes(w)
  <1> DEFINE b == tx.bill
             a == tx.bill[1]
             r == bills[b].room
             t == bills[b].tenant
             activates == assignments[a].status = "pending_payment"
  <1>1. /\ b \in BillKeys /\ a \in Assignments /\ tx.pc \in 1 .. 10 /\ tx.amount \in Rents
        /\ bills[b] # Absent
    BY KeyParts DEF Tx, RecordAt, BillOf
  <1>2. /\ bills[b] \in Bill /\ r \in Rooms /\ t \in Tenants /\ assignments[a] # Absent
        /\ payments[b] \in Seq(Payment) /\ PaymentFor(bills[b], tx.amount) \in Payment
    BY <1>1, RowTypes DEF Base, Bill, OwnersNeverMix, TypeOK, PaymentFor, Payment
  <1>3. /\ WroteAt(w.payments, 2, tx.pc, b, WithPayment(b, tx.amount))
        /\ WroteAt(w.bills, 5, tx.pc, b, SetStatus(bills[b], "paid"))
        /\ IF activates
           THEN /\ WroteAt(w.assignments, 7, tx.pc, a, SetStatus(assignments[a], "active"))
                /\ WroteAt(w.tenants, 8, tx.pc, t, SetStatus(tenants[t], "active"))
                /\ WroteAt(w.rooms, 9, tx.pc, r, SetStatus(rooms[r], "occupied"))
           ELSE DOMAIN w.assignments = {} /\ DOMAIN w.tenants = {} /\ DOMAIN w.rooms = {}
        /\ DOMAIN w.checkouts = {}
    BY DEF RecordAt
  <1>4. /\ tx.pc > 8 /\ activates => tenants[t] # Absent
        /\ tx.pc > 9 /\ activates => rooms[r] # Absent
    BY DEF RecordAt, RoomVisible, TenantVisible
  <1>5. /\ tx.pc > 8 /\ activates => SetStatus(tenants[t], "active") \in Tenant
        /\ tx.pc > 9 /\ activates => SetStatus(rooms[r], "occupied") \in Room
        /\ SetStatus(assignments[a], "active") \in Assignment
        /\ SetStatus(bills[b], "paid") \in Bill
    BY <1>1, <1>2, <1>4, StatusTypes DEF Base, RoomStatus, TenantStatus, AssignmentStatus, BillStatus
  <1>6. WithPayment(b, tx.amount) \in Seq(Payment)
    BY <1>2 DEF WithPayment
  <1>7. Versions(w.payments, BillKeys, Seq(Payment)) /\ Versions(w.bills, BillKeys, Bill)
    BY <1>1, <1>3, <1>5, <1>6, WroteVersions
  <1>8. /\ Versions(w.rooms, Rooms, Room) /\ Versions(w.tenants, Tenants, Tenant)
        /\ Versions(w.assignments, Assignments, Assignment)
    <2>1. CASE activates
      BY <1>1, <1>2, <1>3, <1>5, <2>1, WroteVersions
    <2>2. CASE ~activates
      BY <1>3, <2>2, NoVersions
    <2>3. QED
      BY <2>1, <2>2
  <1>9. QED
    BY <1>3, <1>7, <1>8, NoVersions DEF WriteTypes

LEMMA CheckoutWriteTypes ==
    ASSUME Base, NEW x, NEW tx \in Tx, tx.kind = "checkout", NEW w, NEW L, CheckoutAt(x, tx, w, L)
    PROVE  WriteTypes(w)
  <1> DEFINE b == tx.bill
  <1>1. b \in BillKeys /\ tx.pc \in 1 .. 5 /\ tx.owner \in Owners /\ bills[b] # Absent
    BY DEF Tx, CheckoutAt, TenantBillOf, BillOf
  <1>2. /\ bills[b] \in Bill /\ checkouts[b] \in Seq(Checkout) /\ today \in Nat
        /\ SetStatus(bills[b], "gateway_pending") \in Bill
    BY <1>1, RowTypes, StatusTypes DEF Base, TypeOK, BillStatus
  <1>3. NewCheckout(tx.owner, bills[b]) \in Checkout
    BY <1>1, <1>2, BoundsAssumption DEF NewCheckout, Checkout, Bill
  <1>4. WithCheckout(tx.owner, b) \in Seq(Checkout)
    BY <1>2, <1>3 DEF WithCheckout
  <1>5. /\ WroteAt(w.checkouts, 2, tx.pc, b, WithCheckout(tx.owner, b))
        /\ WroteAt(w.bills, 4, tx.pc, b, SetStatus(bills[b], "gateway_pending"))
        /\ DOMAIN w.rooms = {} /\ DOMAIN w.tenants = {}
        /\ DOMAIN w.assignments = {} /\ DOMAIN w.payments = {}
    BY DEF CheckoutAt
  <1>6. Versions(w.checkouts, BillKeys, Seq(Checkout)) /\ Versions(w.bills, BillKeys, Bill)
    BY <1>1, <1>2, <1>4, <1>5, WroteVersions
  <1>7. QED
    BY <1>5, <1>6, NoVersions DEF WriteTypes

LEMMA GenerateWriteTypes ==
    ASSUME Base, NEW x, NEW tx \in Tx, tx.kind = "generate", NEW w, NEW L, GenerateAt(x, tx, w, L)
    PROVE  WriteTypes(w)
  <1> DEFINE o == tx.owner
  <1>1. o \in Owners /\ tx.month \in Months
    BY DEF Tx
  <1>2. /\ tx.run \in billRuns /\ tx.run.owner = o /\ DOMAIN w.bills \subseteq Month(tx)
        /\ \A b \in DOMAIN w.bills : Entered(x, o, b, w.bills, L)
        /\ DOMAIN w.rooms = {} /\ DOMAIN w.tenants = {} /\ DOMAIN w.assignments = {}
        /\ DOMAIN w.payments = {} /\ DOMAIN w.checkouts = {}
    BY DEF GenerateAt
  <1>3. Month(tx) \subseteq BillKeys
    BY <1>1, <1>2 DEF Month, Base, TypeOK, BillRun, BillKeys
  <1>4. ASSUME NEW b \in DOMAIN w.bills PROVE w.bills[b] \in Bill
    <2>1. b \in BillKeys /\ b[1] \in tx.run.seen /\ b[1] \in Assignments /\ b[2] \in Months
      BY <1>2, <1>3, KeyParts DEF Month
    <2>2. assignments[b[1]] \in Assignment
      BY <1>1, <1>2, <2>1, RowTypes DEF Base, MonthlyRunStaysValid, AssignmentOf
    <2>3. w.bills[b] = NewBill(assignments[b[1]], b[2])
      BY <1>2 DEF Entered
    <2>4. QED
      BY <2>1, <2>2, <2>3, NewBillType
  <1>5. Versions(w.bills, BillKeys, Bill)
    BY <1>2, <1>3, <1>4 DEF Versions
  <1>6. QED
    BY <1>2, <1>5, NoVersions DEF WriteTypes

\* Programs, locks and writes keep their types: no transaction runs past its end, holds a
\* lock after it, or is about to commit a row that the schema does not know.
THEOREM TransactionTypes == TxSpec => []TxTypeOK
  <1>1. ASSUME TxInv PROVE TxTypeOK
    <2>1. TypeOK /\ Connections
      BY <1>1 DEF TxInv, Base
    <2>2. ASSUME NEW x \in Txs PROVE WriteTypes(writes[x])
      <3>1. CASE txs[x] = Absent
        <4>1. writes[x] = NoWrites
          BY <2>1, <3>1 DEF Connections
        <4>2. QED
          BY <4>1 DEF WriteTypes, Versions, NoWrites
      <3>2. CASE txs[x] # Absent
        <4>1. ProgressAt(x, txs[x], writes[x], locks) /\ txs[x] \in Tx /\ Base
          BY <1>1, <3>2 DEF TxInv, Progress, Connections
        <4>2. txs[x].kind \in {"assign", "cancel", "record", "checkout", "generate"}
          BY <4>1 DEF Tx
        <4>3. QED
          BY <4>1, <4>2, AssignWriteTypes, CancelWriteTypes, RecordWriteTypes, CheckoutWriteTypes,
             GenerateWriteTypes DEF ProgressAt
      <3>3. QED
        BY <3>1, <3>2
    <2>3. QED
      BY <2>1, <2>2 DEF TxTypeOK, Connections, WriteTypes
  <1>2. QED
    BY <1>1, TransactionsInvariant, PTL

-----------------------------------------------------------------------------
(* What was checked stays true *)

\* Which statements are the checks.
LEMMA CheckLabels ==
    /\ \A i \in 1 .. 7 : /\ Program["assign"][i] = "LockRoom" => i = 1
                         /\ Program["assign"][i] = "LockTenant" => i = 2
                         /\ Program["assign"][i] = "CountLive" => i = 3
    /\ \A i \in 1 .. 5 : Program["cancel"][i] = "LockAssignment" => i = 1
    /\ \A i \in 1 .. 9 : Program["record"][i] = "LockBill" => i = 1
    /\ \A i \in 1 .. 4 : Program["checkout"][i] = "LockBill" => i = 1
  <1>1. \A i \in 1 .. 7 : i = 1 \/ i = 2 \/ i = 3 \/ i = 4 \/ i = 5 \/ i = 6 \/ i = 7
    OBVIOUS
  <1>2. \A i \in 1 .. 9 : i = 1 \/ i = 2 \/ i = 3 \/ i = 4 \/ i = 5 \/ i = 6 \/ i = 7 \/ i = 8 \/ i = 9
    OBVIOUS
  <1>3. \A i \in 1 .. 5 : i = 1 \/ i = 2 \/ i = 3 \/ i = 4 \/ i = 5
    OBVIOUS
  <1>4. QED
    BY <1>1, <1>2, <1>3 DEF Program

LEMMA ChecksHold ==
    ASSUME TxInv, PaidOnceInFull, CheckoutMovesBill
    PROVE  CheckedStaysTrue
  <1> SUFFICES ASSUME NEW x \in Txs, txs[x] # Absent
               PROVE  LET past(label) == \E i \in 1 .. txs[x].pc - 1 :
                                            Program[txs[x].kind][i] = label
                          o == txs[x].owner
                      IN
                      CASE Open(x, "assign") ->
                              /\ past("LockRoom") =>
                                    RoomVisible(o, txs[x].terms.room)
                                    /\ rooms[txs[x].terms.room].status = "available"
                              /\ past("LockTenant") => TenantVisible(o, txs[x].terms.tenant)
                              /\ past("CountLive") =>
                                    \A a \in LiveAssignments :
                                       /\ assignments[a].room # txs[x].terms.room
                                       /\ assignments[a].tenant # txs[x].terms.tenant
                        [] Open(x, "cancel") ->
                              past("LockAssignment") =>
                                 assignments[txs[x].lease].status = "pending_payment"
                        [] Open(x, "record") ->
                              past("LockBill") => /\ bills[txs[x].bill].status \in Collectible
                                                  /\ payments[txs[x].bill] = <<>>
                        [] Open(x, "checkout") ->
                              past("LockBill") => /\ bills[txs[x].bill].status \in Collectible
                                                  /\ LiveCheckouts(txs[x].bill) = {}
                        [] OTHER -> TRUE
    BY DEF CheckedStaysTrue
  <1> DEFINE pc == txs[x].pc
             past(label) == \E i \in 1 .. pc - 1 : Program[txs[x].kind][i] = label
             o == txs[x].owner
             b == txs[x].bill
             RoomChecked   == past("LockRoom") => /\ RoomVisible(o, txs[x].terms.room)
                                                  /\ rooms[txs[x].terms.room].status = "available"
             TenantChecked == past("LockTenant") => TenantVisible(o, txs[x].terms.tenant)
             NoneLive      == past("CountLive") =>
                                 \A a \in LiveAssignments :
                                    /\ assignments[a].room # txs[x].terms.room
                                    /\ assignments[a].tenant # txs[x].terms.tenant
             Pending       == past("LockAssignment") =>
                                 assignments[txs[x].lease].status = "pending_payment"
             Unpaid        == past("LockBill") => /\ bills[b].status \in Collectible
                                                  /\ payments[b] = <<>>
             NoneOpen      == past("LockBill") => /\ bills[b].status \in Collectible
                                                  /\ LiveCheckouts(b) = {}
  <1> SUFFICES CASE Open(x, "assign")   -> RoomChecked /\ TenantChecked /\ NoneLive
                 [] Open(x, "cancel")   -> Pending
                 [] Open(x, "record")   -> Unpaid
                 [] Open(x, "checkout") -> NoneOpen
                 [] OTHER               -> TRUE
    OBVIOUS
  <1>1. /\ Connections /\ Base /\ ProgressAt(x, txs[x], writes[x], locks)
    BY DEF TxInv, Progress
  <1>2. ASSUME Open(x, "assign") PROVE RoomChecked /\ TenantChecked /\ NoneLive
    <2>1. pc \in 1 .. 8 /\ txs[x].kind = "assign"
      BY <1>1, <1>2, AssignTx
    <2>2. /\ past("LockRoom") => pc > 1
          /\ past("LockTenant") => pc > 2
          /\ past("CountLive") => pc > 3
      BY <2>1, CheckLabels
    <2>3. AssignAt(x, txs[x], writes[x], locks)
      BY <1>1, <2>1 DEF ProgressAt
    <2>4. /\ past("LockRoom") => /\ RoomVisible(o, txs[x].terms.room)
                                 /\ rooms[txs[x].terms.room].status = "available"
          /\ past("LockTenant") => TenantVisible(o, txs[x].terms.tenant)
          /\ past("CountLive") => /\ LiveInRoom(txs[x].terms.room) = {}
                                  /\ LiveForTenant(txs[x].terms.tenant) = {}
      BY <2>2, <2>3 DEF AssignAt
    <2>5. past("CountLive") => \A a \in LiveAssignments :
                                  /\ assignments[a].room # txs[x].terms.room
                                  /\ assignments[a].tenant # txs[x].terms.tenant
      BY <2>4 DEF LiveInRoom, LiveForTenant
    <2>6. QED
      BY <2>4, <2>5
  <1>3. ASSUME Open(x, "cancel") PROVE Pending
    <2>1. pc \in 1 .. 6 /\ txs[x].kind = "cancel"
      BY <1>1, <1>3, CancelTx
    <2>2. past("LockAssignment") => pc > 1
      BY <2>1, CheckLabels
    <2>3. CancelAt(x, txs[x], writes[x], locks)
      BY <1>1, <2>1 DEF ProgressAt
    <2>4. past("LockAssignment") => assignments[txs[x].lease].status = "pending_payment"
      BY <2>2, <2>3 DEF CancelAt
    <2>5. QED
      BY <2>4
  <1>4. ASSUME Open(x, "record") PROVE Unpaid
    <2>1. pc \in 1 .. 10 /\ txs[x].kind = "record" /\ b \in BillKeys
      BY <1>1, <1>4, RecordTx
    <2>2. past("LockBill") => pc > 1
      BY <2>1, CheckLabels
    <2>3. RecordAt(x, txs[x], writes[x], locks)
      BY <1>1, <2>1 DEF ProgressAt
    <2>4. past("LockBill") => Payable(o, b, txs[x].amount)
      BY <2>2, <2>3 DEF RecordAt
    <2>5. past("LockBill") => bills[b] # Absent /\ bills[b].status \in Collectible
      BY <1>1, <2>1, <2>4, RowTypes DEF Base, Payable, BillOf, Bill, BillStatus, Collectible
    <2>6. past("LockBill") => payments[b] = <<>>
      BY <2>1, <2>5 DEF PaidOnceInFull, Collectible
    <2>7. QED
      BY <2>5, <2>6
  <1>5. ASSUME Open(x, "checkout") PROVE NoneOpen
    <2>1. pc \in 1 .. 5 /\ txs[x].kind = "checkout" /\ b \in BillKeys
      BY <1>1, <1>5, CheckoutTx
    <2>2. past("LockBill") => pc > 1
      BY <2>1, CheckLabels
    <2>3. CheckoutAt(x, txs[x], writes[x], locks)
      BY <1>1, <2>1 DEF ProgressAt
    <2>4. past("LockBill") => NeedsCheckout(b)
      BY <2>2, <2>3 DEF CheckoutAt
    <2>5. past("LockBill") => bills[b].status \in Collectible
      BY <2>4 DEF NeedsCheckout, Collectible
    <2>6. past("LockBill") => LiveCheckouts(b) = {}
      <3>1. bills[b].status \in {"unpaid", "overdue"} => checkouts[b] = <<>>
        BY <2>1 DEF CheckoutMovesBill
      <3>2. checkouts[b] = <<>> => LiveCheckouts(b) = {}
        BY DEF LiveCheckouts
      <3>3. QED
        BY <2>4, <3>1, <3>2 DEF NeedsCheckout
    <2>7. QED
      BY <2>5, <2>6
  <1>6. \A k1, k2 : Open(x, k1) /\ Open(x, k2) => k1 = k2
    BY DEF Open
  <1> HIDE DEF RoomChecked, TenantChecked, NoneLive, Pending, Unpaid, NoneOpen
  <1>7. QED
    BY <1>2, <1>3, <1>4, <1>5, <1>6

\* Check then act: what a transaction has read under its locks (the room free, the lease
\* pending, the bill unpaid, no checkout open) is still so when it commits, whatever any
\* number of other connections commit in the meantime.
THEOREM ChecksStayTrue == TxSpec => []CheckedStaysTrue
  <1>1. TxSpec => Spec
    BY TransactionsAreAtomic DEF ActsAtomically
  <1>2. Spec => []CheckoutMovesBill
    BY CheckoutMoves
  <1>3. QED
    BY <1>1, <1>2, ChecksHold, TransactionsInvariant, SafetyOfTransactions, PTL

-----------------------------------------------------------------------------
(* Deadlocks.  A payment, a checkout or a run waits only for those of them   *)
(* that are further on in the order of MoneyRank, and an onboarding, a       *)
(* cancellation or a checkout for those further on in the order of LeaseRank:*)
(* within either group waits climb, and a circle of waits is not closed.     *)
(* Two monthly runs have the same rank.  A run waits for another at a bill   *)
(* that this one has entered and left behind, so at an older lease than the  *)
(* one at which the other waits in its turn.                                 *)

KeyShare == "key share"

\* The transaction tx is past the statement that took this lock.
Behind(tx, row, mode) ==
    LET table == row[1]  pc == tx.pc IN
    /\ tx.kind = "assign"   => \/ table = "rooms" /\ pc > 1
                               \/ table = "tenants" /\ pc > 2
                               \/ table = "bill_number" /\ pc > 5
    /\ tx.kind = "cancel"   => \/ table = "assignments" /\ pc > 1
                               \/ table = "bills" /\ pc > 3
                               \/ table = "rooms" /\ pc > 4
                               \/ table = "tenants" /\ pc > 5
    /\ tx.kind = "record"   => \/ table = "bills" /\ pc > 1
                               \/ table \in {"tenants", "rooms"} /\ mode = KeyShare
                               \/ table = "assignments" /\ pc > 6
                               \/ table = "tenants" /\ mode # "update" /\ pc > 8
                               \/ table = "rooms" /\ mode # "update" /\ pc > 9
    /\ tx.kind = "checkout" => \/ table = "bills" /\ pc > 1
                               \/ table = "tenants" /\ mode = KeyShare /\ pc > 3
    /\ tx.kind = "generate" => \/ table = "bill_number" /\ row[2][1] = tx.owner
                               \/ table \in {"tenants", "rooms", "assignments"} /\ mode = KeyShare
LocksBehind == \A l \in locks : Behind(txs[l.tx], l.row, l.mode)

\* The transaction tx is at a statement that takes this lock.
AtLock(tx, row, mode) ==
    LET table == row[1]  pc == tx.pc IN
    /\ tx.kind = "assign"   => \/ table = "rooms" /\ pc \in {1, 6}
                               \/ table = "tenants" /\ pc \in {2, 7}
                               \/ table = "bill_number" /\ pc = 5
    /\ tx.kind = "cancel"   => \/ table = "assignments" /\ pc \in {1, 2}
                               \/ table = "bills" /\ pc = 3
                               \/ table = "rooms" /\ pc = 4
                               \/ table = "tenants" /\ pc = 5
    /\ tx.kind = "record"   => \/ table = "bills" /\ pc \in {1, 5}
                               \/ table \in {"tenants", "rooms"} /\ mode = KeyShare /\ pc \in {3, 4}
                               \/ table = "assignments" /\ pc \in {6, 7}
                               \/ table = "tenants" /\ mode # "update" /\ pc = 8
                               \/ table = "rooms" /\ mode # "update" /\ pc = 9
    /\ tx.kind = "checkout" => \/ table = "bills" /\ pc \in {1, 4}
                               \/ table = "tenants" /\ mode = KeyShare /\ pc = 3
    /\ tx.kind = "generate" => \/ table = "bill_number" /\ row[2][1] = tx.owner
                               \/ table \in {"tenants", "rooms", "assignments"} /\ mode = KeyShare

LEMMA KeyModes ==
    /\ LockMode["TenantKey"] = KeyShare /\ LockMode["RoomKey"] = KeyShare
    /\ LockMode["AssignmentKey"] = KeyShare
    /\ LockMode["UpdateTenant"] # "update" /\ LockMode["UpdateRoom"] # "update"
    /\ KeyShare # "update"
    /\ \A m : Conflicts(m, KeyShare) \/ Conflicts(KeyShare, m) => m = "update"
  BY LockModes DEF KeyShare, Conflicts

LEMMA TargetTables ==
    ASSUME NEW x \in Txs, NEW w \in Wants(x)
    PROVE  /\ w.tx = x /\ w.mode = LockMode[Label(x)] /\ Found(x)
           /\ Label(x) \in {"LockRoom", "UpdateRoom", "RoomKey"} => w.row[1] = "rooms"
           /\ Label(x) \in {"LockTenant", "UpdateTenant", "TenantKey"} => w.row[1] = "tenants"
           /\ Label(x) \in {"LockAssignment", "UpdateAssignment", "AssignmentKey"} =>
                 w.row[1] = "assignments"
           /\ Label(x) \in {"LockBill", "UpdateBill", "CancelBills"} => w.row[1] = "bills"
           /\ Label(x) \in {"InsertBill", "InsertMonthly"} =>
                 w.row[1] = "bill_number" /\ w.row[2][1] = txs[x].owner
           /\ Label(x) \notin {"CountLive", "InsertAssignment", "InsertPayment", "InsertCheckout",
                               "Commit"}
  <1>1. w.tx = x /\ w.mode = LockMode[Label(x)] /\ w.row \in Target(x) /\ Found(x)
    BY DEF Wants
  <1>2. /\ Label(x) \in {"LockRoom", "UpdateRoom", "RoomKey"} => w.row[1] = "rooms"
        /\ Label(x) \in {"LockTenant", "UpdateTenant", "TenantKey"} => w.row[1] = "tenants"
        /\ Label(x) \in {"LockAssignment", "UpdateAssignment", "AssignmentKey"} =>
              w.row[1] = "assignments"
    BY <1>1 DEF Target, RoomRow, TenantRow, AssignmentRow
  <1>3. /\ Label(x) \in {"LockBill", "UpdateBill", "CancelBills"} => w.row[1] = "bills"
        /\ Label(x) \in {"InsertBill", "InsertMonthly"} =>
              w.row[1] = "bill_number" /\ w.row[2][1] = txs[x].owner
    BY <1>1 DEF Target, BillRow, NumberEntry
  <1>4. Label(x) \notin {"CountLive", "InsertAssignment", "InsertPayment", "InsertCheckout", "Commit"}
    BY <1>1, WantsNone
  <1>5. QED
    BY <1>1, <1>2, <1>3, <1>4

LEMMA WantsAtLock ==
    ASSUME Connections, NEW x \in Txs, txs[x] # Absent, NEW w \in Wants(x)
    PROVE  AtLock(txs[x], w.row, w.mode)
  <1> DEFINE table == w.row[1]
             pc    == txs[x].pc
  <1>1. CASE Open(x, "assign")
    <2>1. pc \in 1 .. 8 /\ txs[x].kind = "assign"
      BY <1>1, AssignTx
    <2>2. /\ pc \in {1, 6} => table = "rooms"
          /\ pc \in {2, 7} => table = "tenants"
          /\ pc = 5 => table = "bill_number"
          /\ pc \notin {3, 4, 8}
      BY <1>1, TargetTables, AssignLabels
    <2>3. QED
      BY <2>1, <2>2 DEF AtLock
  <1>2. CASE Open(x, "cancel")
    <2>1. pc \in 1 .. 6 /\ txs[x].kind = "cancel"
      BY <1>2, CancelTx
    <2>2. /\ pc \in {1, 2} => table = "assignments"
          /\ pc = 3 => table = "bills"
          /\ pc = 4 => table = "rooms"
          /\ pc = 5 => table = "tenants"
          /\ pc # 6
      BY <1>2, TargetTables, CancelLabels
    <2>3. QED
      BY <2>1, <2>2 DEF AtLock
  <1>3. CASE Open(x, "record")
    <2>1. pc \in 1 .. 10 /\ txs[x].kind = "record"
      BY <1>3, RecordTx
    <2>2. /\ pc \in {1, 5} => table = "bills"
          /\ pc = 3 => table = "tenants" /\ w.mode = KeyShare
          /\ pc = 4 => table = "rooms" /\ w.mode = KeyShare
          /\ pc \notin {2, 10}
      BY <1>3, TargetTables, RecordLabels, KeyModes
    <2>3. /\ pc \in {6, 7} => table = "assignments"
          /\ pc = 8 => table = "tenants" /\ w.mode # "update"
          /\ pc = 9 => table = "rooms" /\ w.mode # "update"
      BY <1>3, TargetTables, RecordLabels, KeyModes
    <2>4. QED
      BY <2>1, <2>2, <2>3 DEF AtLock
  <1>4. CASE Open(x, "checkout")
    <2>1. pc \in 1 .. 5 /\ txs[x].kind = "checkout"
      BY <1>4, CheckoutTx
    <2>2. /\ pc \in {1, 4} => table = "bills"
          /\ pc = 3 => table = "tenants" /\ w.mode = KeyShare
          /\ pc \notin {2, 5}
      BY <1>4, TargetTables, CheckoutLabels, KeyModes
    <2>3. QED
      BY <2>1, <2>2 DEF AtLock
  <1>5. CASE Open(x, "generate")
    <2>1. pc \in 1 .. 5 /\ txs[x].kind = "generate"
      BY <1>5, GenerateTx
    <2>2. /\ pc = 1 => table = "bill_number" /\ w.row[2][1] = txs[x].owner
          /\ pc = 2 => table = "tenants" /\ w.mode = KeyShare
          /\ pc = 3 => table = "rooms" /\ w.mode = KeyShare
          /\ pc = 4 => table = "assignments" /\ w.mode = KeyShare
          /\ pc # 5
      BY <1>5, TargetTables, GenerateLabels, KeyModes
    <2>3. QED
      BY <2>1, <2>2 DEF AtLock
  <1>6. QED
    BY <1>1, <1>2, <1>3, <1>4, <1>5, OpenKind

LEMMA LockPassed ==
    ASSUME NEW tx, NEW next, NEW row, NEW mode, AtLock(tx, row, mode),
           next.kind = tx.kind, next.owner = tx.owner,
           tx.kind # "generate" => tx.pc \in Int /\ next.pc \in Int /\ next.pc > tx.pc
    PROVE  Behind(next, row, mode)
  BY DEF AtLock, Behind

LEMMA MovesBehind ==
    ASSUME TxInv, LocksBehind, NEW x \in Txs, txs[x] # Absent, Moves(x)
    PROVE  LocksBehind'
  <1>1. /\ locks' = locks \cup Wants(x) /\ txs' = [txs EXCEPT ![x] = txs'[x]]
        /\ txs'[x].kind = txs[x].kind /\ txs'[x].owner = txs[x].owner
        /\ ~Open(x, "generate") => txs'[x].pc > txs[x].pc
        /\ txs[x] \in Tx /\ txs'[x] \in Tx /\ Connections
    BY DEF Moves, Ran, TxInv, Connections
  <1>2. txs[x].pc \in Int /\ txs'[x].pc \in Int
    BY <1>1 DEF Tx
  <1>3. ASSUME NEW row, NEW mode, Behind(txs[x], row, mode)
        PROVE  Behind(txs'[x], row, mode)
    BY <1>1, <1>2, <1>3 DEF Behind, Open
  <1>4. ASSUME NEW l \in locks PROVE Behind(txs'[l.tx], l.row, l.mode)
    <2>1. l.tx \in Txs /\ Behind(txs[l.tx], l.row, l.mode)
      BY <1>1 DEF Connections, RowLock, LocksBehind
    <2>2. CASE l.tx = x
      BY <1>3, <2>1, <2>2
    <2>3. CASE l.tx # x
      <3>1. txs'[l.tx] = txs[l.tx]
        BY <1>1, <2>1, <2>3 DEF Connections
      <3>2. QED
        BY <2>1, <3>1
    <2>4. QED
      BY <2>2, <2>3
  <1>5. ASSUME NEW w \in Wants(x) PROVE Behind(txs'[w.tx], w.row, w.mode)
    <2>1. AtLock(txs[x], w.row, w.mode) /\ w.tx = x
      BY <1>1, WantsAtLock, TargetTables
    <2>2. txs[x].kind # "generate" => txs'[x].pc > txs[x].pc
      BY <1>1 DEF Open
    <2>3. QED
      BY <1>1, <1>2, <2>1, <2>2, LockPassed
  <1>6. \A l \in locks' : Behind(txs'[l.tx], l.row, l.mode)
    BY <1>1, <1>4, <1>5
  <1>7. QED
    BY <1>6 DEF LocksBehind, Behind

LEMMA StepBehind == ASSUME TxInv, LocksBehind, [TxNext]_allVars PROVE LocksBehind'
  <1>1. Connections
    BY DEF TxInv
  <1>2. ASSUME locks' = locks, txs' = txs PROVE LocksBehind'
    BY <1>2 DEF LocksBehind, Behind
  <1>3. CASE UNCHANGED allVars
    BY <1>2, <1>3 DEF allVars, txVars
  <1>4. CASE Single
    BY <1>2, <1>4 DEF Single, txVars
  <1>5. ASSUME NEW x \in Txs, Request(x) PROVE LocksBehind'
    <2>1. PICK tx : Requests(x, tx)
      BY <1>5, RequestsShape DEF TxInv
    <2>2. txs[x] = Absent /\ txs' = [txs EXCEPT ![x] = tx] /\ locks' = locks
      BY <2>1 DEF Requests, Begin
    <2>3. \A l \in locks : l.tx \in Txs /\ l.tx # x /\ txs'[l.tx] = txs[l.tx]
      BY <1>1, <2>2 DEF Connections, RowLock
    <2>4. QED
      BY <2>2, <2>3 DEF LocksBehind, Behind
  <1>6. ASSUME NEW x \in Txs, txs[x] # Absent, Moves(x) PROVE LocksBehind'
    BY <1>6, MovesBehind
  <1>7. ASSUME NEW x \in Txs, End(x) PROVE LocksBehind'
    <2>1. txs' = [txs EXCEPT ![x] = Absent] /\ locks' = {l \in locks : l.tx # x}
      BY <1>7 DEF End
    <2>2. \A l \in locks' : l \in locks /\ txs'[l.tx] = txs[l.tx]
      BY <1>1, <2>1 DEF Connections, RowLock
    <2>3. QED
      BY <2>2 DEF LocksBehind, Behind
  <1>8. ASSUME NEW x \in Txs, Rollback(x) \/ Commit(x) PROVE LocksBehind'
    BY <1>7, <1>8 DEF Rollback, Commit
  <1>9. QED
    BY <1>3, <1>4, <1>5, <1>6, <1>8, Steps

\* At these statements a transaction locks a row that it has locked for update before.
Again == {<<"assign", 6>>, <<"assign", 7>>, <<"cancel", 2>>, <<"record", 5>>, <<"record", 7>>,
          <<"checkout", 4>>}

LEMMA AgainHeld ==
    ASSUME TxInv, NEW x \in Txs, txs[x] # Absent, NEW w \in Wants(x),
           <<txs[x].kind, txs[x].pc>> \in Again
    PROVE  Holds(locks, x, w.row, "update")
  <1>1. Connections /\ ProgressAt(x, txs[x], writes[x], locks)
    BY DEF TxInv, Progress
  <1>2. Found(x) /\ w.row \in Target(x)
    BY DEF Wants
  <1>3. CASE Open(x, "assign")
    <2>1. /\ txs[x].kind = "assign" /\ txs[x].pc \in {6, 7} /\ TheRow(x) = txs[x].terms
          /\ AssignAt(x, txs[x], writes[x], locks)
      BY <1>1, <1>3, AssignTx, AssignSubject DEF Again, ProgressAt
    <2>2. /\ Holds(locks, x, RoomRow(txs[x].terms.room), "update")
          /\ Holds(locks, x, TenantRow(txs[x].terms.tenant), "update")
      BY <2>1 DEF AssignAt
    <2>3. w.row = IF txs[x].pc = 6 THEN RoomRow(txs[x].terms.room) ELSE TenantRow(txs[x].terms.tenant)
      <3>1. txs[x].pc = 6 => Target(x) = {RoomRow(txs[x].terms.room)}
        BY <1>3, <2>1, AssignLabels DEF Target
      <3>2. txs[x].pc = 7 => Target(x) = {TenantRow(txs[x].terms.tenant)}
        BY <1>3, <2>1, AssignLabels DEF Target
      <3>3. QED
        BY <1>2, <2>1, <3>1, <3>2
    <2>4. QED
      BY <2>1, <2>2, <2>3
  <1>4. CASE Open(x, "cancel")
    <2>1. /\ txs[x].kind = "cancel" /\ txs[x].pc = 2 /\ TheLease(x) = txs[x].lease
          /\ CancelAt(x, txs[x], writes[x], locks)
      BY <1>1, <1>4, CancelTx, CancelSubject DEF Again, ProgressAt
    <2>2. Target(x) = {AssignmentRow(txs[x].lease)}
      BY <1>4, <2>1, CancelLabels DEF Target
    <2>3. QED
      BY <1>2, <2>1, <2>2 DEF CancelAt
  <1>5. CASE Open(x, "record")
    <2>1. /\ txs[x].kind = "record" /\ txs[x].pc \in {5, 7}
          /\ TheBill(x) = txs[x].bill /\ TheLease(x) = txs[x].bill[1]
          /\ RecordAt(x, txs[x], writes[x], locks)
      BY <1>1, <1>5, RecordTx, RecordSubject DEF Again, ProgressAt
    <2>2. /\ Holds(locks, x, BillRow(txs[x].bill), "update")
          /\ txs[x].pc = 7 => Holds(locks, x, AssignmentRow(txs[x].bill[1]), "update")
      BY <2>1 DEF RecordAt
    <2>3. txs[x].pc = 5 => Target(x) = {BillRow(txs[x].bill)}
      BY <1>5, <2>1, RecordLabels DEF Target
    <2>4. txs[x].pc = 7 => Target(x) = {AssignmentRow(txs[x].bill[1])}
      BY <1>5, <2>1, RecordLabels DEF Target
    <2>5. QED
      BY <1>2, <2>1, <2>2, <2>3, <2>4
  <1>6. CASE Open(x, "checkout")
    <2>1. /\ txs[x].kind = "checkout" /\ txs[x].pc = 4 /\ TheBill(x) = txs[x].bill
          /\ CheckoutAt(x, txs[x], writes[x], locks)
      BY <1>1, <1>6, CheckoutTx, CheckoutSubject DEF Again, ProgressAt
    <2>2. Target(x) = {BillRow(txs[x].bill)}
      BY <1>6, <2>1, CheckoutLabels DEF Target
    <2>3. QED
      BY <1>2, <2>1, <2>2 DEF CheckoutAt
  <1>7. CASE Open(x, "generate")
    BY <1>1, <1>7, GenerateTx DEF Again
  <1>8. QED
    BY <1>1, <1>3, <1>4, <1>5, <1>6, <1>7, OpenKind

\* Who waits is at a statement whose lock conflicts with one that the other is past, and
\* has not locked the row before.
LEMMA WaitShape ==
    ASSUME TxInv, LocksBehind, NEW x \in Txs, txs[x] # Absent, NEW y, WaitsFor(x, y)
    PROVE  /\ y \in Txs /\ y # x
           /\ <<txs[x].kind, txs[x].pc>> \notin Again
           /\ \E row, m, n : /\ AtLock(txs[x], row, m) /\ Behind(txs[y], row, n)
                             /\ Conflicts(n, m)
  <1>1. Connections /\ LocksExclude
    BY DEF TxInv
  <1>2. PICK l \in locks, w \in Wants(x) : l.tx = y /\ Blocks(l, w)
    BY DEF WaitsFor
  <1>3. w.tx = x /\ AtLock(txs[x], w.row, w.mode)
    BY <1>1, <1>2, TargetTables, WantsAtLock
  <1>4. y \in Txs /\ y # x /\ l.row = w.row /\ Conflicts(l.mode, w.mode)
    BY <1>1, <1>2, <1>3 DEF Blocks, Connections, RowLock
  <1>5. Behind(txs[y], w.row, l.mode)
    BY <1>2, <1>4 DEF LocksBehind
  <1>6. ~Holds(locks, x, w.row, "update")
    <2>1. SUFFICES ASSUME Holds(locks, x, w.row, "update") PROVE FALSE
      OBVIOUS
    <2>2. PICK k \in locks : k.tx = x /\ k.row = w.row /\ k.mode = "update"
      BY <2>1 DEF Holds
    <2>3. Blocks(l, k)
      BY <1>2, <1>4, <2>2 DEF Blocks, Conflicts
    <2>4. QED
      BY <1>1, <1>2, <2>2, <2>3 DEF LocksExclude
  <1>7. <<txs[x].kind, txs[x].pc>> \notin Again
    BY <1>2, <1>6, AgainHeld
  <1>8. QED
    BY <1>3, <1>4, <1>5, <1>7

\* How far an open transaction is in the order in which payments, checkouts and runs wait.
MoneyRank(tx) ==
    CASE tx.kind = "record" /\ tx.pc = 1        -> 1
      [] tx.kind = "record" /\ tx.pc \in 2 .. 6 -> 2
      [] tx.kind = "record" /\ tx.pc \in 7 .. 8 -> 4
      [] tx.kind = "record" /\ tx.pc = 9        -> 5
      [] tx.kind = "record" /\ tx.pc = 10       -> 6
      [] tx.kind = "checkout"                   -> IF tx.pc = 1 THEN 1 ELSE 2
      [] tx.kind = "generate"                   -> 3

\* ... and in the order of onboardings, cancellations and checkouts.
LeaseRank(tx) ==
    CASE tx.pc = 1                                -> 1
      [] tx.kind = "cancel" /\ tx.pc \in {2, 3}   -> 2
      [] tx.kind = "cancel" /\ tx.pc = 4          -> 3
      [] tx.kind = "cancel" /\ tx.pc = 5          -> 4
      [] tx.kind = "cancel" /\ tx.pc = 6          -> 6
      [] tx.kind = "checkout" /\ tx.pc \in {2, 3} -> 3
      [] tx.kind = "checkout" /\ tx.pc \in {4, 5} -> 6
      [] tx.kind = "assign" /\ tx.pc = 2          -> 4
      [] tx.kind = "assign" /\ tx.pc \in 3 .. 5   -> 5
      [] tx.kind = "assign" /\ tx.pc \in 6 .. 8   -> 6

MoneyKinds == {"record", "checkout", "generate"}
LeaseKinds == {"assign", "cancel", "checkout"}

\* A statement of tx waits for a statement that other is past.
Waits(tx, other) ==
    /\ <<tx.kind, tx.pc>> \notin Again
    /\ \E row, m, n : AtLock(tx, row, m) /\ Behind(other, row, n) /\ Conflicts(n, m)

LEMMA Ranges ==
    ASSUME NEW tx \in Tx
    PROVE  /\ tx.kind \in MoneyKinds \cup LeaseKinds
           /\ tx.kind = "assign" => tx.pc \in 1 .. 8
           /\ tx.kind = "cancel" => tx.pc \in 1 .. 6
           /\ tx.kind = "record" => tx.pc \in 1 .. 10
           /\ tx.kind = "checkout" => tx.pc \in 1 .. 5
           /\ tx.kind = "generate" => tx.pc \in 1 .. 5
  BY DEF Tx, MoneyKinds, LeaseKinds

LEMMA MoneyRanks ==
    ASSUME NEW tx \in Tx
    PROVE  /\ tx.kind = "record" =>
                 /\ tx.pc = 1 => MoneyRank(tx) = 1
                 /\ tx.pc \in 2 .. 6 => MoneyRank(tx) = 2
                 /\ tx.pc \in 7 .. 8 => MoneyRank(tx) = 4
                 /\ tx.pc = 9 => MoneyRank(tx) = 5
                 /\ tx.pc = 10 => MoneyRank(tx) = 6
           /\ tx.kind = "checkout" => MoneyRank(tx) = IF tx.pc = 1 THEN 1 ELSE 2
           /\ tx.kind = "generate" => MoneyRank(tx) = 3
           /\ tx.kind \in MoneyKinds => MoneyRank(tx) \in 1 .. 6
  <1>1. tx.kind = "record" => /\ tx.pc = 1 => MoneyRank(tx) = 1
                              /\ tx.pc \in 2 .. 6 => MoneyRank(tx) = 2
                              /\ tx.pc \in 7 .. 8 => MoneyRank(tx) = 4
                              /\ tx.pc = 9 => MoneyRank(tx) = 5
                              /\ tx.pc = 10 => MoneyRank(tx) = 6
    BY DEF MoneyRank
  <1>2. /\ tx.kind = "checkout" => MoneyRank(tx) = IF tx.pc = 1 THEN 1 ELSE 2
        /\ tx.kind = "generate" => MoneyRank(tx) = 3
    BY DEF MoneyRank
  <1>3. tx.kind \in MoneyKinds => MoneyRank(tx) \in 1 .. 6
    BY <1>1, <1>2, Ranges DEF MoneyKinds
  <1>4. QED
    BY <1>1, <1>2, <1>3

LEMMA LeaseRanks ==
    ASSUME NEW tx \in Tx
    PROVE  /\ tx.pc = 1 => LeaseRank(tx) = 1
           /\ tx.kind = "cancel" => /\ tx.pc \in {2, 3} => LeaseRank(tx) = 2
                                    /\ tx.pc = 4 => LeaseRank(tx) = 3
                                    /\ tx.pc = 5 => LeaseRank(tx) = 4
                                    /\ tx.pc = 6 => LeaseRank(tx) = 6
           /\ tx.kind = "checkout" => /\ tx.pc \in {2, 3} => LeaseRank(tx) = 3
                                      /\ tx.pc \in {4, 5} => LeaseRank(tx) = 6
           /\ tx.kind = "assign" => /\ tx.pc = 2 => LeaseRank(tx) = 4
                                    /\ tx.pc \in 3 .. 5 => LeaseRank(tx) = 5
                                    /\ tx.pc \in 6 .. 8 => LeaseRank(tx) = 6
           /\ tx.kind \in LeaseKinds => LeaseRank(tx) \in 1 .. 6
  <1>1. tx.pc = 1 => LeaseRank(tx) = 1
    BY DEF LeaseRank
  <1>2. tx.kind = "cancel" => /\ tx.pc \in {2, 3} => LeaseRank(tx) = 2
                              /\ tx.pc = 4 => LeaseRank(tx) = 3
                              /\ tx.pc = 5 => LeaseRank(tx) = 4
                              /\ tx.pc = 6 => LeaseRank(tx) = 6
    BY DEF LeaseRank
  <1>3. tx.kind = "checkout" => /\ tx.pc \in {2, 3} => LeaseRank(tx) = 3
                                /\ tx.pc \in {4, 5} => LeaseRank(tx) = 6
    BY DEF LeaseRank
  <1>4. tx.kind = "assign" => /\ tx.pc = 2 => LeaseRank(tx) = 4
                              /\ tx.pc \in 3 .. 5 => LeaseRank(tx) = 5
                              /\ tx.pc \in 6 .. 8 => LeaseRank(tx) = 6
    BY DEF LeaseRank
  <1>5. tx.kind \in LeaseKinds => LeaseRank(tx) \in 1 .. 6
    BY <1>1, <1>2, <1>3, <1>4, Ranges DEF LeaseKinds
  <1>6. QED
    BY <1>1, <1>2, <1>3, <1>4, <1>5

\* Payments, checkouts and runs wait only for those further on, or a run for a run.
LEMMA MoneyClimbs ==
    ASSUME NEW tx \in Tx, NEW other \in Tx, Waits(tx, other),
           tx.kind \in MoneyKinds, other.kind \in MoneyKinds
    PROVE  \/ MoneyRank(other) > MoneyRank(tx)
           \/ tx.kind = "generate" /\ other.kind = "generate"
  <1>1. PICK row, m, n : AtLock(tx, row, m) /\ Behind(other, row, n) /\ Conflicts(n, m)
    BY DEF Waits
  <1>2. /\ m = KeyShare => n = "update"
        /\ n = KeyShare => m = "update"
        /\ KeyShare # "update"
    BY <1>1, KeyModes
  <1>3. <<tx.kind, tx.pc>> \notin Again
    BY DEF Waits
  <1>4. CASE tx.kind = "record"
    <2>1. \/ row[1] = "bills" /\ tx.pc = 1
          \/ row[1] \in {"tenants", "rooms"} /\ m = KeyShare
          \/ row[1] = "assignments" /\ tx.pc = 6
          \/ row[1] = "tenants" /\ m # "update" /\ tx.pc = 8
          \/ row[1] = "rooms" /\ m # "update" /\ tx.pc = 9
      BY <1>1, <1>3, <1>4 DEF AtLock, Again
    <2>2. CASE other.kind = "record"
      <3>1. \/ row[1] = "bills" /\ other.pc > 1
            \/ row[1] \in {"tenants", "rooms"} /\ n = KeyShare
            \/ row[1] = "assignments" /\ other.pc > 6
            \/ row[1] = "tenants" /\ n # "update" /\ other.pc > 8
            \/ row[1] = "rooms" /\ n # "update" /\ other.pc > 9
        BY <1>1, <2>2 DEF Behind
      <3>2. \/ tx.pc = 1 /\ other.pc > 1
            \/ tx.pc = 6 /\ other.pc > 6
            \/ tx.pc = 8 /\ other.pc > 8
            \/ tx.pc = 9 /\ other.pc > 9
        BY <1>2, <2>1, <3>1
      <3>3. other.pc \in 1 .. 10 /\ MoneyRank(other) \in Int
        BY <2>2, Ranges, MoneyRanks
      <3>4. /\ tx.pc = 1 => MoneyRank(tx) = 1
            /\ tx.pc = 6 => MoneyRank(tx) = 2
            /\ tx.pc = 8 => MoneyRank(tx) = 4
            /\ tx.pc = 9 => MoneyRank(tx) = 5
        BY <1>4, MoneyRanks
      <3>5. /\ other.pc > 1 => MoneyRank(other) > 1
            /\ other.pc > 6 => MoneyRank(other) > 3
            /\ other.pc > 8 => MoneyRank(other) > 4
            /\ other.pc > 9 => MoneyRank(other) > 5
        BY <2>2, <3>3, MoneyRanks
      <3>6. QED
        BY <3>2, <3>3, <3>4, <3>5
    <2>3. CASE other.kind = "checkout"
      <3>1. \/ row[1] = "bills" /\ other.pc > 1
            \/ row[1] = "tenants" /\ n = KeyShare
        BY <1>1, <2>3 DEF Behind
      <3>2. tx.pc = 1 /\ other.pc > 1
        BY <1>2, <2>1, <3>1
      <3>3. MoneyRank(tx) = 1
        BY <1>4, <3>2, MoneyRanks
      <3>4. MoneyRank(other) = 2
        BY <2>3, <3>2, Ranges, MoneyRanks
      <3>5. QED
        BY <3>3, <3>4
    <2>4. CASE other.kind = "generate"
      <3>1. \/ row[1] = "bill_number"
            \/ row[1] \in {"tenants", "rooms", "assignments"} /\ n = KeyShare
        BY <1>1, <2>4 DEF Behind
      <3>2. QED
        BY <1>2, <1>4, <2>1, <2>4, <3>1, Ranges, MoneyRanks
    <2>5. QED
      BY <2>2, <2>3, <2>4 DEF MoneyKinds
  <1>5. CASE tx.kind = "checkout"
    <2>1. \/ row[1] = "bills" /\ tx.pc = 1
          \/ row[1] = "tenants" /\ m = KeyShare
      BY <1>1, <1>3, <1>5 DEF AtLock, Again
    <2>2. CASE other.kind = "record"
      <3>1. \/ row[1] = "bills" /\ other.pc > 1
            \/ row[1] \in {"tenants", "rooms"} /\ n = KeyShare
            \/ row[1] = "assignments" /\ other.pc > 6
            \/ row[1] = "tenants" /\ n # "update" /\ other.pc > 8
            \/ row[1] = "rooms" /\ n # "update" /\ other.pc > 9
        BY <1>1, <2>2 DEF Behind
      <3>2. QED
        BY <1>2, <1>5, <2>1, <2>2, <3>1, Ranges, MoneyRanks
    <2>3. CASE other.kind = "checkout"
      <3>1. \/ row[1] = "bills" /\ other.pc > 1
            \/ row[1] = "tenants" /\ n = KeyShare
        BY <1>1, <2>3 DEF Behind
      <3>2. tx.pc = 1 /\ other.pc > 1
        BY <1>2, <2>1, <3>1
      <3>3. MoneyRank(tx) = 1
        BY <1>5, <3>2, MoneyRanks
      <3>4. MoneyRank(other) = 2
        BY <2>3, <3>2, Ranges, MoneyRanks
      <3>5. QED
        BY <3>3, <3>4
    <2>4. CASE other.kind = "generate"
      <3>1. \/ row[1] = "bill_number"
            \/ row[1] \in {"tenants", "rooms", "assignments"} /\ n = KeyShare
        BY <1>1, <2>4 DEF Behind
      <3>2. QED
        BY <1>2, <1>5, <2>1, <2>4, <3>1, Ranges, MoneyRanks
    <2>5. QED
      BY <2>2, <2>3, <2>4 DEF MoneyKinds
  <1>6. CASE tx.kind = "generate"
    <2>1. \/ row[1] = "bill_number" /\ row[2][1] = tx.owner
          \/ row[1] \in {"tenants", "rooms", "assignments"} /\ m = KeyShare
      BY <1>1, <1>6 DEF AtLock
    <2>2. CASE other.kind = "record"
      <3>1. \/ row[1] = "bills" /\ other.pc > 1
            \/ row[1] \in {"tenants", "rooms"} /\ n = KeyShare
            \/ row[1] = "assignments" /\ other.pc > 6
            \/ row[1] = "tenants" /\ n # "update" /\ other.pc > 8
            \/ row[1] = "rooms" /\ n # "update" /\ other.pc > 9
        BY <1>1, <2>2 DEF Behind
      <3>2. QED
        BY <1>2, <1>6, <2>1, <2>2, <3>1, Ranges, MoneyRanks
    <2>3. CASE other.kind = "checkout"
      <3>1. \/ row[1] = "bills" /\ other.pc > 1
            \/ row[1] = "tenants" /\ n = KeyShare
        BY <1>1, <2>3 DEF Behind
      <3>2. QED
        BY <1>2, <1>6, <2>1, <2>3, <3>1, Ranges, MoneyRanks
    <2>4. CASE other.kind = "generate"
      BY <1>6, <2>4
    <2>5. QED
      BY <2>2, <2>3, <2>4 DEF MoneyKinds
  <1>7. QED
    BY <1>4, <1>5, <1>6 DEF MoneyKinds

\* ... and so do onboardings, cancellations and checkouts.
LEMMA LeaseClimbs ==
    ASSUME NEW tx \in Tx, NEW other \in Tx, Waits(tx, other),
           tx.kind \in LeaseKinds, other.kind \in LeaseKinds
    PROVE  LeaseRank(other) > LeaseRank(tx)
  <1>1. PICK row, m, n : AtLock(tx, row, m) /\ Behind(other, row, n) /\ Conflicts(n, m)
    BY DEF Waits
  <1>2. <<tx.kind, tx.pc>> \notin Again
    BY DEF Waits
  <1> DEFINE table == row[1]
  <1>3. /\ other.kind = "assign"   => \/ table = "rooms" /\ other.pc > 1
                                      \/ table = "tenants" /\ other.pc > 2
                                      \/ table = "bill_number" /\ other.pc > 5
        /\ other.kind = "cancel"   => \/ table = "assignments" /\ other.pc > 1
                                      \/ table = "bills" /\ other.pc > 3
                                      \/ table = "rooms" /\ other.pc > 4
                                      \/ table = "tenants" /\ other.pc > 5
        /\ other.kind = "checkout" => \/ table = "bills" /\ other.pc > 1
                                      \/ table = "tenants" /\ other.pc > 3
    BY <1>1 DEF Behind
  <1>4. CASE tx.kind = "assign"
    <2>1. \/ table = "rooms" /\ tx.pc = 1
          \/ table = "tenants" /\ tx.pc = 2
          \/ table = "bill_number" /\ tx.pc = 5
      BY <1>1, <1>2, <1>4 DEF AtLock, Again
    <2>2. CASE other.kind = "assign"
      BY <1>3, <1>4, <2>1, <2>2, Ranges, LeaseRanks
    <2>3. CASE other.kind = "cancel"
      BY <1>3, <1>4, <2>1, <2>3, Ranges, LeaseRanks
    <2>4. CASE other.kind = "checkout"
      BY <1>3, <1>4, <2>1, <2>4, Ranges, LeaseRanks
    <2>5. QED
      BY <2>2, <2>3, <2>4 DEF LeaseKinds
  <1>5. CASE tx.kind = "cancel"
    <2>1. \/ table = "assignments" /\ tx.pc = 1
          \/ table = "bills" /\ tx.pc = 3
          \/ table = "rooms" /\ tx.pc = 4
          \/ table = "tenants" /\ tx.pc = 5
      BY <1>1, <1>2, <1>5 DEF AtLock, Again
    <2>2. CASE other.kind = "assign"
      BY <1>3, <1>5, <2>1, <2>2, Ranges, LeaseRanks
    <2>3. CASE other.kind = "cancel"
      BY <1>3, <1>5, <2>1, <2>3, Ranges, LeaseRanks
    <2>4. CASE other.kind = "checkout"
      BY <1>3, <1>5, <2>1, <2>4, Ranges, LeaseRanks
    <2>5. QED
      BY <2>2, <2>3, <2>4 DEF LeaseKinds
  <1>6. CASE tx.kind = "checkout"
    <2>1. \/ table = "bills" /\ tx.pc = 1
          \/ table = "tenants" /\ tx.pc = 3 /\ m = KeyShare
      BY <1>1, <1>2, <1>6 DEF AtLock, Again
    <2>2. CASE other.kind = "assign"
      BY <1>3, <1>6, <2>1, <2>2, Ranges, LeaseRanks
    <2>3. CASE other.kind = "cancel"
      BY <1>3, <1>6, <2>1, <2>3, Ranges, LeaseRanks
    <2>4. CASE other.kind = "checkout"
      <3>1. table = "tenants" => n = KeyShare
        BY <1>1, <2>4 DEF Behind
      <3>2. m = KeyShare => n = "update" /\ KeyShare # "update"
        BY <1>1, KeyModes
      <3>3. QED
        BY <1>3, <1>6, <2>1, <2>4, <3>1, <3>2, Ranges, LeaseRanks
    <2>5. QED
      BY <2>2, <2>3, <2>4 DEF LeaseKinds
  <1>7. QED
    BY <1>4, <1>5, <1>6 DEF LeaseKinds

\* A finite climb has a top: nobody can have somebody above.
LEMMA ClimbEnds ==
    ASSUME NEW S, NEW f, \A x \in S : f[x] \in 1 .. 6, \A x \in S : \E y \in S : f[y] > f[x]
    PROVE  S = {}
  <1>1. \A x \in S : f[x] < 6
    OBVIOUS
  <1>2. \A x \in S : f[x] < 5
    BY <1>1
  <1>3. \A x \in S : f[x] < 4
    BY <1>2
  <1>4. \A x \in S : f[x] < 3
    BY <1>3
  <1>5. \A x \in S : f[x] < 2
    BY <1>4
  <1>6. QED
    BY <1>5

\* In a finite group each of which waits for one of them, some wait in a circle: the
\* smallest subgroup that waits within itself.
LEMMA WaitingGroup ==
    ASSUME NEW S, IsFiniteSet(S), S # {}, NEW R, \A x \in S : \E y \in S : <<x, y>> \in R
    PROVE  \E C \in SUBSET S :
              /\ C # {}
              /\ \A x \in C : (\E y \in C : <<x, y>> \in R) /\ (\E y \in C : <<y, x>> \in R)
  <1> DEFINE Within == {U \in SUBSET S : U # {} /\ \A x \in U : \E y \in U : <<x, y>> \in R}
             Less   == StrictSubsetOrdering(S)
  <1>1. IsWellFoundedOn(Less, SUBSET S)
    BY FS_StrictSubsetOrderingWellFounded, FS_FiniteSubsetsOfFinite
  <1>2. S \in Within /\ Within \subseteq SUBSET S
    OBVIOUS
  <1> HIDE DEF Less
  <1>3. PICK C \in Within : \A U \in Within : ~(<<U, C>> \in Less)
    <2> HIDE DEF Within
    <2>1. Within # {}
      BY <1>2
    <2>2. QED
      BY <1>1, <1>2, <2>1, WFMin
  <1>4. ASSUME NEW x \in C PROVE \E y \in C : <<y, x>> \in R
    <2> SUFFICES ASSUME \A y \in C : <<y, x>> \notin R PROVE FALSE
      OBVIOUS
    <2> DEFINE U == C \ {x}
    <2>1. \A z \in C : \E y \in U : <<z, y>> \in R
      <3> SUFFICES ASSUME NEW z \in C PROVE \E y \in U : <<z, y>> \in R
        OBVIOUS
      <3>1. PICK y \in C : <<z, y>> \in R
        BY <1>3
      <3>2. y # x
        BY <3>1
      <3>3. QED
        BY <3>1, <3>2
    <2>2. U # {}
      BY <2>1
    <2>3. U \in Within
      BY <2>1, <2>2
    <2>4. <<U, C>> \in Less
      BY DEF Less, StrictSubsetOrdering
    <2>5. QED
      BY <1>3, <2>3, <2>4
  <1>5. QED
    BY <1>3, <1>4

LEMMA CycleWaits ==
    ASSUME TxInv, LocksBehind, NEW S \in SUBSET Txs, Cycle(S)
    PROVE  /\ S # {} /\ \A x \in S : txs[x] \in Tx /\ txs[x] # Absent
           /\ \A x \in S : \E y \in S : WaitsFor(x, y) /\ Waits(txs[x], txs[y])
  <1>1. Connections
    BY DEF TxInv
  <1>2. S # {} /\ \A x \in S : txs[x] \in Tx /\ txs[x] # Absent
    BY <1>1 DEF Cycle, Connections
  <1>3. ASSUME NEW x \in S PROVE \E y \in S : WaitsFor(x, y) /\ Waits(txs[x], txs[y])
    <2>1. PICK y \in S : WaitsFor(x, y)
      BY DEF Cycle
    <2>2. /\ <<txs[x].kind, txs[x].pc>> \notin Again
          /\ \E row, m, n : AtLock(txs[x], row, m) /\ Behind(txs[y], row, n) /\ Conflicts(n, m)
      BY <1>2, <2>1, WaitShape
    <2>3. QED
      BY <2>1, <2>2 DEF Waits
  <1>4. QED
    BY <1>2, <1>3

LEMMA LeaseSideClimbs ==
    ASSUME TxInv, LocksBehind
    PROVE  LeaseSideNeverDeadlocks
  <1> SUFFICES ASSUME NEW S \in SUBSET Txs, Cycle(S),
                      \A x \in S : txs[x].kind \notin {"record", "generate"}
               PROVE  FALSE
    BY DEF LeaseSideNeverDeadlocks
  <1>1. /\ S # {} /\ \A x \in S : txs[x] \in Tx /\ txs[x].kind \in LeaseKinds
        /\ \A x \in S : \E y \in S : Waits(txs[x], txs[y])
    BY CycleWaits, Ranges DEF MoneyKinds, LeaseKinds
  <1> DEFINE f == [x \in S |-> LeaseRank(txs[x])]
  <1>2. \A x \in S : f[x] \in 1 .. 6
    BY <1>1, LeaseRanks
  <1>3. \A x \in S : \E y \in S : f[y] > f[x]
    BY <1>1, LeaseClimbs
  <1> HIDE DEF f
  <1>4. QED
    BY <1>1, <1>2, <1>3, ClimbEnds

-----------------------------------------------------------------------------
(* Monthly runs that wait for each other *)

\* The numbers that a monthly run has entered are those of the bills it has written.
NumbersEntered ==
    \A l \in locks : Open(l.tx, "generate") /\ l.row[1] = "bill_number" =>
        \E b \in DOMAIN writes[l.tx].bills : l.row = NumberEntry(txs[l.tx].owner, b)

LEMMA MovesEntered ==
    ASSUME TxInv, NumbersEntered, NEW x \in Txs, txs[x] # Absent, Moves(x)
    PROVE  NumbersEntered'
  <1>1. /\ Connections /\ locks' = locks \cup Wants(x)
        /\ txs' = [txs EXCEPT ![x] = txs'[x]] /\ writes' = [writes EXCEPT ![x] = writes'[x]]
        /\ txs'[x] # Absent /\ txs'[x].kind = txs[x].kind /\ txs'[x].owner = txs[x].owner
        /\ Open(x, "generate") => Enters(x)
    BY NoTxAssumption DEF Moves, Ran, TxInv
  <1>2. \A y \in Txs \ {x} : txs'[y] = txs[y] /\ writes'[y] = writes[y]
    BY <1>1 DEF Connections
  <1>3. ASSUME NEW l \in locks', Open(l.tx, "generate")', l.row[1] = "bill_number"
        PROVE  \E b \in DOMAIN writes'[l.tx].bills : l.row = NumberEntry(txs'[l.tx].owner, b)
    <2>1. CASE l \in locks /\ l.tx # x
      <3>1. l.tx \in Txs /\ txs'[l.tx] = txs[l.tx] /\ writes'[l.tx] = writes[l.tx]
        BY <1>1, <1>2, <2>1 DEF Connections, RowLock
      <3>2. QED
        BY <1>3, <2>1, <3>1 DEF NumbersEntered, Open
    <2>2. CASE l \in locks /\ l.tx = x
      <3>1. Open(x, "generate")
        BY <1>1, <1>3, <2>2 DEF Open
      <3>2. QED
        BY <1>1, <1>3, <2>2, <3>1 DEF NumbersEntered, Enters
    <2>3. CASE l \in Wants(x)
      <3>1. l.tx = x
        BY <2>3, TargetTables
      <3>2. Open(x, "generate")
        BY <1>1, <1>3, <3>1 DEF Open
      <3>3. QED
        BY <1>1, <1>3, <2>3, <3>1, <3>2 DEF Enters
    <2>4. QED
      BY <1>1, <2>1, <2>2, <2>3
  <1>4. QED
    BY <1>3 DEF NumbersEntered, NumberEntry, BillNumber

LEMMA StepEntered == ASSUME TxInv, NumbersEntered, [TxNext]_allVars PROVE NumbersEntered'
  <1>1. Connections
    BY DEF TxInv
  <1>2. ASSUME locks' = locks, txs' = txs, writes' = writes PROVE NumbersEntered'
    BY <1>2 DEF NumbersEntered, Open, NumberEntry, BillNumber
  <1>3. CASE UNCHANGED allVars
    BY <1>2, <1>3 DEF allVars, txVars
  <1>4. CASE Single
    BY <1>2, <1>4 DEF Single, txVars
  <1>5. ASSUME NEW x \in Txs, Request(x) PROVE NumbersEntered'
    <2>1. PICK tx : Requests(x, tx)
      BY <1>5, RequestsShape DEF TxInv
    <2>2. /\ txs[x] = Absent /\ txs' = [txs EXCEPT ![x] = tx]
          /\ locks' = locks /\ writes' = writes
      BY <2>1 DEF Requests, Begin
    <2>3. \A l \in locks : l.tx \in Txs /\ l.tx # x /\ txs'[l.tx] = txs[l.tx]
      BY <1>1, <2>2 DEF Connections, RowLock
    <2>4. QED
      BY <2>2, <2>3 DEF NumbersEntered, Open, NumberEntry, BillNumber
  <1>6. ASSUME NEW x \in Txs, txs[x] # Absent, Moves(x) PROVE NumbersEntered'
    BY <1>6, MovesEntered
  <1>7. ASSUME NEW x \in Txs, End(x) PROVE NumbersEntered'
    <2>1. /\ txs' = [txs EXCEPT ![x] = Absent] /\ writes' = [writes EXCEPT ![x] = NoWrites]
          /\ locks' = {l \in locks : l.tx # x}
      BY <1>7 DEF End
    <2>2. \A l \in locks' : /\ l \in locks /\ txs'[l.tx] = txs[l.tx]
                            /\ writes'[l.tx] = writes[l.tx]
      BY <1>1, <2>1 DEF Connections, RowLock
    <2>3. QED
      BY <2>2 DEF NumbersEntered, Open, NumberEntry, BillNumber
  <1>8. ASSUME NEW x \in Txs, Rollback(x) \/ Commit(x) PROVE NumbersEntered'
    BY <1>7, <1>8 DEF Rollback, Commit
  <1>9. QED
    BY <1>3, <1>4, <1>5, <1>6, <1>8, Steps

\* A run that waits for a run is at a bill whose number the other has entered, and it has
\* not entered that bill itself.
LEMMA RunWaits ==
    ASSUME TxInv, LocksBehind, NumbersEntered, NEW x \in Txs, Open(x, "generate"),
           NEW y \in Txs, Open(y, "generate"), WaitsFor(x, y)
    PROVE  /\ x # y /\ txs[x].pc = 1 /\ TheBill(x) \notin DOMAIN writes[x].bills
           /\ \E c \in DOMAIN writes[y].bills : BillNumber(TheBill(x)) = BillNumber(c)
  <1>1. Connections /\ LocksExclude /\ GenerateAt(x, txs[x], writes[x], locks)
    BY GenerateTx DEF TxInv, Progress, ProgressAt, Open
  <1>2. PICK l \in locks, w \in Wants(x) : l.tx = y /\ Blocks(l, w)
    BY DEF WaitsFor
  <1>3. /\ w.tx = x /\ AtLock(txs[x], w.row, w.mode)
        /\ l.row = w.row /\ Conflicts(l.mode, w.mode) /\ y # x
    BY <1>1, <1>2, TargetTables, WantsAtLock DEF Blocks, Open
  <1>4. Behind(txs[y], w.row, l.mode)
    BY <1>2, <1>3 DEF LocksBehind
  <1>5. w.row[1] = "bill_number"
    BY <1>3, <1>4, GenerateTx, KeyModes, <1>1 DEF AtLock, Behind
  <1>6. txs[x].pc = 1
    <2>1. txs[x].pc \in 1 .. 5
      BY <1>1, GenerateTx
    <2>2. txs[x].pc \notin 2 .. 5
      BY <1>1, <1>2, <1>5, GenerateLabels, KeyWants, TargetTables
    <2>3. QED
      BY <2>1, <2>2
  <1>7. w = [tx |-> x, row |-> NumberEntry(txs[x].owner, TheBill(x)), mode |-> "update"]
    BY <1>2, <1>6, GenerateLabels, WantsNumber
  <1>8. PICK c \in DOMAIN writes[y].bills : w.row = NumberEntry(txs[y].owner, c)
    BY <1>2, <1>3, <1>5 DEF NumbersEntered
  <1>9. BillNumber(TheBill(x)) = BillNumber(c)
    BY <1>7, <1>8 DEF NumberEntry
  <1>10. TheBill(x) \notin DOMAIN writes[x].bills
    <2>1. SUFFICES ASSUME TheBill(x) \in DOMAIN writes[x].bills PROVE FALSE
      OBVIOUS
    <2>2. Entered(x, txs[x].owner, TheBill(x), writes[x].bills, locks)
      BY <1>1, <2>1 DEF GenerateAt
    <2>3. w \in locks
      BY <1>7, <2>2 DEF Entered, Holds
    <2>4. QED
      BY <1>1, <1>2, <2>3 DEF LocksExclude
  <1>11. QED
    BY <1>3, <1>6, <1>9, <1>10

\* The bills of a monthly run are of one month, and the one it is at is as young as any it has
\* entered.
LEMMA RunAt ==
    ASSUME TxInv, NEW x \in Txs, Open(x, "generate"), txs[x].pc = 1
    PROVE  /\ TheBill(x) \in BillKeys /\ TheBill(x) \in RunBills(x)
           /\ DOMAIN writes[x].bills \subseteq BillKeys /\ DOMAIN writes[x].bills \subseteq RunBills(x)
           /\ \A c \in DOMAIN writes[x].bills : c[2] = TheBill(x)[2] /\ Older(c, TheBill(x))
  <1> DEFINE tx == txs[x]
  <1>1. Base /\ Connections /\ GenerateAt(x, tx, writes[x], locks)
    BY GenerateTx DEF TxInv, Progress, ProgressAt, Open
  <1>2. TheBill(x) = Head(tx.todo) /\ tx.todo \in Seq(BillKeys) /\ tx.todo # <<>> /\ tx.month \in Months
    BY <1>1, GenerateSubject, GenerateTx DEF GenerateAt
  <1>3. /\ TheBill(x) \in BillKeys /\ Listed(TheBill(x), tx.todo)
        /\ TheBill(x) = tx.todo[1] /\ 1 \in DOMAIN tx.todo
    BY <1>2, ListedNext
  <1>4. TheBill(x) \in Month(tx) /\ DOMAIN writes[x].bills \subseteq Month(tx)
    BY <1>1, <1>3 DEF GenerateAt
  <1>5. Month(tx) \subseteq BillKeys /\ \A b \in Month(tx) : b[2] = tx.month
    BY <1>1, <1>2 DEF GenerateAt, Month, Base, TypeOK, BillRun, BillKeys
  <1>6. \A c \in DOMAIN writes[x].bills : Older(c, TheBill(x))
    BY <1>1, <1>3 DEF GenerateAt
  <1>7. QED
    BY <1>3, <1>4, <1>5, <1>6 DEF RunBills

\* Of two runs that wait, the first for the second, the first is at an older lease.
LEMMA RunsClimb ==
    ASSUME TxInv, LocksBehind, NumbersEntered,
           NEW x \in Txs, Open(x, "generate"), NEW y \in Txs, Open(y, "generate"),
           NEW z \in Txs, Open(z, "generate"), WaitsFor(x, y), WaitsFor(y, z),
           \A b \in RunBills(x), c \in RunBills(y) : ~Twins(b[1], c[1])
    PROVE  CreatedAt[TheBill(x)[1]] < CreatedAt[TheBill(y)[1]]
  <1> DEFINE b == TheBill(x)
             d == TheBill(y)
  <1>1. PICK c \in DOMAIN writes[y].bills : BillNumber(b) = BillNumber(c)
    BY RunWaits
  <1>2. txs[x].pc = 1 /\ txs[y].pc = 1 /\ d \notin DOMAIN writes[y].bills
    BY RunWaits
  <1>3. /\ b \in BillKeys /\ c \in BillKeys /\ d \in BillKeys
        /\ b \in RunBills(x) /\ c \in RunBills(y) /\ d \in RunBills(y)
        /\ c[2] = d[2] /\ Older(c, d)
    BY <1>1, <1>2, RunAt
  <1>4. b[2] = c[2] /\ BillSuffix[b[1]] = BillSuffix[c[1]]
    BY <1>1 DEF BillNumber
  <1>5. b[1] = c[1]
    BY <1>3, <1>4 DEF Twins
  <1>6. d # c
    BY <1>1, <1>2
  <1>7. d[1] # c[1]
    BY <1>3, <1>6 DEF BillKeys
  <1>8. CreatedAt[b[1]] # CreatedAt[d[1]]
    BY <1>3, <1>5, <1>7 DEF Twins
  <1>9. /\ CreatedAt[b[1]] \in Nat /\ CreatedAt[d[1]] \in Nat
        /\ CreatedAt[b[1]] <= CreatedAt[d[1]]
    BY <1>3, <1>5, CreatedAtAssumption DEF BillKeys, Older
  <1>10. QED
    BY <1>8, <1>9

\* In a finite group with ages, somebody is one of the oldest.
LEMMA OldestOf ==
    ASSUME NEW C, IsFiniteSet(C), C # {}, NEW f \in [C -> Nat]
    PROVE  \E x \in C : \A y \in C : ~(f[y] < f[x])
  <1> DEFINE Below(x) == {y \in C : f[y] < f[x]}
             Less == StrictSubsetOrdering(C)
             All  == {Below(x) : x \in C}
  <1>1. IsWellFoundedOn(Less, SUBSET C)
    BY FS_StrictSubsetOrderingWellFounded, FS_FiniteSubsetsOfFinite
  <1>2. All \subseteq SUBSET C /\ All # {}
    OBVIOUS
  <1> HIDE DEF Less, All
  <1>3. PICK B \in All : \A U \in All : ~(<<U, B>> \in Less)
    BY <1>1, <1>2, WFMin
  <1>4. PICK x \in C : B = Below(x)
    BY DEF All
  <1>5. ASSUME NEW y \in C, f[y] < f[x] PROVE FALSE
    <2>1. Below(y) \in All /\ Below(y) \subseteq Below(x) /\ y \in Below(x) /\ y \notin Below(y)
      BY <1>5 DEF All
    <2>2. <<Below(y), B>> \in Less
      BY <1>4, <2>1 DEF Less, StrictSubsetOrdering
    <2>3. QED
      BY <1>3, <2>1, <2>2
  <1>6. QED
    BY <1>5

\* Runs that wait for each other in a circle bill two leases of one age or one number.
LEMMA RunCircle ==
    ASSUME TxInv, LocksBehind, NumbersEntered, NEW G \in SUBSET Txs, G # {},
           \A x \in G : Open(x, "generate"), \A x \in G : \E y \in G : WaitsFor(x, y)
    PROVE  \E x, y \in G : x # y /\ \E b \in RunBills(x), c \in RunBills(y) : Twins(b[1], c[1])
  <1> SUFFICES ASSUME \A x, y \in G : x # y =>
                         \A b \in RunBills(x), c \in RunBills(y) : ~Twins(b[1], c[1])
               PROVE  FALSE
    OBVIOUS
  <1> DEFINE R == {p \in Txs \X Txs : WaitsFor(p[1], p[2])}
  <1>1. IsFiniteSet(G)
    BY PoolAssumption, FS_Subset
  <1>2. \A x, y \in G : <<x, y>> \in R <=> WaitsFor(x, y)
    OBVIOUS
  <1> HIDE DEF R
  <1>3. PICK C \in SUBSET G :
              /\ C # {}
              /\ \A x \in C : (\E y \in C : <<x, y>> \in R) /\ (\E y \in C : <<y, x>> \in R)
    BY <1>1, <1>2, WaitingGroup
  <1> DEFINE f == [x \in C |-> CreatedAt[TheBill(x)[1]]]
  <1>4. \A x \in C : \E y \in C : f[y] < f[x]
    <2> SUFFICES ASSUME NEW x \in C PROVE \E y \in C : f[y] < f[x]
      OBVIOUS
    <2>1. PICK y \in C, z \in C : WaitsFor(y, x) /\ WaitsFor(x, z)
      BY <1>2, <1>3
    <2>2. y # x
      BY <2>1, RunWaits
    <2>3. CreatedAt[TheBill(y)[1]] < CreatedAt[TheBill(x)[1]]
      BY <2>1, <2>2, RunsClimb
    <2>4. QED
      BY <2>3
  <1>5. f \in [C -> Nat]
    <2>1. ASSUME NEW x \in C PROVE CreatedAt[TheBill(x)[1]] \in Nat
      <3>1. PICK z \in C : WaitsFor(x, z)
        BY <1>2, <1>3
      <3>2. TheBill(x) \in BillKeys
        BY <3>1, RunWaits, RunAt
      <3>3. QED
        BY <3>2, CreatedAtAssumption DEF BillKeys
    <2>2. QED
      BY <2>1
  <1> HIDE DEF f
  <1>6. IsFiniteSet(C)
    BY <1>1, FS_Subset
  <1>7. QED
    BY <1>3, <1>4, <1>5, <1>6, OldestOf

LEMMA MoneySideClimbs ==
    ASSUME TxInv, LocksBehind, NumbersEntered
    PROVE  MoneySideNeverDeadlocks
  <1> SUFFICES ASSUME NEW S \in SUBSET Txs, Cycle(S),
                      \A x \in S : txs[x].kind \notin {"assign", "cancel"}
               PROVE  \E x, y \in S : /\ x # y /\ Open(x, "generate") /\ Open(y, "generate")
                                      /\ \E b \in RunBills(x), c \in RunBills(y) : Twins(b[1], c[1])
    BY DEF MoneySideNeverDeadlocks
  <1> DEFINE G == {x \in S : Open(x, "generate")}
             rank(x) == MoneyRank(txs[x])
  <1>1. /\ S # {}
        /\ \A x \in S : txs[x] \in Tx /\ txs[x] # Absent /\ txs[x].kind \in MoneyKinds
        /\ \A x \in S : \E y \in S : WaitsFor(x, y) /\ Waits(txs[x], txs[y])
    BY CycleWaits, Ranges DEF MoneyKinds, LeaseKinds
  <1>2. \A x \in S : rank(x) \in 1 .. 6 /\ (x \in G => rank(x) = 3)
    BY <1>1, MoneyRanks DEF Open
  <1>3. \A x \in S : \E y \in S : /\ WaitsFor(x, y)
                                  /\ rank(y) > rank(x) \/ (x \in G /\ y \in G)
    BY <1>1, MoneyClimbs DEF Open
  <1> HIDE DEF rank
  \* Past the rank of the runs nobody can wait for somebody further on.
  <1>4. \A x \in S : rank(x) <= 3
    <2> DEFINE T == {x \in S : rank(x) > 3}
               f == [x \in T |-> rank(x)]
    <2>1. \A x \in T : f[x] \in 1 .. 6
      BY <1>2
    <2>2. \A x \in T : \E y \in T : f[y] > f[x]
      BY <1>2, <1>3
    <2>3. T = {}
      <3> HIDE DEF T, f
      <3>1. QED
        BY <2>1, <2>2, ClimbEnds
    <2>4. QED
      BY <1>2, <2>3
  <1>5. G # {}
    <2> SUFFICES ASSUME G = {} PROVE FALSE
      OBVIOUS
    <2> DEFINE f == [x \in S |-> rank(x)]
    <2>1. \A x \in S : f[x] \in 1 .. 6
      BY <1>2
    <2>2. \A x \in S : \E y \in S : f[y] > f[x]
      BY <1>3
    <2> HIDE DEF f
    <2>3. QED
      BY <1>1, <2>1, <2>2, ClimbEnds
  <1>6. \A x \in G : \E y \in G : WaitsFor(x, y)
    BY <1>2, <1>3, <1>4
  <1>7. \A x \in G : x \in S /\ Open(x, "generate")
    OBVIOUS
  <1> HIDE DEF G
  <1>8. PICK x \in G, y \in G :
           x # y /\ \E b \in RunBills(x), c \in RunBills(y) : Twins(b[1], c[1])
    <2>1. G \in SUBSET Txs
      BY <1>7
    <2>2. QED
      BY <1>5, <1>6, <1>7, <2>1, RunCircle
  <1>9. QED
    BY <1>7, <1>8

\* Postgres never finds a deadlock among onboardings, cancellations and checkouts alone: they
\* lock assignments, bills, rooms and tenants in this order.
THEOREM LeaseSideDeadlockFree == TxSpec => []LeaseSideNeverDeadlocks
  <1>1. TxInit => LocksBehind
    BY DEF TxInit, LocksBehind
  <1>2. TxInv /\ LocksBehind /\ [TxNext]_allVars => LocksBehind'
    BY StepBehind
  <1>3. TxInv /\ LocksBehind => LeaseSideNeverDeadlocks
    BY LeaseSideClimbs
  <1>4. QED
    BY <1>1, <1>2, <1>3, TransactionsInvariant, PTL DEF TxSpec

\* ... nor among payments, checkouts and monthly runs alone, of however many owners and with
\* however many runs of each: they lock bills, assignments, tenants and rooms in this order,
\* and runs enter their bills in the order of created_at.  Leases created at the same moment
\* or with colliding bill numbers are the exception.
THEOREM MoneySideDeadlockFree == TxSpec => []MoneySideNeverDeadlocks
  <1>1. TxInit => LocksBehind /\ NumbersEntered
    BY DEF TxInit, LocksBehind, NumbersEntered
  <1>2. TxInv /\ LocksBehind /\ [TxNext]_allVars => LocksBehind'
    BY StepBehind
  <1>3. TxInv /\ NumbersEntered /\ [TxNext]_allVars => NumbersEntered'
    BY StepEntered
  <1>4. TxInv /\ LocksBehind /\ NumbersEntered => MoneySideNeverDeadlocks
    BY MoneySideClimbs
  <1>5. QED
    BY <1>1, <1>2, <1>3, <1>4, TransactionsInvariant, PTL DEF TxSpec

-----------------------------------------------------------------------------
(* Who waits *)

\* A transaction that does not have its locks waits for one that is open.
LEMMA BlockedWaits ==
    ASSUME TxInv, NEW x \in Txs, ~Granted(x)
    PROVE  \E y \in Txs : txs[y] # Absent /\ WaitsFor(x, y)
  <1>1. PICK l \in locks, w \in Wants(x) : Blocks(l, w)
    BY DEF Granted
  <1>2. l.tx \in Txs /\ txs[l.tx] # Absent
    BY DEF TxInv, Connections, RowLock
  <1>3. QED
    BY <1>1, <1>2 DEF WaitsFor

LEMMA SomebodyMoves ==
    ASSUME TxInv
    PROVE  NobodyWaitsInVain
  <1> DEFINE open == {x \in Txs : txs[x] # Absent}
  <1> SUFFICES ASSUME NEW S \in SUBSET open, S # {},
                      \A x \in S, y \in open : WaitsFor(x, y) => y \in S,
                      \A x \in S : ~Granted(x)
               PROVE  \E C \in SUBSET S : Cycle(C)
    BY DEF NobodyWaitsInVain
  <1> DEFINE R == {p \in Txs \X Txs : WaitsFor(p[1], p[2])}
  <1>1. IsFiniteSet(S)
    BY PoolAssumption, FS_Subset
  <1>2. \A x, y \in S : <<x, y>> \in R <=> WaitsFor(x, y)
    OBVIOUS
  <1>3. \A x \in S : \E y \in S : <<x, y>> \in R
    BY <1>2, BlockedWaits
  <1> HIDE DEF R
  <1>4. PICK C \in SUBSET S :
              /\ C # {}
              /\ \A x \in C : (\E y \in C : <<x, y>> \in R) /\ (\E y \in C : <<y, x>> \in R)
    BY <1>1, <1>3, WaitingGroup
  <1>5. Cycle(C)
    BY <1>2, <1>4 DEF Cycle
  <1>6. QED
    BY <1>5

\* The safety half of "every transaction ends": whatever the number of connections,
\* transactions that wait only for each other are never all stuck unless some of them form
\* the circle that Postgres looks for.
THEOREM NobodyWaits == TxSpec => []NobodyWaitsInVain
  BY SomebodyMoves, TransactionsInvariant, PTL
=============================================================================
