---------------------------- MODULE TenancySafety ----------------------------
(***************************************************************************)
(* The safety theorems of Tenancy.  Each invariant is preserved by every   *)
(* shape of step that TenancyProofs distinguishes; its hypotheses name the *)
(* invariants it rests on.                                                 *)
(***************************************************************************)
EXTENDS TenancyProofs

-----------------------------------------------------------------------------
(* Exclusive rooms and tenants *)

\* A live lease that is not new was live before, in the same room, of the same tenant.
LEMMA LiveOld ==
    ASSUME Base, AllKept, NEW x \in LiveAssignments', assignments[x] # Absent
    PROVE  /\ x \in LiveAssignments
           /\ assignments'[x].room = assignments[x].room
           /\ assignments'[x].tenant = assignments[x].tenant
  <1>1. x \in Assignments /\ assignments'[x].status \in LiveStatus
    BY DEF LiveAssignments
  <1>2. LeaseKept(x)
    BY <1>1 DEF AllKept, LeasesKept
  <1>3. QED
    BY <1>1, <1>2 DEF LeaseKept, LiveAssignments, LiveStatus

LEMMA LiveNew ==
    ASSUME Base, [Next]_vars, NEW x \in LiveAssignments', assignments[x] = Absent
    PROVE  \E m \in Months : Assigned(x, m)
  <1>1. x \in Assignments /\ assignments'[x] # assignments[x]
    BY DEF LiveAssignments
  <1>2. ASSUME NEW b \in BillKeys, Settled(b) PROVE FALSE
    <2>1. assignments[b[1]] # Absent
      BY <1>2, BillLinks, AbsentAssumption DEF Settled
    <2>2. QED
      BY <1>1, <1>2, <2>1 DEF Settled
  <1>3. QED
    BY <1>1, <1>2, StepShape DEF Quiet, Billed, Lapsed, Cancelled, Assigned, Opened

LEMMA ExclusiveStep ==
    ASSUME Base, RoomAndTenantExclusive, [Next]_vars
    PROVE  RoomAndTenantExclusive'
  <1>1. AllKept
    BY StepKeeps
  <1>2. ASSUME NEW x \in LiveAssignments', NEW y \in LiveAssignments', x # y,
               assignments[x] = Absent
        PROVE  /\ assignments'[x].room # assignments'[y].room
               /\ assignments'[x].tenant # assignments'[y].tenant
    <2>1. PICK m \in Months : Assigned(x, m)
      BY <1>2, LiveNew
    <2>2. assignments'[y] = assignments[y]
      BY <1>2, <2>1 DEF Assigned, LiveAssignments
    <2>3. y \in LiveAssignments
      BY <2>2 DEF LiveAssignments
    <2>4. QED
      BY <2>1, <2>2, <2>3 DEF Assigned
  <1>3. ASSUME NEW x \in LiveAssignments', NEW y \in LiveAssignments', x # y
        PROVE  /\ assignments'[x].room # assignments'[y].room
               /\ assignments'[x].tenant # assignments'[y].tenant
    BY <1>1, <1>2, <1>3, LiveOld DEF RoomAndTenantExclusive
  <1>4. QED
    BY <1>3 DEF RoomAndTenantExclusive

\* No room and no tenant is ever in two live assignments (BR-010, BR-011), for any number
\* of rooms, tenants and leases and whatever statuses the owner patches.
THEOREM ExclusiveTenancy == Spec => []RoomAndTenantExclusive
  <1>1. Init => RoomAndTenantExclusive
    BY DEF Init, RoomAndTenantExclusive, LiveAssignments
  <1>2. Base /\ RoomAndTenantExclusive /\ [Next]_vars => RoomAndTenantExclusive'
    BY ExclusiveStep
  <1>3. QED
    BY <1>1, <1>2, BaseInvariant, PTL DEF Spec

-----------------------------------------------------------------------------
(* Agreed terms *)

\* A bill asks for the rent of its lease.
RentAgreed == \A b \in BillKeys : bills[b] # Absent => bills[b].amount = assignments[b[1]].rent

LEMMA RentAgreedStep == ASSUME Base, RentAgreed, AllKept PROVE RentAgreed'
  <1> SUFFICES ASSUME NEW b \in BillKeys, bills'[b] # Absent
               PROVE  bills'[b].amount = assignments'[b[1]].rent
    BY DEF RentAgreed
  <1>1. CASE bills[b] = Absent
    <2>1. bills'[b] = NewBill(assignments'[b[1]], b[2])
      BY <1>1 DEF AllKept, NewBillsLinked
    <2>2. QED
      BY <2>1 DEF NewBill
  <1>2. CASE bills[b] # Absent
    <2>1. b[1] \in Assignments /\ assignments[b[1]] # Absent
      BY <1>2, BillLinks, AbsentAssumption
    <2>2. QED
      BY <1>2, <2>1 DEF AllKept, BillsKept, BillKept, LeasesKept, LeaseKept, RentAgreed
  <1>3. QED
    BY <1>1, <1>2

\* A bill asks for the rent its assignment agreed on (BR-012).
THEOREM RentAlwaysAgreed == Spec => []RentAgreed
  <1>1. Init => RentAgreed
    BY DEF Init, RentAgreed
  <1>2. Base /\ RentAgreed /\ [Next]_vars => RentAgreed'
    BY RentAgreedStep, StepKeeps
  <1>3. QED
    BY <1>1, <1>2, BaseInvariant, PTL DEF Spec

-----------------------------------------------------------------------------
(* The first payment *)

\* The two halves of FirstPaymentGatesTenancy, for one lease.
PendingOwesFirst(a) ==
    assignments[a].status = "pending_payment" =>
        /\ bills[<<a, assignments[a].start>>] # Absent
        /\ bills[<<a, assignments[a].start>>].status \in Collectible
        /\ \A m \in Months \ {assignments[a].start} : bills[<<a, m>>] = Absent
ActivePaidFirst(a) ==
    assignments[a].status = "active" =>
        /\ bills[<<a, assignments[a].start>>] # Absent
        /\ bills[<<a, assignments[a].start>>].status = "paid"
FirstPaid(a) == assignments[a] # Absent => PendingOwesFirst(a) /\ ActivePaidFirst(a)

LEMMA FirstPaidMeaning == FirstPaymentGatesTenancy <=> \A a \in Assignments : FirstPaid(a)
  BY DEF FirstPaymentGatesTenancy, FirstPaid, PendingOwesFirst, ActivePaidFirst

\* A lease whose row and bills a step leaves alone.
LEMMA FirstPaidUntouched ==
    ASSUME Base, NEW a \in Assignments, FirstPaid(a), assignments'[a] = assignments[a],
           \A m \in Months : bills'[<<a, m>>] = bills[<<a, m>>]
    PROVE  FirstPaid(a)'
  <1>1. assignments[a] # Absent => assignments[a].start \in Months
    BY RowTypes DEF Base, Assignment
  <1>2. QED
    BY <1>1 DEF FirstPaid, PendingOwesFirst, ActivePaidFirst

LEMMA FirstPaidAssigned ==
    ASSUME Base, NEW x \in Assignments, FirstPaid(x), NEW a \in Assignments,
           NEW m \in Months, Assigned(a, m)
    PROVE  FirstPaid(x)'
  <1>1. CASE x # a
    <2>1. /\ assignments'[x] = assignments[x]
          /\ \A k \in Months : bills'[<<x, k>>] = bills[<<x, k>>]
      BY <1>1 DEF Assigned, BillKeys
    <2>2. QED
      BY <2>1, FirstPaidUntouched
  <1>2. CASE x = a
    <2>1. /\ assignments'[a].start = m /\ assignments'[a].status = "pending_payment"
          /\ assignments'[a] \in Assignment
          /\ bills'[<<a, m>>] = NewBill(assignments'[a], m)
      BY DEF Assigned
    <2>2. bills'[<<a, m>>] # Absent /\ bills'[<<a, m>>].status \in Collectible
      BY <2>1, NewBillType, AbsentAssumption DEF NewBill, Collectible
    <2>3. ASSUME NEW k \in Months \ {m} PROVE bills'[<<a, k>>] = Absent
      <3>1. <<a, k>> \in BillKeys \ {<<a, m>>} /\ assignments[a] = Absent
        BY DEF BillKeys, Assigned
      <3>2. bills[<<a, k>>] = Absent
        BY <3>1, BillLinks, AbsentAssumption
      <3>3. QED
        BY <3>1, <3>2 DEF Assigned
    <2>4. QED
      BY <1>2, <2>1, <2>2, <2>3 DEF FirstPaid, PendingOwesFirst, ActivePaidFirst
  <1>3. QED
    BY <1>1, <1>2

LEMMA FirstPaidCancelled ==
    ASSUME Base, NEW x \in Assignments, FirstPaid(x), NEW a \in Assignments, Cancelled(a)
    PROVE  FirstPaid(x)'
  <1>1. CASE x # a
    <2>1. /\ assignments'[x] = assignments[x]
          /\ \A k \in Months : bills'[<<x, k>>] = bills[<<x, k>>]
      BY <1>1 DEF Cancelled, BillKeys
    <2>2. QED
      BY <2>1, FirstPaidUntouched
  <1>2. CASE x = a
    BY <1>2 DEF Cancelled, FirstPaid, PendingOwesFirst, ActivePaidFirst
  <1>3. QED
    BY <1>1, <1>2

\* Bills are added or pass to another status of collection, leases stay as they are.
LEMMA FirstPaidCollecting ==
    ASSUME Base, NEW x \in Assignments, FirstPaid(x), assignments'[x] = assignments[x],
           ASSUME NEW m \in Months
           PROVE  \/ bills'[<<x, m>>] = bills[<<x, m>>]
                  \/ bills[<<x, m>>] = Absent /\ assignments[x].status = "active"
                  \/ /\ bills[<<x, m>>] # Absent /\ bills[<<x, m>>].status \in Collectible
                     /\ bills'[<<x, m>>] # Absent /\ bills'[<<x, m>>].status \in Collectible
    PROVE  FirstPaid(x)'
  <1> SUFFICES ASSUME assignments[x] # Absent PROVE FirstPaid(x)'
    BY DEF FirstPaid
  <1> DEFINE first == <<x, assignments[x].start>>
  <1>1. assignments[x].start \in Months
    BY RowTypes DEF Base, Assignment
  <1>2. PendingOwesFirst(x)'
    <2> SUFFICES ASSUME assignments[x].status = "pending_payment"
                 PROVE  /\ bills'[first] # Absent /\ bills'[first].status \in Collectible
                        /\ \A m \in Months \ {assignments[x].start} : bills'[<<x, m>>] = Absent
      BY DEF PendingOwesFirst
    <2>1. /\ bills[first] # Absent /\ bills[first].status \in Collectible
          /\ \A m \in Months \ {assignments[x].start} : bills[<<x, m>>] = Absent
      BY DEF FirstPaid, PendingOwesFirst
    <2>2. QED
      BY <1>1, <2>1
  <1>3. ActivePaidFirst(x)'
    <2> SUFFICES ASSUME assignments[x].status = "active"
                 PROVE  bills'[first] # Absent /\ bills'[first].status = "paid"
      BY DEF ActivePaidFirst
    <2>1. bills[first] # Absent /\ bills[first].status = "paid"
      BY DEF FirstPaid, ActivePaidFirst
    <2>2. QED
      BY <1>1, <2>1 DEF Collectible
  <1>4. QED
    BY <1>2, <1>3 DEF FirstPaid

LEMMA FirstPaidSettled ==
    ASSUME Base, AllKept, NEW x \in Assignments, FirstPaid(x), NEW b \in BillKeys, Settled(b)
    PROVE  FirstPaid(x)'
  <1>1. b[1] \in Assignments /\ b[2] \in Months /\ b = <<b[1], b[2]>>
    BY KeyParts
  <1>2. CASE x # b[1]
    <2>1. /\ assignments'[x] = assignments[x]
          /\ \A k \in Months : bills'[<<x, k>>] = bills[<<x, k>>]
      BY <1>1, <1>2 DEF Settled, BillKeys
    <2>2. QED
      BY <2>1, FirstPaidUntouched
  <1>3. CASE x = b[1] /\ assignments[x].status = "pending_payment"
    <2>1. assignments[x] # Absent /\ bills[b] # Absent
      BY <1>3, BillLinks, AbsentAssumption DEF Settled
    <2>2. b[2] = assignments[x].start
      BY <1>1, <1>3, <2>1 DEF FirstPaid, PendingOwesFirst
    <2>3. assignments'[x].status = "active" /\ assignments'[x].start = b[2]
      BY <1>3, <2>1, <2>2 DEF Settled, AllKept, LeasesKept, LeaseKept
    <2>4. bills'[<<x, b[2]>>] # Absent /\ bills'[<<x, b[2]>>].status = "paid"
      BY <1>1, <1>3 DEF Settled
    <2>5. QED
      BY <2>3, <2>4 DEF FirstPaid, PendingOwesFirst, ActivePaidFirst
  <1>4. CASE x = b[1] /\ assignments[x].status # "pending_payment"
    <2>1. assignments'[x] = assignments[x]
      BY <1>4 DEF Settled
    <2>2. SUFFICES ASSUME assignments[x] # Absent, assignments[x].status = "active"
                   PROVE  ActivePaidFirst(x)'
      BY <1>4, <2>1 DEF FirstPaid, PendingOwesFirst, ActivePaidFirst
    <2>3. assignments[x].start \in Months
      BY <2>2, RowTypes DEF Base, Assignment
    <2>4. /\ bills[<<x, assignments[x].start>>] # Absent
          /\ bills[<<x, assignments[x].start>>].status = "paid"
      BY <2>2 DEF FirstPaid, ActivePaidFirst
    <2>5. <<x, assignments[x].start>> \in BillKeys \ {b}
      BY <2>3, <2>4 DEF Settled, Collectible, BillKeys
    <2>6. QED
      BY <2>1, <2>4, <2>5 DEF ActivePaidFirst, Settled
  <1>5. QED
    BY <1>2, <1>3, <1>4

LEMMA FirstPaidStep ==
    ASSUME Base, FirstPaymentGatesTenancy, [Next]_vars
    PROVE  FirstPaymentGatesTenancy'
  <1> SUFFICES ASSUME NEW x \in Assignments PROVE FirstPaid(x)'
    BY FirstPaidMeaning DEF FirstPaymentGatesTenancy, FirstPaid, PendingOwesFirst, ActivePaidFirst
  <1>1. FirstPaid(x) /\ AllKept
    BY FirstPaidMeaning, StepKeeps
  <1>2. CASE Quiet
    BY <1>1, <1>2, FirstPaidUntouched DEF Quiet
  <1>3. CASE Billed
    <2>1. ASSUME NEW m \in Months
          PROVE  \/ bills'[<<x, m>>] = bills[<<x, m>>]
                 \/ bills[<<x, m>>] = Absent /\ assignments[x].status = "active"
      BY <1>3 DEF Billed, BillKeys
    <2>2. QED
      BY <1>1, <1>3, <2>1, FirstPaidCollecting DEF Billed
  <1>4. CASE Lapsed
    <2>1. ASSUME NEW m \in Months
          PROVE  \/ bills'[<<x, m>>] = bills[<<x, m>>]
                 \/ /\ bills[<<x, m>>] # Absent /\ bills[<<x, m>>].status \in Collectible
                    /\ bills'[<<x, m>>] # Absent /\ bills'[<<x, m>>].status \in Collectible
      BY <1>4 DEF Lapsed, BillKeys, Collectible
    <2>2. QED
      BY <1>1, <1>4, <2>1, FirstPaidCollecting DEF Lapsed
  <1>5. ASSUME NEW b \in BillKeys, Opened(b) PROVE FirstPaid(x)'
    <2>1. ASSUME NEW m \in Months
          PROVE  \/ bills'[<<x, m>>] = bills[<<x, m>>]
                 \/ /\ bills[<<x, m>>] # Absent /\ bills[<<x, m>>].status \in Collectible
                    /\ bills'[<<x, m>>] # Absent /\ bills'[<<x, m>>].status \in Collectible
      BY <1>5 DEF Opened, NeedsCheckout, BillKeys, Collectible
    <2>2. QED
      BY <1>1, <1>5, <2>1, FirstPaidCollecting DEF Opened
  <1>6. QED
    BY <1>1, <1>2, <1>3, <1>4, <1>5, StepShape,
       FirstPaidAssigned, FirstPaidCancelled, FirstPaidSettled

\* A tenancy is active exactly behind a paid first bill, and a pending one owes that bill
\* and no other (BR-006, BR-014), in every order of payments, runs and cancellations.
THEOREM FirstPaymentGates == Spec => []FirstPaymentGatesTenancy
  <1>1. Init => FirstPaymentGatesTenancy
    BY DEF Init, FirstPaymentGatesTenancy
  <1>2. Base /\ FirstPaymentGatesTenancy /\ [Next]_vars => FirstPaymentGatesTenancy'
    BY FirstPaidStep
  <1>3. QED
    BY <1>1, <1>2, BaseInvariant, PTL DEF Spec

-----------------------------------------------------------------------------
(* Paid once, in full *)

\* The one payment that settles a bill of a lease.
AgreedPayment(row) ==
    [owner |-> row.owner, room |-> row.room, tenant |-> row.tenant, amount |-> row.rent]
PaidAsAgreed(b) ==
    payments[b] = IF bills[b] # Absent /\ bills[b].status = "paid"
                  THEN <<AgreedPayment(assignments[b[1]])>> ELSE <<>>

LEMMA PaidMeaning == PaidOnceInFull <=> \A b \in BillKeys : PaidAsAgreed(b)
  BY DEF PaidOnceInFull, PaidAsAgreed, AgreedPayment

LEMMA PaidBySettling ==
    ASSUME Base, [Next]_vars, NEW b \in BillKeys, ~Settled(b),
           bills'[b] # Absent, bills'[b].status = "paid"
    PROVE  bills'[b] = bills[b]
  <1>1. ASSUME NEW row, NEW m PROVE NewBill(row, m).status # "paid"
    BY DEF NewBill
  <1>2. ASSUME NEW a \in Assignments, NEW m \in Months, Assigned(a, m) PROVE bills'[b] = bills[b]
    BY <1>1, <1>2 DEF Assigned
  <1>3. ASSUME NEW a \in Assignments, Cancelled(a) PROVE bills'[b] = bills[b]
    BY <1>3 DEF Cancelled
  <1>4. CASE Quiet \/ Billed \/ Lapsed
    BY <1>1, <1>4 DEF Quiet, Billed, Lapsed
  <1>5. ASSUME NEW c \in BillKeys, Settled(c) \/ Opened(c) PROVE bills'[b] = bills[b]
    BY <1>5 DEF Settled, Opened
  <1>6. QED
    BY <1>2, <1>3, <1>4, <1>5, StepShape

LEMMA PaidStep ==
    ASSUME Base, RentAgreed, PaidOnceInFull, [Next]_vars
    PROVE  PaidOnceInFull'
  <1> SUFFICES ASSUME NEW b \in BillKeys PROVE PaidAsAgreed(b)'
    BY DEF PaidOnceInFull, PaidAsAgreed, AgreedPayment
  <1>1. PaidAsAgreed(b) /\ AllKept
    BY PaidMeaning, StepKeeps
  <1>2. CASE Settled(b)
    <2>1. /\ payments'[b] = <<PaymentFor(bills[b], bills[b].amount)>>
          /\ bills'[b] # Absent /\ bills'[b].status = "paid" /\ bills[b] # Absent
      BY <1>2 DEF Settled
    <2>2. /\ b[1] \in Assignments /\ assignments[b[1]] # Absent
          /\ bills[b].owner = assignments[b[1]].owner /\ bills[b].room = assignments[b[1]].room
          /\ bills[b].tenant = assignments[b[1]].tenant
          /\ bills[b].amount = assignments[b[1]].rent
      BY <2>1, BillLinks, AbsentAssumption DEF RentAgreed
    <2>3. LeaseKept(b[1])
      BY <1>1, <2>2 DEF AllKept, LeasesKept
    <2>4. PaymentFor(bills[b], bills[b].amount) = AgreedPayment(assignments'[b[1]])
      BY <2>2, <2>3 DEF PaymentFor, AgreedPayment, LeaseKept
    <2>5. QED
      BY <2>1, <2>4 DEF PaidAsAgreed
  <1>3. CASE ~Settled(b)
    <2>1. payments'[b] = payments[b]
      BY <1>3, StepShape DEF Quiet, Billed, Lapsed, Assigned, Cancelled, Opened, Settled
    <2>2. CASE bills[b] # Absent /\ bills[b].status = "paid"
      <3>1. b[1] \in Assignments /\ assignments[b[1]] # Absent
        BY <2>2, BillLinks, AbsentAssumption
      <3>2. bills'[b] = bills[b] /\ LeaseKept(b[1])
        BY <1>1, <2>2, <3>1 DEF AllKept, BillsKept, BillKept, LeasesKept
      <3>3. AgreedPayment(assignments'[b[1]]) = AgreedPayment(assignments[b[1]])
        BY <3>2 DEF AgreedPayment, LeaseKept
      <3>4. QED
        BY <1>1, <2>1, <2>2, <3>2, <3>3 DEF PaidAsAgreed
    <2>3. CASE ~(bills[b] # Absent /\ bills[b].status = "paid")
      <3>1. ~(bills'[b] # Absent /\ bills'[b].status = "paid")
        BY <1>3, <2>3, PaidBySettling
      <3>2. QED
        BY <1>1, <2>1, <2>3, <3>1 DEF PaidAsAgreed
    <2>4. QED
      BY <2>2, <2>3
  <1>4. QED
    BY <1>2, <1>3

\* No bill is paid twice, in part, with another amount or by another party (BR-019, BR-028
\* to BR-030), however payments, checkouts and cancellations of a bill race.
THEOREM PaidOnce == Spec => []PaidOnceInFull
  <1>1. Init => PaidOnceInFull
    BY DEF Init, PaidOnceInFull
  <1>2. Base /\ RentAgreed /\ PaidOnceInFull /\ [Next]_vars => PaidOnceInFull'
    BY PaidStep
  <1>3. QED
    BY <1>1, <1>2, BaseInvariant, RentAlwaysAgreed, PTL DEF Spec

-----------------------------------------------------------------------------
(* Cancelled onboardings *)

CancelledBills ==
    \A b \in BillKeys :
        bills[b] # Absent /\ assignments[b[1]].status = "cancelled" => bills[b].status = "cancelled"

LEMMA CancelledBillsStep ==
    ASSUME Base, FirstPaymentGatesTenancy, CancelledBills, [Next]_vars
    PROVE  CancelledBills'
  <1> SUFFICES ASSUME NEW b \in BillKeys, bills'[b] # Absent,
                      assignments'[b[1]].status = "cancelled"
               PROVE  bills'[b].status = "cancelled"
    BY DEF CancelledBills
  <1> AllKept
    BY StepKeeps
  <1>1. b[1] \in Assignments /\ b[2] \in Months /\ b = <<b[1], b[2]>>
    BY KeyParts
  <1>2. CASE Quiet \/ Billed \/ Lapsed
    BY <1>2 DEF Quiet, Billed, Lapsed, CancelledBills
  <1>3. ASSUME NEW c \in BillKeys, Settled(c) \/ Opened(c)
        PROVE  bills'[b].status = "cancelled"
    BY <1>1, <1>3 DEF Settled, Opened, NeedsCheckout, CancelledBills, Collectible
  <1>4. ASSUME NEW a \in Assignments, NEW m \in Months, Assigned(a, m)
        PROVE  bills'[b].status = "cancelled"
    <2>1. b[1] # a
      BY <1>4 DEF Assigned
    <2>2. QED
      BY <1>1, <1>4, <2>1 DEF Assigned, CancelledBills
  <1>5. ASSUME NEW a \in Assignments, Cancelled(a) PROVE bills'[b].status = "cancelled"
    <2>1. CASE b[1] # a
      BY <1>1, <1>5, <2>1 DEF Cancelled, CancelledBills
    <2>2. CASE b[1] = a
      <3>1. bills[b] # Absent
        BY <1>5, <2>2 DEF Cancelled
      <3>2. PendingOwesFirst(a) /\ assignments[a].status = "pending_payment"
        BY <1>5, FirstPaidMeaning DEF Cancelled, FirstPaid
      <3>3. bills[b].status \in Collectible
        BY <1>1, <2>2, <3>1, <3>2 DEF PendingOwesFirst
      <3>4. QED
        BY <1>5, <2>2, <3>1, <3>3 DEF Cancelled
    <2>3. QED
      BY <2>1, <2>2
  <1>6. QED
    BY <1>2, <1>3, <1>4, <1>5, StepShape

\* A cancelled onboarding leaves nothing to collect and has taken no money.
THEOREM CancelledOwes == Spec => []CancelledOwesNothing
  <1>1. Init => CancelledBills
    BY DEF Init, CancelledBills
  <1>2. Base /\ FirstPaymentGatesTenancy /\ CancelledBills /\ [Next]_vars => CancelledBills'
    BY CancelledBillsStep
  <1>3. CancelledBills /\ PaidOnceInFull => CancelledOwesNothing
    BY DEF CancelledBills, PaidOnceInFull, CancelledOwesNothing
  <1>4. QED
    BY <1>1, <1>2, <1>3, BaseInvariant, FirstPaymentGates, PaidOnce, PTL DEF Spec

-----------------------------------------------------------------------------
(* Checkouts *)

\* A strengthening that OneOpenCheckout needs: a bill that is unpaid or overdue has never
\* had a checkout, one that is gateway_pending has.  PayBill looks for an open checkout only
\* in the second case.  The documents let a bill return from gateway_pending (BR-018,
\* BR-027); no code does it, and with such code this fact would go.
CheckoutMovesBill ==
    \A b \in BillKeys :
        /\ bills[b] = Absent \/ bills[b].status \in {"unpaid", "overdue"} => checkouts[b] = <<>>
        /\ bills[b] # Absent /\ bills[b].status = "gateway_pending" => checkouts[b] # <<>>

LEMMA CheckoutMovesStep ==
    ASSUME Base, CheckoutMovesBill, [Next]_vars
    PROVE  CheckoutMovesBill'
  <1> SUFFICES ASSUME NEW b \in BillKeys
               PROVE  /\ bills'[b] = Absent \/ bills'[b].status \in {"unpaid", "overdue"} =>
                             checkouts'[b] = <<>>
                      /\ bills'[b] # Absent /\ bills'[b].status = "gateway_pending" =>
                             checkouts'[b] # <<>>
    BY DEF CheckoutMovesBill
  <1> DEFINE Goal == /\ bills'[b] = Absent \/ bills'[b].status \in {"unpaid", "overdue"} =>
                             checkouts'[b] = <<>>
                     /\ bills'[b] # Absent /\ bills'[b].status = "gateway_pending" =>
                             checkouts'[b] # <<>>
  <1>1. ASSUME bills'[b] = bills[b], checkouts'[b] = checkouts[b] PROVE Goal
    BY <1>1 DEF CheckoutMovesBill
  <1>2. CASE Quiet
    BY <1>1, <1>2 DEF Quiet
  <1>3. CASE Billed
    <2>1. ASSUME NEW row, NEW m PROVE NewBill(row, m).status = "unpaid"
      BY DEF NewBill
    <2>2. bills'[b] = bills[b] \/ (bills[b] = Absent /\ bills'[b].status = "unpaid")
      BY <1>3, <2>1 DEF Billed
    <2>3. checkouts'[b] = checkouts[b]
      BY <1>3 DEF Billed
    <2>4. QED
      BY <1>1, <2>2, <2>3 DEF CheckoutMovesBill
  <1>4. CASE Lapsed
    BY <1>1, <1>4 DEF Lapsed, CheckoutMovesBill
  <1>5. ASSUME NEW a \in Assignments, NEW m \in Months, Assigned(a, m) PROVE Goal
    <2>1. NewBill(assignments'[a], m) # Absent /\ NewBill(assignments'[a], m).status = "unpaid"
      BY <1>5, NewBillType, AbsentAssumption DEF Assigned, NewBill
    <2>2. CASE b = <<a, m>>
      BY <1>5, <2>1, <2>2 DEF Assigned, CheckoutMovesBill
    <2>3. CASE b # <<a, m>>
      BY <1>1, <1>5, <2>3 DEF Assigned
    <2>4. QED
      BY <2>2, <2>3
  <1>6. ASSUME NEW a \in Assignments, Cancelled(a) PROVE Goal
    BY <1>1, <1>6 DEF Cancelled
  <1>7. ASSUME NEW c \in BillKeys, Settled(c) PROVE Goal
    BY <1>1, <1>7 DEF Settled
  <1>8. ASSUME NEW c \in BillKeys, Opened(c) PROVE Goal
    <2>1. CASE c = b
      <3>1. checkouts[b] \in Seq(Checkout)
        BY DEF Base, TypeOK
      <3>2. checkouts'[b] # <<>>
        BY <1>8, <2>1, <3>1 DEF Opened
      <3>3. QED
        BY <1>8, <2>1, <3>2 DEF Opened
    <2>2. CASE c # b
      BY <1>1, <1>8, <2>2 DEF Opened
    <2>3. QED
      BY <2>1, <2>2
  <1>9. QED
    BY <1>2, <1>3, <1>4, <1>5, <1>6, <1>7, <1>8, StepShape

\* At this commit a bill with a checkout never counts as unpaid again, so PayBill's fresh
\* checkout of an unpaid bill finds none open.
LEMMA CheckoutMoves == Spec => []CheckoutMovesBill
  <1>1. Init => CheckoutMovesBill
    BY DEF Init, CheckoutMovesBill
  <1>2. Base /\ CheckoutMovesBill /\ [Next]_vars => CheckoutMovesBill'
    BY CheckoutMovesStep
  <1>3. QED
    BY <1>1, <1>2, BaseInvariant, PTL DEF Spec

\* Every checkout of a bill but its last has expired.
OlderExpired ==
    \A b \in BillKeys : \A i \in 1..Len(checkouts[b]) :
        i # Len(checkouts[b]) => checkouts[b][i].expires <= today

LEMMA OlderExpiredStep ==
    ASSUME Base, CheckoutMovesBill, OlderExpired, [Next]_vars
    PROVE  OlderExpired'
  <1> SUFFICES ASSUME NEW b \in BillKeys, NEW i \in 1..Len(checkouts'[b]), i # Len(checkouts'[b])
               PROVE  checkouts'[b][i].expires <= today'
    BY DEF OlderExpired
  <1>1. checkouts[b] \in Seq(Checkout) /\ today \in Int
    BY DEF Base, TypeOK
  <1>2. today' \in {today, today + 1}
    BY StepShape DEF Quiet, Billed, Lapsed, Assigned, Cancelled, Settled, Opened
  <1>3. CASE checkouts'[b] = checkouts[b]
    <2>1. checkouts[b][i] \in Checkout /\ checkouts[b][i].expires <= today
      BY <1>1, <1>3 DEF OlderExpired
    <2>2. checkouts[b][i].expires \in Int
      BY <2>1 DEF Checkout
    <2>3. QED
      BY <1>1, <1>2, <1>3, <2>1, <2>2
  <1>4. CASE checkouts'[b] # checkouts[b]
    <2>1. Opened(b)
      BY <1>4, StepShape DEF Quiet, Billed, Lapsed, Assigned, Cancelled, Settled, Opened
    <2>2. PICK new \in Checkout : checkouts'[b] = Append(checkouts[b], new)
      BY <2>1 DEF Opened
    <2>3. i \in 1..Len(checkouts[b]) /\ checkouts'[b][i] = checkouts[b][i]
      BY <1>1, <2>2
    <2>4. LiveCheckouts(b) = {}
      <3>1. bills[b] # Absent /\ NeedsCheckout(b)
        BY <2>1 DEF Opened
      <3>2. checkouts[b] # <<>>
        BY <1>1, <2>3
      <3>3. QED
        BY <3>1, <3>2 DEF NeedsCheckout, CheckoutMovesBill
    <2>5. i \notin LiveCheckouts(b) /\ i \in DOMAIN checkouts[b]
      BY <1>1, <2>3, <2>4
    <2>6. checkouts[b][i] \in Checkout
      BY <1>1, <2>3
    <2>7. checkouts[b][i].expires \in Int
      BY <2>6 DEF Checkout
    <2>8. ~(checkouts[b][i].expires > today)
      BY <2>5 DEF LiveCheckouts
    <2>9. QED
      BY <1>1, <2>1, <2>3, <2>7, <2>8 DEF Opened
  <1>5. QED
    BY <1>3, <1>4

LEMMA OneLive ==
    ASSUME Base, OlderExpired
    PROVE  OneOpenCheckout
  <1> SUFFICES ASSUME NEW b \in BillKeys, NEW i \in LiveCheckouts(b)
               PROVE  i = Len(checkouts[b])
    BY DEF OneOpenCheckout
  <1>1. checkouts[b] \in Seq(Checkout) /\ today \in Int
    BY DEF Base, TypeOK
  <1>2. i \in 1..Len(checkouts[b]) /\ checkouts[b][i].expires > today
    BY <1>1 DEF LiveCheckouts
  <1>3. checkouts[b][i] \in Checkout
    BY <1>1, <1>2
  <1>4. checkouts[b][i].expires \in Int
    BY <1>3 DEF Checkout
  <1>5. QED
    BY <1>1, <1>2, <1>4 DEF OlderExpired

\* A bill never has two checkouts open at once (BR-021), although PayBill looks for an open
\* one only when the bill is gateway_pending.
THEOREM OneCheckout == Spec => []OneOpenCheckout
  <1>1. Init => OlderExpired
    BY DEF Init, OlderExpired
  <1>2. Base /\ CheckoutMovesBill /\ OlderExpired /\ [Next]_vars => OlderExpired'
    BY OlderExpiredStep
  <1>3. Base /\ OlderExpired => OneOpenCheckout
    BY OneLive
  <1>4. QED
    BY <1>1, <1>2, <1>3, BaseInvariant, CheckoutMoves, PTL DEF Spec

-----------------------------------------------------------------------------
(* Due dates *)

LEMMA OverdueStep ==
    ASSUME Base, OverdueOnlyWhenLate, [Next]_vars
    PROVE  OverdueOnlyWhenLate'
  <1> SUFFICES ASSUME NEW b \in BillKeys, bills'[b] # Absent
               PROVE  /\ bills'[b].due <= LastDay[b[2]]
                      /\ bills'[b].status = "overdue" => bills'[b].due < today'
    BY DEF OverdueOnlyWhenLate
  <1>1. AllKept /\ today \in Int
    BY StepKeeps DEF Base, TypeOK
  <1>2. today' \in {today, today + 1}
    BY StepShape DEF Quiet, Billed, Lapsed, Assigned, Cancelled, Settled, Opened
  <1>3. CASE bills[b] = Absent
    <2>1. /\ assignments'[b[1]] \in Assignment /\ b[2] \in Months
          /\ bills'[b] = NewBill(assignments'[b[1]], b[2])
      BY <1>1, <1>3, KeyParts, StepTypes, AbsentAssumption DEF AllKept, NewBillsLinked, TypeOK
    <2>2. bills'[b].due = DueDate(b[2], assignments'[b[1]].dueDay) /\ bills'[b].status = "unpaid"
      BY <2>1 DEF NewBill
    <2>3. DueDate(b[2], assignments'[b[1]].dueDay) <= LastDay[b[2]]
      <3>1. ASSUME NEW d \in DueDays PROVE d \in Int
        BY CalendarAssumption
      <3>2. /\ assignments'[b[1]].dueDay \in Int
            /\ FirstDay[b[2]] \in Int /\ LastDay[b[2]] \in Int
        BY <2>1, <3>1, CalendarAssumption DEF Assignment
      <3>3. QED
        BY <3>2 DEF DueDate
    <2>4. QED
      BY <2>2, <2>3
  <1>4. CASE bills[b] # Absent
    <2>1. bills'[b].due = bills[b].due /\ bills[b].due \in Int
      BY <1>1, <1>4, RowTypes DEF Base, AllKept, BillsKept, BillKept, Bill
    <2>2. bills'[b].status = "overdue" => bills'[b] = bills[b] \/ bills[b].due < today
      <3>1. ASSUME NEW a \in Assignments, NEW m \in Months, Assigned(a, m), b # <<a, m>>
            PROVE  bills'[b] = bills[b]
        BY <3>1 DEF Assigned
      <3>2. ASSUME NEW a \in Assignments, NEW m \in Months, Assigned(a, m) PROVE b # <<a, m>>
        BY <1>4, <3>2 DEF Assigned
      <3>3. QED
        BY <1>4, <3>1, <3>2, StepShape DEF Quiet, Billed, Lapsed, Cancelled, Settled, Opened
    <2>3. QED
      BY <1>1, <1>2, <1>4, <2>1, <2>2 DEF OverdueOnlyWhenLate
  <1>5. QED
    BY <1>3, <1>4

\* A bill is overdue only once its due day, never past the end of its month, is over.
THEOREM OverdueIsLate == Spec => []OverdueOnlyWhenLate
  <1>1. Init => OverdueOnlyWhenLate
    BY DEF Init, OverdueOnlyWhenLate
  <1>2. Base /\ OverdueOnlyWhenLate /\ [Next]_vars => OverdueOnlyWhenLate'
    BY OverdueStep
  <1>3. QED
    BY <1>1, <1>2, BaseInvariant, PTL DEF Spec

-----------------------------------------------------------------------------
(* What is settled stays *)

Final ==
    /\ \A b \in BillKeys : bills[b] # Absent =>
         /\ bills'[b] # Absent
         /\ bills'[b].amount = bills[b].amount /\ bills'[b].due = bills[b].due
         /\ bills[b].status \in {"paid", "cancelled"} =>
               bills'[b] = bills[b] /\ payments'[b] = payments[b]
    /\ \A a \in Assignments : assignments[a] # Absent =>
         /\ assignments'[a] # Absent
         /\ assignments'[a].rent = assignments[a].rent
         /\ assignments[a].status # "pending_payment" => assignments'[a] = assignments[a]

LEMMA StepIsFinal == ASSUME Base, [Next]_vars PROVE Final
  <1>1. AllKept
    BY StepKeeps
  <1>2. ASSUME NEW b \in BillKeys, bills[b] # Absent, bills[b].status \in {"paid", "cancelled"}
        PROVE  payments'[b] = payments[b]
    BY <1>2, StepShape
       DEF Quiet, Billed, Lapsed, Assigned, Cancelled, Settled, Opened, Collectible
  <1>3. QED
    BY <1>1, <1>2 DEF Final, AllKept, BillsKept, BillKept, LeasesKept, LeaseKept

\* No step rewrites a settled bill, its payments, a decided lease or an agreed term.
THEOREM FinalHistory == Spec => HistoryIsFinal
  <1>1. Base /\ [Next]_vars => [Final]_vars
    BY StepIsFinal
  <1>2. [][Final]_vars => HistoryIsFinal
    BY DEF Final, HistoryIsFinal
  <1>3. QED
    BY <1>1, <1>2, BaseInvariant, PTL DEF Spec

-----------------------------------------------------------------------------
(* Active tenants *)

LEMMA TenantUpdateEffect ==
    ASSUME TypeOK, NEW o, NEW t \in Tenants, NEW s \in TenantStatus, UpdateTenantStatus(o, t, s)
    PROVE  /\ tenants[t] # Absent /\ tenants'[t].status = s
           /\ \A x \in Tenants \ {t} : tenants'[x] = tenants[x]
  <1>1. tenants[t] \in Tenant /\ tenants[t] # Absent /\ tenants' = [tenants EXCEPT ![t].status = s]
    BY RowTypes DEF UpdateTenantStatus, TenantVisible
  <1>2. QED
    BY <1>1 DEF TypeOK, Tenant

\* Only the activation of a lease makes a tenant active.
TenantStays(x) ==
    tenants[x] # Absent /\ tenants'[x].status = tenants[x].status

LEMMA TenantActivation ==
    ASSUME Base, [Next]_vars, NEW x \in Tenants, tenants'[x] # Absent,
           tenants'[x].status = "active"
    PROVE  \/ TenantStays(x)
           \/ \E a \in Assignments : /\ assignments'[a] # Absent
                                     /\ assignments'[a].tenant = x
                                     /\ assignments'[a].status = "active"
  <1> TypeOK
    BY DEF Base
  <1>1. ASSUME UNCHANGED tenants PROVE TenantStays(x)
    BY <1>1 DEF TenantStays
  <1>2. CASE Manage
    <2>1. ASSUME NEW o \in Owners, NEW t \in Tenants, CreateTenant(o, t) PROVE TenantStays(x)
      BY <2>1 DEF CreateTenant, TypeOK, TenantStays
    <2>2. ASSUME NEW o \in Owners, NEW t \in Tenants, NEW s \in PatchableTenantStatuses,
                 PatchTenant(o, t, s)
          PROVE  TenantStays(x)
      BY <2>2, TenantUpdateEffect DEF PatchTenant, PatchableTenantStatuses, TenantStatus, TenantStays
    <2>3. ASSUME NEW o \in Owners, NEW t \in Tenants, DeleteTenant(o, t) PROVE TenantStays(x)
      <3>1. tenants[t] \in Tenant /\ tenants[t] # Absent
        BY <2>3, RowTypes DEF DeleteTenant, TenantVisible
      <3>2. QED
        BY <2>3, <3>1 DEF DeleteTenant, TypeOK, Tenant, TenantStays
    <2>4. QED
      BY <1>1, <1>2, <2>1, <2>2, <2>3
         DEF Manage, ManageRooms, ManageTenants, CreateRoom, PatchRoom, CheckRoomDelete, SoftDeleteRoom, leases
  <1>3. CASE Onboard
    <2>1. ASSUME NEW o \in Owners, NEW t \in Tenants, UpdateTenantStatus(o, t, "pending_payment")
          PROVE  TenantStays(x)
      BY <2>1, TenantUpdateEffect DEF TenantStatus, TenantStays
    <2>2. ASSUME NEW o \in Owners, NEW a \in Assignments, CancelOnboarding(o, a)
          PROVE  TenantStays(x)
      <3>1. assignments[a].tenant \in Tenants
        BY <2>2, RowTypes DEF CancelOnboarding, AssignmentOf, Assignment
      <3>2. QED
        BY <2>1, <2>2, <3>1 DEF CancelOnboarding
    <2>3. ASSUME NEW o \in Owners, NEW a \in Assignments, NEW r \in Rooms, NEW t \in Tenants,
                 NEW rent \in Rents, NEW d \in DueDays, NEW m \in Months,
                 AssignRoom(o, a, r, t, rent, d, m)
          PROVE  TenantStays(x)
      <3>1. UpdateTenantStatus(o, t, "pending_payment")
        BY <2>3 DEF AssignRoom
      <3>2. QED
        BY <2>1, <3>1
    <2>4. QED
      BY <1>3, <2>2, <2>3 DEF Onboard
  <1>4. CASE Billing
    BY <1>1, <1>4 DEF Billing, ReadActiveAssignments, InsertMonthlyBills, MarkOverdue, leases
  <1>5. ASSUME NEW o \in Owners, NEW b \in BillKeys, NEW amount \in Rents,
               RecordManual(o, b, amount), ~TenantStays(x)
        PROVE  /\ b[1] \in Assignments /\ assignments'[b[1]] # Absent
               /\ assignments'[b[1]].tenant = x /\ assignments'[b[1]].status = "active"
    <2>1. ActivateTenancy(o, b) /\ bills[b] # Absent
      BY <1>5 DEF RecordManual, SettleInFull, Payable, BillOf
    <2>2. /\ b[1] \in Assignments /\ assignments[b[1]] # Absent
          /\ bills[b].tenant = assignments[b[1]].tenant /\ bills[b].tenant \in Tenants
      BY <2>1, BillLinks, RowTypes, AbsentAssumption DEF Bill
    <2>3. /\ assignments[b[1]].status = "pending_payment"
          /\ UpdateTenantStatus(o, bills[b].tenant, "active")
      BY <1>1, <1>5, <2>1 DEF ActivateTenancy, leases
    <2>4. bills[b].tenant = x
      <3>1. ASSUME NEW t \in Tenants, UpdateTenantStatus(o, t, "active"), x # t PROVE TenantStays(x)
        BY <3>1, TenantUpdateEffect DEF TenantStatus, TenantStays
      <3>2. QED
        BY <1>5, <2>2, <2>3, <3>1
    <2>5. assignments'[b[1]].status = "active"
      BY <1>5, <2>3, RecordShape DEF Settled
    <2>6. LeaseKept(b[1])
      BY <2>2, StepKeeps DEF AllKept, LeasesKept
    <2>7. QED
      BY <2>2, <2>4, <2>5, <2>6 DEF LeaseKept
  <1>6. CASE Pay
    <2>1. CASE \E o \in Owners, b \in BillKeys, amount \in Rents : RecordManual(o, b, amount)
      BY <1>5, <2>1
    <2>2. CASE \E o \in Owners, b \in BillKeys, t \in Tenants : PayBill(o, t, b)
      BY <1>1, <2>2 DEF PayBill, TenantBillOf, leases
    <2>3. QED
      BY <1>6, <2>1, <2>2 DEF Pay
  <1>7. CASE Tick \/ UNCHANGED vars
    BY <1>1, <1>7 DEF Tick, vars, leases
  <1>8. QED
    BY <1>2, <1>3, <1>4, <1>6, <1>7 DEF Next

LEMMA ActiveTenantStep ==
    ASSUME Base, ActiveTenantHasTenancy, [Next]_vars
    PROVE  ActiveTenantHasTenancy'
  <1> SUFFICES ASSUME NEW x \in Tenants, tenants'[x] # Absent, tenants'[x].status = "active"
               PROVE  \E a \in Assignments : /\ assignments'[a] # Absent
                                             /\ assignments'[a].tenant = x
                                             /\ assignments'[a].status = "active"
    BY DEF ActiveTenantHasTenancy
  <1>1. CASE TenantStays(x)
    <2>1. PICK a \in Assignments : /\ assignments[a] # Absent
                                   /\ assignments[a].tenant = x /\ assignments[a].status = "active"
      BY <1>1 DEF TenantStays, ActiveTenantHasTenancy
    <2>2. assignments'[a] = assignments[a]
      BY <2>1, StepKeeps DEF AllKept, LeasesKept, LeaseKept
    <2>3. QED
      BY <2>1, <2>2
  <1>2. CASE ~TenantStays(x)
    BY <1>2, TenantActivation
  <1>3. QED
    BY <1>1, <1>2

\* A tenant is active only behind an active lease (BR-008), whatever the owner patches.
THEOREM ActiveTenantTenancy == Spec => []ActiveTenantHasTenancy
  <1>1. Init => ActiveTenantHasTenancy
    BY DEF Init, ActiveTenantHasTenancy
  <1>2. Base /\ ActiveTenantHasTenancy /\ [Next]_vars => ActiveTenantHasTenancy'
    BY ActiveTenantStep
  <1>3. QED
    BY <1>1, <1>2, BaseInvariant, PTL DEF Spec

-----------------------------------------------------------------------------
(* Room statuses *)

LEMMA RoomUpdateEffect ==
    ASSUME TypeOK, NEW o, NEW r \in Rooms, NEW s \in RoomStatus, UpdateRoomStatus(o, r, s)
    PROVE  /\ rooms[r] # Absent /\ rooms'[r].status = s
           /\ \A x \in Rooms \ {r} : rooms'[x] = rooms[x]
  <1>1. rooms[r] \in Room /\ rooms[r] # Absent /\ rooms' = [rooms EXCEPT ![r].status = s]
    BY RowTypes DEF UpdateRoomStatus, RoomVisible
  <1>2. QED
    BY <1>1 DEF TypeOK, Room

\* A step that moves one lease and sets its room.
LEMMA OneLeaseMoves ==
    ASSUME NEW a \in Assignments, assignments'[a] # assignments[a],
           \A x \in Assignments \ {a} : assignments'[x] = assignments[x],
           rooms'[assignments'[a].room].status = RoomFor[assignments'[a].status],
           \A r \in Rooms \ {assignments'[a].room} : rooms'[r] = rooms[r]
    PROVE  RoomFollows
  <1>1. {x \in Assignments : assignments'[x] # assignments[x]} = {a}
    OBVIOUS
  <1>2. QED
    BY <1>1 DEF RoomFollows

\* A step that moves no lease, and rooms to statuses that a PATCH carries.
LEMMA NoLeaseMoves ==
    ASSUME UNCHANGED assignments,
           \A r \in Rooms : rooms[r] # Absent =>
              rooms'[r].status = rooms[r].status \/ rooms'[r].status \in PatchableRoomStatuses
    PROVE  RoomFollows
  <1>1. {x \in Assignments : assignments'[x] # assignments[x]} = {}
    OBVIOUS
  <1>2. QED
    BY <1>1 DEF RoomFollows

LEMMA FollowsManage == ASSUME Base, Manage PROVE RoomFollows
  <1> TypeOK
    BY DEF Base
  <1>1. UNCHANGED assignments
    BY ManageKeeps
  <1>2. CASE UNCHANGED rooms
    BY <1>1, <1>2, NoLeaseMoves
  <1>3. ASSUME NEW o \in Owners, NEW q \in Rooms,
               NEW s \in {"available", "maintenance", "inactive"}, CreateRoom(o, q, s)
        PROVE  RoomFollows
    <2>1. \A r \in Rooms : rooms[r] # Absent => rooms'[r] = rooms[r]
      BY <1>3 DEF CreateRoom, TypeOK
    <2>2. QED
      BY <1>1, <2>1, NoLeaseMoves
  <1>4. ASSUME NEW o \in Owners, NEW q \in Rooms, NEW s \in PatchableRoomStatuses,
               PatchRoom(o, q, s)
        PROVE  RoomFollows
    <2>1. rooms'[q].status = s /\ \A r \in Rooms \ {q} : rooms'[r] = rooms[r]
      BY <1>4, RoomUpdateEffect, StatusAssumption DEF PatchRoom
    <2>2. QED
      BY <1>1, <2>1, NoLeaseMoves
  <1>5. ASSUME NEW q \in Rooms, SoftDeleteRoom(q) PROVE RoomFollows
    <2>1. rooms[q] \in Room
      BY <1>5, RowTypes DEF SoftDeleteRoom
    <2>2. rooms'[q].status = rooms[q].status /\ \A r \in Rooms \ {q} : rooms'[r] = rooms[r]
      BY <1>5, <2>1 DEF SoftDeleteRoom, TypeOK, Room
    <2>3. QED
      BY <1>1, <2>2, NoLeaseMoves
  <1>6. QED
    BY <1>2, <1>3, <1>4, <1>5
       DEF Manage, ManageRooms, ManageTenants, CheckRoomDelete, CreateTenant, PatchTenant,
           DeleteTenant, leases

LEMMA FollowsAssign ==
    ASSUME Base, NEW o \in Owners, NEW a \in Assignments, NEW r \in Rooms, NEW t \in Tenants,
           NEW rent \in Rents, NEW d \in DueDays, NEW m \in Months,
           AssignRoom(o, a, r, t, rent, d, m)
    PROVE  RoomFollows
  <1> TypeOK
    BY DEF Base
  <1>1. PICK row \in Assignment :
           /\ row.owner = o /\ row.room = r /\ row.tenant = t
           /\ row.start = m /\ row.status = "pending_payment"
           /\ assignments[a] = Absent
           /\ assignments' = [assignments EXCEPT ![a] = row]
           /\ bills' = [bills EXCEPT ![<<a, m>>] = NewBill(row, m)]
    BY AssignEffect
  <1>2. assignments'[a] = row /\ \A x \in Assignments \ {a} : assignments'[x] = assignments[x]
    BY <1>1 DEF TypeOK
  <1>3. UpdateRoomStatus(o, r, "reserved")
    BY DEF AssignRoom
  <1>4. rooms'[r].status = "reserved" /\ \A x \in Rooms \ {r} : rooms'[x] = rooms[x]
    BY <1>3, RoomUpdateEffect DEF RoomStatus
  <1>5. row # Absent /\ RoomFor[row.status] = "reserved"
    BY <1>1, AbsentAssumption DEF RoomFor
  <1>6. QED
    BY <1>1, <1>2, <1>4, <1>5, OneLeaseMoves

LEMMA FollowsCancel ==
    ASSUME Base, NEW o \in Owners, NEW a \in Assignments, CancelOnboarding(o, a)
    PROVE  RoomFollows
  <1> TypeOK
    BY DEF Base
  <1>1. /\ assignments[a] # Absent /\ assignments[a].status = "pending_payment"
        /\ assignments[a].room \in Rooms
        /\ UpdateRoomStatus(o, assignments[a].room, "available")
    BY RowTypes DEF CancelOnboarding, AssignmentOf, Assignment
  <1>2. /\ assignments'[a].status = "cancelled"
        /\ \A x \in Assignments \ {a} : assignments'[x] = assignments[x]
    BY CancelShape DEF Cancelled
  <1>3. assignments'[a].room = assignments[a].room
    BY <1>1, CancelKeeps DEF AllKept, LeasesKept, LeaseKept
  <1>4. /\ rooms'[assignments[a].room].status = "available"
        /\ \A x \in Rooms \ {assignments[a].room} : rooms'[x] = rooms[x]
    BY <1>1, RoomUpdateEffect DEF RoomStatus
  <1>5. RoomFor["cancelled"] = "available"
    BY DEF RoomFor
  <1>6. assignments'[a] # assignments[a]
    BY <1>1, <1>2
  <1>7. QED
    BY <1>2, <1>3, <1>4, <1>5, <1>6, OneLeaseMoves

LEMMA FollowsRecord ==
    ASSUME Base, NEW o \in Owners, NEW b \in BillKeys, NEW amount \in Rents,
           RecordManual(o, b, amount)
    PROVE  RoomFollows
  <1> TypeOK
    BY DEF Base
  <1>1. ActivateTenancy(o, b) /\ bills[b] # Absent
    BY DEF RecordManual, SettleInFull, Payable, BillOf
  <1>2. /\ b[1] \in Assignments /\ assignments[b[1]] # Absent
        /\ bills[b].room = assignments[b[1]].room /\ bills[b].room \in Rooms
    BY <1>1, BillLinks, RowTypes, AbsentAssumption DEF Bill
  <1>3. CASE UNCHANGED leases
    BY <1>3, NoLeaseMoves DEF leases
  <1>4. CASE ~(UNCHANGED leases)
    <2>1. /\ assignments[b[1]].status = "pending_payment"
          /\ UpdateRoomStatus(o, bills[b].room, "occupied")
      BY <1>1, <1>4 DEF ActivateTenancy
    <2>2. /\ assignments'[b[1]].status = "active"
          /\ \A x \in Assignments \ {b[1]} : assignments'[x] = assignments[x]
      BY <2>1, RecordShape DEF Settled
    <2>3. assignments'[b[1]].room = bills[b].room
      BY <1>2, RecordKeeps DEF AllKept, LeasesKept, LeaseKept
    <2>4. /\ rooms'[bills[b].room].status = "occupied"
          /\ \A x \in Rooms \ {bills[b].room} : rooms'[x] = rooms[x]
      BY <1>2, <2>1, RoomUpdateEffect DEF RoomStatus
    <2>5. RoomFor["active"] = "occupied"
      BY DEF RoomFor
    <2>6. assignments'[b[1]] # assignments[b[1]]
      BY <2>1, <2>2
    <2>7. QED
      BY <1>2, <2>2, <2>3, <2>4, <2>5, <2>6, OneLeaseMoves
  <1>5. QED
    BY <1>3, <1>4

LEMMA FollowsStep == ASSUME Base, [Next]_vars PROVE RoomFollows
  <1>1. CASE UNCHANGED leases
    BY <1>1, NoLeaseMoves DEF leases
  <1>2. CASE Manage
    BY <1>2, FollowsManage
  <1>3. CASE Onboard
    BY <1>3, FollowsAssign, FollowsCancel DEF Onboard
  <1>4. CASE Billing
    BY <1>1, <1>4, BillingKeeps
  <1>5. CASE Pay
    BY <1>1, <1>5, FollowsRecord DEF Pay, PayBill
  <1>6. QED
    BY <1>1, <1>2, <1>3, <1>4, <1>5 DEF Next, Tick, vars

\* The step that enters, activates or cancels a lease sets that lease's room and no other
\* (BR-005, BR-006), whatever statuses the owner patches rooms to and when.
THEOREM RoomsFollow == Spec => RoomFollowsTenancy
  <1>1. Base /\ [Next]_vars => [RoomFollows]_vars
    BY FollowsStep
  <1>2. QED
    BY <1>1, BaseInvariant, PTL DEF Spec, RoomFollowsTenancy

=============================================================================
