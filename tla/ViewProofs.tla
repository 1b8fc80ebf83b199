----------------------------- MODULE ViewProofs -----------------------------
(***************************************************************************)
(* What is seen of Tenancy from outside, for every value of the constants: *)
(* the pages of the tenant portal agree, the overview of the dashboard     *)
(* reads the tables and loses no outstanding bill, and the leases and      *)
(* their charges move as the abstract specification Leases says, also when *)
(* transactions interleave.                                                *)
(***************************************************************************)
EXTENDS TenantPortal, Dashboard, LeaseRefinement, TransactionsSafety

-----------------------------------------------------------------------------
(* The pages of the tenant portal *)

\* A tenant's bill that is still to be collected belongs to a lease that is live.
LEMMA CollectibleIsLive ==
    ASSUME Base, CancelledOwesNothing, NEW o \in Owners, NEW t \in Tenants,
           NEW b \in ListTenantBills(o, t), bills[b].status \in Collectible
    PROVE  b[1] \in MyRoom(o, t)
  <1>1. /\ b \in BillKeys /\ bills[b] # Absent /\ bills[b].owner = o /\ bills[b].tenant = t
    BY DEF ListTenantBills, TenantBillOf, BillOf
  <1>2. /\ assignments[b[1]] \in Assignment /\ assignments[b[1]] # Absent
        /\ b[1] \in Assignments
        /\ assignments[b[1]].owner = o /\ assignments[b[1]].tenant = t
    BY <1>1, BillLinks, AbsentAssumption
  <1>3. assignments[b[1]].status \in LiveStatus
    BY <1>1, <1>2 DEF CancelledOwesNothing, Collectible, Assignment, AssignmentStatus, LiveStatus
  <1>4. QED
    BY <1>2, <1>3 DEF MyRoom, LiveForTenant, LiveAssignments, AssignmentOf

\* A tenant's payments are those of the tenant's paid bills.
LEMMA PaymentsArePaidBills ==
    ASSUME Base, PaidOnceInFull, NEW o \in Owners, NEW t \in Tenants, NEW b \in BillKeys
    PROVE  b \in ListPayments(o, t) <=> b \in ListTenantBills(o, t) /\ bills[b].status = "paid"
  <1>1. CASE bills[b] # Absent /\ bills[b].status = "paid"
    <2> DEFINE payment == [owner |-> assignments[b[1]].owner, room |-> assignments[b[1]].room,
                           tenant |-> assignments[b[1]].tenant, amount |-> assignments[b[1]].rent]
    <2>1. payments[b] = <<payment>>
      BY <1>1 DEF PaidOnceInFull
    <2>2. payment.owner = bills[b].owner /\ payment.tenant = bills[b].tenant
      BY <1>1, BillLinks
    <2> HIDE DEF payment
    <2>3. DOMAIN payments[b] = {1} /\ payments[b][1] = payment
      BY <2>1
    <2>4. QED
      BY <1>1, <2>2, <2>3 DEF ListPayments, ListTenantBills, TenantBillOf, BillOf
  <1>2. CASE ~(bills[b] # Absent /\ bills[b].status = "paid")
    <2>1. payments[b] = <<>>
      BY <1>2 DEF PaidOnceInFull
    <2>2. QED
      BY <1>2, <2>1 DEF ListPayments, ListTenantBills, TenantBillOf, BillOf
  <1>3. QED
    BY <1>1, <1>2

\* The pages of the tenant portal agree: one room, bills to pay for that room only, and a
\* payment for each paid bill.
THEOREM PortalAgrees == Spec => []PortalPagesAgree
  <1>1. ASSUME Base, RoomAndTenantExclusive, CancelledOwesNothing, PaidOnceInFull
        PROVE  PortalPagesAgree
    <2>1. ASSUME NEW o \in Owners, NEW t \in Tenants, NEW a \in MyRoom(o, t), NEW c \in MyRoom(o, t)
          PROVE  a = c
      BY <1>1, <2>1 DEF MyRoom, LiveForTenant, RoomAndTenantExclusive
    <2>2. ASSUME NEW o \in Owners, NEW t \in Tenants, NEW b \in ListTenantBills(o, t),
                 bills[b].status \in Collectible
          PROVE  b[1] \in MyRoom(o, t)
      BY <1>1, <2>2, CollectibleIsLive
    <2>3. ASSUME NEW o \in Owners, NEW t \in Tenants
          PROVE  ListPayments(o, t) = {b \in ListTenantBills(o, t) : bills[b].status = "paid"}
      <3>1. ListPayments(o, t) \subseteq BillKeys /\ ListTenantBills(o, t) \subseteq BillKeys
        BY DEF ListPayments, ListTenantBills
      <3>2. \A b \in BillKeys : b \in ListPayments(o, t)
                                <=> b \in ListTenantBills(o, t) /\ bills[b].status = "paid"
        BY <1>1, PaymentsArePaidBills
      <3>3. QED
        BY <3>1, <3>2
    <2>4. QED
      BY <2>1, <2>2, <2>3 DEF PortalPagesAgree
  <1>2. QED
    BY <1>1, BaseInvariant, ExclusiveTenancy, CancelledOwes, PaidOnce, PTL

-----------------------------------------------------------------------------
(* No onboarding is stuck.  The provers do not evaluate ENABLED: the guards  *)
(* of the two ways on are spelt out, each with the step it allows.           *)

MayCancel(o, a) ==
    /\ AssignmentOf(o, a) /\ assignments[a].status = "pending_payment"
    /\ RoomVisible(o, assignments[a].room) /\ TenantVisible(o, assignments[a].tenant)
MayPay(o, b, amount) ==
    /\ Payable(o, b, amount) /\ payments[b] = <<>>
    /\ assignments[b[1]].status = "pending_payment" =>
          RoomVisible(o, bills[b].room) /\ TenantVisible(o, bills[b].tenant)

LEMMA CancelAllowed ==
    ASSUME NEW o, NEW a, MayCancel(o, a), CancelUnpaidBills(a),
           assignments' = [assignments EXCEPT ![a].status = "cancelled"],
           rooms' = [rooms EXCEPT ![assignments[a].room].status = "available"],
           tenants' = [tenants EXCEPT ![assignments[a].tenant].status = "pending_payment"],
           UNCHANGED <<payments, checkouts, deleting, billRuns, today>>
    PROVE  CancelOnboarding(o, a)
  BY DEF MayCancel, CancelOnboarding, UpdateRoomStatus, UpdateTenantStatus

LEMMA PaymentAllowed ==
    ASSUME NEW o, NEW b, NEW amount, MayPay(o, b, amount),
           assignments[b[1]].status = "pending_payment",
           assignments' = [assignments EXCEPT ![b[1]].status = "active"],
           rooms' = [rooms EXCEPT ![bills[b].room].status = "occupied"],
           tenants' = [tenants EXCEPT ![bills[b].tenant].status = "active"],
           bills' = [bills EXCEPT ![b].status = "paid"],
           payments' = [payments EXCEPT ![b] = Append(@, PaymentFor(bills[b], amount))],
           UNCHANGED <<checkouts, deleting, billRuns, today>>
    PROVE  RecordManual(o, b, amount)
  BY DEF MayPay, RecordManual, SettleInFull, ActivateTenancy, UpdateRoomStatus, UpdateTenantStatus

PendingIsOpen ==
    \A a \in Assignments :
       assignments[a] # Absent /\ assignments[a].status = "pending_payment" =>
          LET o == assignments[a].owner IN
          RoomVisible(o, assignments[a].room) /\ TenantVisible(o, assignments[a].tenant) =>
             MayCancel(o, a) /\ \E m \in Months, amount \in Rents : MayPay(o, <<a, m>>, amount)

\* What StuckOnlyByDeletion says, with the guards in place of ENABLED: an onboarding whose
\* room and tenant are there can be cancelled, and its first bill can be paid.
THEOREM PendingNeverStuck == Spec => []PendingIsOpen
  <1>1. ASSUME Base, FirstPaymentGatesTenancy, PaidOnceInFull, RentAgreed PROVE PendingIsOpen
    <2> SUFFICES ASSUME NEW a \in Assignments, assignments[a] # Absent,
                        assignments[a].status = "pending_payment",
                        RoomVisible(assignments[a].owner, assignments[a].room),
                        TenantVisible(assignments[a].owner, assignments[a].tenant)
                 PROVE  /\ MayCancel(assignments[a].owner, a)
                        /\ \E m \in Months, amount \in Rents :
                              MayPay(assignments[a].owner, <<a, m>>, amount)
      BY DEF PendingIsOpen
    <2> DEFINE first == <<a, assignments[a].start>>
    <2>1. /\ assignments[a].start \in Months /\ assignments[a].rent \in Rents
          /\ first \in BillKeys /\ first[1] = a
      BY <1>1 DEF Base, TypeOK, Assignment, BillKeys
    <2>2. bills[first] # Absent /\ bills[first].status \in Collectible
      BY <1>1 DEF FirstPaymentGatesTenancy
    <2>3. /\ bills[first].owner = assignments[a].owner /\ bills[first].room = assignments[a].room
          /\ bills[first].tenant = assignments[a].tenant
      BY <1>1, <2>1, <2>2, BillLinks
    <2>4. bills[first].amount = assignments[a].rent
      BY <1>1, <2>1, <2>2 DEF RentAgreed
    <2>5. payments[first] = <<>>
      BY <1>1, <2>1, <2>2 DEF PaidOnceInFull, Collectible
    <2> HIDE DEF first
    <2>6. MayPay(assignments[a].owner, first, assignments[a].rent)
      BY <2>1, <2>2, <2>3, <2>4, <2>5 DEF MayPay, Payable, BillOf, Collectible
    <2>7. MayCancel(assignments[a].owner, a)
      BY DEF MayCancel, AssignmentOf
    <2>8. QED
      BY <2>1, <2>6, <2>7 DEF first
  <1>2. QED
    BY <1>1, BaseInvariant, FirstPaymentGates, PaidOnce, RentAlwaysAgreed, PTL

-----------------------------------------------------------------------------
(* The overview of the dashboard.  That it loses no bill needs where a       *)
(* counted bill can still be listed: among the statuses ahead of the list    *)
(* read last.                                                                *)

overviewVars == <<vars, overviews>>

-----------------------------------------------------------------------------
(* Requests only read *)

\* The dashboard changes no table: every behaviour with it is a behaviour of Tenancy.
LEMMA OverviewOnlyReads == OverviewSpec => Spec
  <1>1. OverviewInit => Init
    BY DEF OverviewInit
  <1>2. [OverviewNext]_overviewVars => [Next]_vars
    BY DEF OverviewNext, CountBills, ListBills, AbortOverview, overviewVars, vars, leases, money
  <1>3. QED
    BY <1>1, <1>2, PTL DEF OverviewSpec, Spec, overviewVars

LEMMA OverviewBase == OverviewSpec => []Base
  BY OverviewOnlyReads, BaseInvariant, PTL

-----------------------------------------------------------------------------
(* Types *)

LEMMA OverviewRow ==
    ASSUME OverviewTypeOK, NEW o \in Owners, overviews[o] # Absent
    PROVE  /\ overviews[o] \in Overview /\ overviews[o].read \in 0 .. 3
           /\ overviews[o].counted \subseteq BillKeys /\ overviews[o].listed \subseteq BillKeys
  BY DEF OverviewTypeOK, Overview, ListOrder

LEMMA CountEffect ==
    ASSUME OverviewTypeOK, NEW o \in Owners, CountBills(o)
    PROVE  /\ OverviewTypeOK' /\ UNCHANGED vars
           /\ overviews'[o].counted = Summary(o) /\ overviews'[o].read = 0
           /\ \A p \in Owners \ {o} : overviews'[p] = overviews[p]
  <1> DEFINE v == [counted |-> Summary(o), read |-> 0, listed |-> {}]
  <1>1. Summary(o) \subseteq BillKeys
    BY DEF Summary, BillsWithStatus
  <1>2. v \in Overview
    BY <1>1 DEF Overview, ListOrder
  <1>3. UNCHANGED vars /\ overviews' = [overviews EXCEPT ![o] = v]
    BY DEF CountBills
  <1>4. QED
    BY <1>2, <1>3 DEF OverviewTypeOK

LEMMA ListEffect ==
    ASSUME OverviewTypeOK, NEW o \in Owners, ListBills(o)
    PROVE  LET v == overviews[o] IN
           /\ OverviewTypeOK' /\ UNCHANGED vars /\ v # Absent /\ v.read \in 0 .. 2
           /\ overviews'[o].counted = v.counted /\ overviews'[o].read = v.read + 1
           /\ overviews'[o].listed = v.listed \cup BillsWithStatus(o, ListOrder[v.read + 1])
           /\ \A p \in Owners \ {o} : overviews'[p] = overviews[p]
  <1> DEFINE v    == overviews[o]
             seen == v.listed \cup BillsWithStatus(o, ListOrder[v.read + 1])
             w    == [v EXCEPT !.read = v.read + 1, !.listed = seen]
  <1>1. v \in Overview /\ v # Absent /\ v.read \in 0 .. 2
    BY OverviewRow DEF ListBills, Overview, ListOrder
  <1>2. seen \subseteq BillKeys
    BY <1>1 DEF BillsWithStatus, Overview
  <1>3. w \in Overview
    <2>1. v.read + 1 \in 0 .. 3 /\ Len(ListOrder) = 3
      BY <1>1 DEF ListOrder
    <2> HIDE DEF seen
    <2>2. QED
      BY <1>1, <1>2, <2>1 DEF Overview
  <1>4. UNCHANGED vars /\ overviews' = [overviews EXCEPT ![o] = w]
    BY DEF ListBills
  <1>5. overviews'[o] = w /\ \A p \in Owners \ {o} : overviews'[p] = overviews[p]
    BY <1>4 DEF OverviewTypeOK
  <1>6. w.counted = v.counted /\ w.read = v.read + 1 /\ w.listed = seen
    BY <1>1 DEF Overview
  <1>7. OverviewTypeOK'
    BY <1>3, <1>4 DEF OverviewTypeOK
  <1>8. QED
    BY <1>1, <1>4, <1>5, <1>6, <1>7

\* The requests keep their type, whatever is listed.
THEOREM OverviewTypes == OverviewSpec => []OverviewTypeOK
  <1>1. OverviewInit => OverviewTypeOK
    BY DEF OverviewInit, OverviewTypeOK
  <1>2. OverviewTypeOK /\ [OverviewNext]_overviewVars => OverviewTypeOK'
    <2> SUFFICES ASSUME OverviewTypeOK, [OverviewNext]_overviewVars
                 PROVE  OverviewTypeOK'
      OBVIOUS
    <2>1. ASSUME NEW o \in Owners, AbortOverview(o)
          PROVE  OverviewTypeOK'
      BY <2>1 DEF AbortOverview, OverviewTypeOK
    <2>2. CASE UNCHANGED overviews
      BY <2>2 DEF OverviewTypeOK
    <2>3. QED
      BY <2>1, <2>2, CountEffect, ListEffect DEF OverviewNext, overviewVars
  <1>3. QED
    BY <1>1, <1>2, PTL DEF OverviewSpec, overviewVars

-----------------------------------------------------------------------------
(* Nothing is lost between the lists *)

\* The statuses of the lists still to be read when n of them have been.
Ahead(n) ==
    CASE n = 0 -> {"unpaid", "overdue", "gateway_pending"}
      [] n = 1 -> {"overdue", "gateway_pending"}
      [] n = 2 -> {"gateway_pending"}
      [] OTHER -> {}

NothingLost ==
    \A o \in Owners : overviews[o] # Absent =>
        \A b \in overviews[o].counted :
            /\ BillOf(o, b)
            /\ bills[b].status \in Collectible =>
                  b \in overviews[o].listed \/ bills[b].status \in Ahead(overviews[o].read)

LEMMA ReadingAdvances ==
    ASSUME NEW n \in 0 .. 2, NEW status \in Ahead(n)
    PROVE  status = ListOrder[n + 1] \/ status \in Ahead(n + 1)
  <1>1. CASE n = 0
    BY <1>1 DEF Ahead, ListOrder
  <1>2. CASE n = 1
    BY <1>2 DEF Ahead, ListOrder
  <1>3. CASE n = 2
    BY <1>3 DEF Ahead, ListOrder
  <1>4. QED
    BY <1>1, <1>2, <1>3

\* A bill never moves back in the order of the lists.
LEMMA BillsMoveForward ==
    ASSUME Base, [Next]_vars, NEW b \in BillKeys, bills[b] # Absent,
           bills'[b].status \in Collectible
    PROVE  /\ bills[b].status \in Collectible
           /\ \A n \in 0 .. 3 : bills[b].status \in Ahead(n) => bills'[b].status \in Ahead(n)
  <1>1. CASE bills'[b] = bills[b]
    BY <1>1
  <1>2. CASE bills[b].status = "unpaid" /\ bills'[b].status = "overdue"
    BY <1>2 DEF Collectible, Ahead
  <1>3. CASE bills[b].status \in Collectible /\ bills'[b].status = "gateway_pending"
    BY <1>3 DEF Collectible, Ahead
  <1>4. \/ bills'[b] = bills[b]
        \/ bills[b].status = "unpaid" /\ bills'[b].status = "overdue"
        \/ bills[b].status \in Collectible /\ bills'[b].status = "gateway_pending"
    <2>1. CASE Quiet
      BY <2>1 DEF Quiet
    <2>2. CASE Billed
      BY <2>2 DEF Billed
    <2>3. CASE Lapsed
      BY <2>3 DEF Lapsed
    <2>4. ASSUME NEW a \in Assignments, NEW m \in Months, Assigned(a, m)
          PROVE  bills'[b] = bills[b]
      BY <2>4 DEF Assigned
    <2>5. ASSUME NEW a \in Assignments, Cancelled(a)
          PROVE  bills'[b] = bills[b]
      BY <2>5 DEF Cancelled, Collectible
    <2>6. ASSUME NEW c \in BillKeys, Settled(c)
          PROVE  bills'[b] = bills[b]
      BY <2>6 DEF Settled, Collectible
    <2>7. ASSUME NEW c \in BillKeys, Opened(c)
          PROVE  \/ bills'[b] = bills[b]
                 \/ bills[b].status \in Collectible /\ bills'[b].status = "gateway_pending"
      BY <2>7 DEF Opened, NeedsCheckout, Collectible
    <2>8. QED
      BY <2>1, <2>2, <2>3, <2>4, <2>5, <2>6, <2>7, StepShape
  <1>5. QED
    BY <1>1, <1>2, <1>3, <1>4

LEMMA NothingLostStep ==
    ASSUME Base, OverviewTypeOK, NothingLost, [OverviewNext]_overviewVars
    PROVE  NothingLost'
  <1> SUFFICES ASSUME NEW o \in Owners, overviews'[o] # Absent,
                      NEW b \in overviews'[o].counted
               PROVE  /\ BillOf(o, b)'
                      /\ bills'[b].status \in Collectible =>
                            \/ b \in overviews'[o].listed
                            \/ bills'[b].status \in Ahead(overviews'[o].read)
    BY DEF NothingLost
  <1>1. ASSUME UNCHANGED vars, overviews'[o] = overviews[o]
        PROVE  /\ BillOf(o, b)'
               /\ bills'[b].status \in Collectible =>
                     \/ b \in overviews'[o].listed
                     \/ bills'[b].status \in Ahead(overviews'[o].read)
    BY <1>1 DEF NothingLost, BillOf, vars, money
  <1>2. CASE [Next]_vars /\ UNCHANGED overviews
    <2>1. /\ overviews[o] # Absent /\ b \in overviews[o].counted
          /\ overviews'[o] = overviews[o] /\ overviews[o].read \in 0 .. 3 /\ b \in BillKeys
      BY <1>2, OverviewRow
    <2>2. bills[b] # Absent /\ BillOf(o, b)'
      BY <1>2, <2>1, StepKeeps DEF NothingLost, BillOf, AllKept, BillsKept, BillKept
    <2>3. QED
      BY <1>2, <2>1, <2>2, BillsMoveForward DEF NothingLost
  <1>3. ASSUME NEW p \in Owners, CountBills(p)
        PROVE  /\ BillOf(o, b)'
               /\ bills'[b].status \in Collectible =>
                     \/ b \in overviews'[o].listed
                     \/ bills'[b].status \in Ahead(overviews'[o].read)
    <2>1. CASE p = o
      <3>1. b \in Summary(o) /\ overviews'[o].read = 0 /\ UNCHANGED vars
        BY <1>3, <2>1, CountEffect
      <3>2. BillOf(o, b)
        BY <3>1 DEF Summary, BillsWithStatus
      <3>3. bills' = bills
        BY <3>1 DEF vars, money
      <3>4. QED
        BY <3>1, <3>2, <3>3 DEF BillOf, Collectible, Ahead
    <2>2. CASE p # o
      BY <1>1, <1>3, <2>2, CountEffect
    <2>3. QED
      BY <2>1, <2>2
  <1>4. ASSUME NEW p \in Owners, ListBills(p)
        PROVE  /\ BillOf(o, b)'
               /\ bills'[b].status \in Collectible =>
                     \/ b \in overviews'[o].listed
                     \/ bills'[b].status \in Ahead(overviews'[o].read)
    <2>1. CASE p = o
      <3> DEFINE n == overviews[o].read
      <3>1. /\ overviews[o] # Absent /\ b \in overviews[o].counted /\ n \in 0 .. 2
            /\ overviews'[o].read = n + 1 /\ bills' = bills /\ b \in BillKeys
            /\ overviews'[o].listed
                  = overviews[o].listed \cup BillsWithStatus(o, ListOrder[n + 1])
        BY <1>4, <2>1, ListEffect, OverviewRow DEF vars, money
      <3>2. /\ BillOf(o, b)
            /\ bills[b].status \in Collectible =>
                  b \in overviews[o].listed \/ bills[b].status \in Ahead(n)
        BY <3>1 DEF NothingLost
      <3>3. CASE bills[b].status = ListOrder[n + 1]
        BY <3>1, <3>2, <3>3 DEF BillsWithStatus, BillOf
      <3>4. CASE bills[b].status # ListOrder[n + 1]
        BY <3>1, <3>2, <3>4, ReadingAdvances DEF BillOf
      <3>5. QED
        BY <3>3, <3>4
    <2>2. CASE p # o
      BY <1>1, <1>4, <2>2, ListEffect
    <2>3. QED
      BY <2>1, <2>2
  <1>5. ASSUME NEW p \in Owners, AbortOverview(p)
        PROVE  /\ BillOf(o, b)'
               /\ bills'[b].status \in Collectible =>
                     \/ b \in overviews'[o].listed
                     \/ bills'[b].status \in Ahead(overviews'[o].read)
    <2>1. UNCHANGED vars /\ overviews'[o] = overviews[o]
      BY <1>5 DEF AbortOverview, OverviewTypeOK
    <2>2. QED
      BY <1>1, <2>1
  <1>6. QED
    BY <1>2, <1>3, <1>4, <1>5 DEF OverviewNext, overviewVars

\* A bill that was counted and is still to be collected when the last list has been read is
\* in one of the lists.
THEOREM NoBillFallsBetween == OverviewSpec => []OutstandingBillShown
  <1>1. OverviewInit => NothingLost
    BY DEF OverviewInit, NothingLost
  <1>2. Base /\ OverviewTypeOK /\ NothingLost /\ [OverviewNext]_overviewVars => NothingLost'
    BY NothingLostStep
  <1>3. NothingLost => OutstandingBillShown
    BY DEF NothingLost, OutstandingBillShown, Ahead, ListOrder
  <1>4. QED
    BY <1>1, <1>2, <1>3, OverviewBase, OverviewTypes, PTL DEF OverviewSpec, overviewVars

-----------------------------------------------------------------------------
(* Tenancy implements Leases: each shape of step that TenancyProofs          *)
(* distinguishes is a step of Leases, or one that Leases does not see.       *)

\* What a lease and a bill read as, before a step and after it.
PhaseOK(row, phase) ==
    /\ row = Absent => phase = "none"
    /\ row # Absent =>
         /\ row.status = "pending_payment" => phase = "pending"
         /\ row.status = "active" => phase = "active"
         /\ row.status = "cancelled" => phase = "cancelled"

EntryOK(row, entry) ==
    /\ row = Absent => entry = "none"
    /\ row # Absent =>
         /\ row.status \in Collectible => entry = "due"
         /\ row.status = "paid" => entry = "paid"
         /\ row.status = "cancelled" => entry = "void"

LEMMA PhaseReads ==
    ASSUME NEW a \in Assignments
    PROVE  PhaseOK(assignments[a], phaseBar[a]) /\ PhaseOK(assignments'[a], phaseBar'[a])
  BY DEF phaseBar, PhaseOf, PhaseOK

LEMMA EntryReads ==
    ASSUME NEW b \in BillKeys
    PROVE  EntryOK(bills[b], ledgerBar[b]) /\ EntryOK(bills'[b], ledgerBar'[b])
  BY DEF ledgerBar, EntryOf, EntryOK, Collectible

\* The three readings are functions: two are equal that agree on every lease or bill.
LEMMA BarFunctions ==
    /\ phaseBar   = [a \in Assignments |-> phaseBar[a]]
    /\ partiesBar = [a \in Assignments |-> partiesBar[a]]
    /\ ledgerBar  = [b \in BillKeys |-> ledgerBar[b]]
    /\ phaseBar'   = [a \in Assignments |-> phaseBar'[a]]
    /\ partiesBar' = [a \in Assignments |-> partiesBar'[a]]
    /\ ledgerBar'  = [b \in BillKeys |-> ledgerBar'[b]]
  BY DEF phaseBar, partiesBar, ledgerBar

\* A lease that a step leaves alone, or changes the status of, reads as before or keeps
\* its parties.
LEMMA LeaseUntouched ==
    ASSUME NEW a \in Assignments, assignments'[a] = assignments[a]
    PROVE  phaseBar'[a] = phaseBar[a] /\ partiesBar'[a] = partiesBar[a]
  BY DEF phaseBar, partiesBar

LEMMA PartiesKept ==
    ASSUME NEW a \in Assignments, assignments[a] # Absent, LeaseKept(a)
    PROVE  partiesBar'[a] = partiesBar[a]
  BY DEF partiesBar, LeaseKept

LEMMA BillUntouched ==
    ASSUME NEW b \in BillKeys, bills'[b] = bills[b]
    PROVE  ledgerBar'[b] = ledgerBar[b]
  BY DEF ledgerBar

\* The leases that hold a room are those Leases calls live.
LEMMA LiveReads ==
    ASSUME Base, NEW a \in Lease!Live
    PROVE  /\ a \in LiveAssignments
           /\ partiesBar[a] = [room |-> assignments[a].room, tenant |-> assignments[a].tenant]
  <1>1. a \in Assignments /\ phaseBar[a] \in {"pending", "active"}
    BY DEF Lease!Live
  <1>2. assignments[a] # Absent /\ assignments[a].status \in AssignmentStatus
    BY <1>1, PhaseReads, RowTypes DEF PhaseOK, Base, Assignment
  <1>3. assignments[a].status # "cancelled"
    BY <1>1, <1>2, PhaseReads DEF PhaseOK
  <1>4. QED
    BY <1>1, <1>2, <1>3 DEF partiesBar, LiveAssignments, LiveStatus, AssignmentStatus

-----------------------------------------------------------------------------
(* Each shape of step is a step of Leases. *)

LEMMA AssignedSigns ==
    ASSUME Base, NEW a \in Assignments, NEW m \in Months, Assigned(a, m)
    PROVE  Lease!Next
  <1> DEFINE r == assignments'[a].room
             t == assignments'[a].tenant
  <1>1. /\ assignments[a] = Absent /\ assignments'[a] \in Assignment /\ assignments'[a] # Absent
        /\ assignments'[a].status = "pending_payment" /\ r \in Rooms /\ t \in Tenants
    BY AbsentAssumption DEF Assigned, Assignment
  <1>2. phaseBar[a] = "none" /\ phaseBar'[a] = "pending" /\ partiesBar'[a] = [room |-> r, tenant |-> t]
    <2>1. partiesBar'[a] = [room |-> r, tenant |-> t]
      BY <1>1 DEF partiesBar
    <2>2. PhaseOK(assignments[a], phaseBar[a]) /\ PhaseOK(assignments'[a], phaseBar'[a])
      BY PhaseReads
    <2>3. QED
      BY <1>1, <2>1, <2>2 DEF PhaseOK
  <1>3. ASSUME NEW c \in Lease!Live PROVE partiesBar[c].room # r /\ partiesBar[c].tenant # t
    <2>1. /\ c \in LiveAssignments
          /\ partiesBar[c] = [room |-> assignments[c].room, tenant |-> assignments[c].tenant]
      BY LiveReads
    <2>2. assignments[c].room # r /\ assignments[c].tenant # t
      BY <2>1 DEF Assigned
    <2>3. QED
      BY <2>1, <2>2
  <1>4. \A x \in Assignments \ {a} : phaseBar'[x] = phaseBar[x] /\ partiesBar'[x] = partiesBar[x]
    BY LeaseUntouched DEF Assigned
  <1>5. <<a, m>> \in BillKeys /\ ledgerBar'[<<a, m>>] = "due"
    <2>1. <<a, m>> \in BillKeys
      BY DEF BillKeys
    <2>2. bills'[<<a, m>>] = NewBill(assignments'[a], m) /\ NewBill(assignments'[a], m) \in Bill
      BY <1>1, NewBillType DEF Assigned
    <2>3. bills'[<<a, m>>] # Absent /\ bills'[<<a, m>>].status = "unpaid"
      BY <2>2, AbsentAssumption DEF NewBill
    <2>4. QED
      BY <2>1, <2>3, EntryReads DEF EntryOK, Collectible
  <1>6. \A b \in BillKeys \ {<<a, m>>} : ledgerBar'[b] = ledgerBar[b]
    BY BillUntouched DEF Assigned
  <1> HIDE DEF r, t
  <1>7. /\ phaseBar' = [phaseBar EXCEPT ![a] = "pending"]
        /\ partiesBar' = [partiesBar EXCEPT ![a] = [room |-> r, tenant |-> t]]
    BY <1>2, <1>4, BarFunctions
  <1>8. ledgerBar' = [ledgerBar EXCEPT ![<<a, m>>] = "due"]
    BY <1>5, <1>6, BarFunctions
  <1>9. Lease!Sign(a, r, t, m)
    BY <1>2, <1>3, <1>7, <1>8 DEF Lease!Sign
  <1>10. QED
    BY <1>1, <1>9 DEF Lease!Next

LEMMA CancelledCancels ==
    ASSUME Base, FirstPaymentGatesTenancy, AllKept, NEW a \in Assignments, Cancelled(a)
    PROVE  Lease!Next
  <1>1. /\ assignments[a] # Absent /\ assignments[a].status = "pending_payment"
        /\ phaseBar[a] = "pending" /\ phaseBar'[a] = "cancelled"
    BY PhaseReads DEF PhaseOK, Cancelled
  <1>2. \A x \in Assignments \ {a} : phaseBar'[x] = phaseBar[x]
    BY LeaseUntouched DEF Cancelled
  <1>3. \A x \in Assignments : partiesBar'[x] = partiesBar[x]
    BY <1>1, LeaseUntouched, PartiesKept DEF Cancelled, AllKept, LeasesKept
  <1>4. ASSUME NEW m \in Months PROVE ledgerBar[<<a, m>>] # "paid"
    <2>1. <<a, m>> \in BillKeys
      BY DEF BillKeys
    <2>2. bills[<<a, m>>] # Absent => bills[<<a, m>>].status \in Collectible
      BY <1>1 DEF FirstPaymentGatesTenancy
    <2>3. QED
      BY <2>1, <2>2, EntryReads DEF EntryOK
  <1>5. ASSUME NEW b \in BillKeys
        PROVE  ledgerBar'[b] = IF b[1] = a /\ ledgerBar[b] = "due" THEN "void" ELSE ledgerBar[b]
    <2>1. CASE b[1] = a /\ bills[b] # Absent /\ bills[b].status \in Collectible
      BY <2>1, EntryReads DEF EntryOK, Cancelled
    <2>2. CASE ~(b[1] = a /\ bills[b] # Absent /\ bills[b].status \in Collectible)
      <3>1. bills'[b] = bills[b]
        BY <2>2 DEF Cancelled
      <3>2. b[1] # a \/ ledgerBar[b] # "due"
        <4>1. bills[b] # Absent => bills[b].status \in BillStatus
          BY RowTypes DEF Base, Bill
        <4>2. QED
          BY <2>2, <4>1, EntryReads DEF EntryOK, BillStatus, Collectible
      <3>3. QED
        BY <3>1, <3>2, BillUntouched
    <2>3. QED
      BY <2>1, <2>2
  <1>6. /\ phaseBar' = [phaseBar EXCEPT ![a] = "cancelled"]
        /\ partiesBar' = partiesBar
    BY <1>1, <1>2, <1>3, BarFunctions
  <1>7. ledgerBar' = [b \in BillKeys |->
                        IF b[1] = a /\ ledgerBar[b] = "due" THEN "void" ELSE ledgerBar[b]]
    BY <1>5, BarFunctions
  <1>8. Lease!Cancel(a)
    BY <1>1, <1>4, <1>6, <1>7 DEF Lease!Cancel, BillKeys
  <1>9. QED
    BY <1>8 DEF Lease!Next

LEMMA BilledCharges ==
    ASSUME Base, NEW m \in Months, Billed,
           \A b \in BillKeys : bills'[b] # bills[b] => b[2] = m
    PROVE  Lease!Next
  <1> DEFINE S == {a \in Assignments : bills'[<<a, m>>] # bills[<<a, m>>]}
  <1>1. ASSUME NEW a \in S
        PROVE  /\ phaseBar[a] = "active" /\ ledgerBar[<<a, m>>] = "none"
               /\ ledgerBar'[<<a, m>>] = "due"
    <2>1. a \in Assignments /\ <<a, m>> \in BillKeys
      BY DEF BillKeys
    <2>2. /\ bills[<<a, m>>] = Absent /\ bills'[<<a, m>>] = NewBill(assignments[a], m)
          /\ assignments[a] # Absent /\ assignments[a].status = "active"
      BY <2>1 DEF Billed
    <2>3. NewBill(assignments[a], m) \in Bill
      BY <2>1, <2>2, RowTypes, NewBillType DEF Base
    <2>4. bills'[<<a, m>>] # Absent /\ bills'[<<a, m>>].status = "unpaid"
      BY <2>2, <2>3, AbsentAssumption DEF NewBill
    <2>5. phaseBar[a] = "active"
      BY <2>1, <2>2, PhaseReads DEF PhaseOK
    <2>6. EntryOK(bills[<<a, m>>], ledgerBar[<<a, m>>]) /\ EntryOK(bills'[<<a, m>>], ledgerBar'[<<a, m>>])
      BY <2>1, EntryReads
    <2>7. QED
      BY <2>2, <2>4, <2>5, <2>6 DEF EntryOK, Collectible
  <1>2. ASSUME NEW b \in BillKeys
        PROVE  ledgerBar'[b] = IF b[1] \in S /\ b[2] = m THEN "due" ELSE ledgerBar[b]
    <2>1. CASE bills'[b] = bills[b]
      <3>1. ~(b[1] \in S /\ b[2] = m)
        BY <2>1, KeyParts
      <3>2. QED
        BY <2>1, <3>1, BillUntouched
    <2>2. CASE bills'[b] # bills[b]
      <3>1. b[2] = m /\ b = <<b[1], m>> /\ b[1] \in S
        BY <2>2, KeyParts
      <3>2. QED
        BY <1>1, <3>1
    <2>3. QED
      BY <2>1, <2>2
  <1>3. S \in SUBSET Assignments
    OBVIOUS
  <1>4. phaseBar' = phaseBar /\ partiesBar' = partiesBar
    BY DEF Billed, phaseBar, partiesBar
  <1> HIDE DEF S
  <1>5. ledgerBar' = [b \in BillKeys |-> IF b[1] \in S /\ b[2] = m THEN "due" ELSE ledgerBar[b]]
    BY <1>2, BarFunctions
  <1>6. Lease!Charge(S, m)
    BY <1>1, <1>4, <1>5 DEF Lease!Charge, BillKeys
  <1>7. QED
    BY <1>3, <1>6 DEF Lease!Next

LEMMA SettledPays ==
    ASSUME Base, CancelledOwesNothing, AllKept, NEW b \in BillKeys, Settled(b)
    PROVE  Lease!Next
  <1>1. /\ b[1] \in Assignments /\ b[2] \in Months /\ b = <<b[1], b[2]>>
        /\ assignments[b[1]] \in Assignment /\ assignments[b[1]] # Absent
        /\ bills[b] # Absent /\ bills[b].status \in Collectible
        /\ bills'[b] # Absent /\ bills'[b].status = "paid"
    BY BillLinks, KeyParts, AbsentAssumption DEF Settled
  <1>2. assignments[b[1]].status \in {"pending_payment", "active"}
    BY <1>1 DEF CancelledOwesNothing, Assignment, AssignmentStatus, Collectible
  <1>3. assignments'[b[1]] # Absent /\ assignments'[b[1]].status = "active" /\ LeaseKept(b[1])
    <2>1. LeaseKept(b[1])
      BY <1>1 DEF AllKept, LeasesKept
    <2>2. QED
      BY <1>2, <2>1 DEF LeaseKept, Settled
  <1>4. phaseBar[b[1]] \in {"pending", "active"} /\ phaseBar'[b[1]] = "active"
    BY <1>1, <1>2, <1>3, PhaseReads DEF PhaseOK
  <1>5. \A x \in Assignments \ {b[1]} : phaseBar'[x] = phaseBar[x] /\ partiesBar'[x] = partiesBar[x]
    BY LeaseUntouched DEF Settled
  <1>6. partiesBar'[b[1]] = partiesBar[b[1]]
    BY <1>1, <1>3, PartiesKept
  <1>7. ledgerBar[b] = "due" /\ ledgerBar'[b] = "paid"
    BY <1>1, EntryReads DEF EntryOK
  <1>8. \A c \in BillKeys \ {b} : ledgerBar'[c] = ledgerBar[c]
    BY BillUntouched DEF Settled
  <1>9. /\ phaseBar' = [phaseBar EXCEPT ![b[1]] = "active"] /\ partiesBar' = partiesBar
        /\ ledgerBar' = [ledgerBar EXCEPT ![<<b[1], b[2]>>] = "paid"]
    BY <1>1, <1>4, <1>5, <1>6, <1>7, <1>8, BarFunctions
  <1>10. b[1] \in Lease!Live
    BY <1>1, <1>4 DEF Lease!Live
  <1>11. Lease!Pay(b[1], b[2])
    BY <1>1, <1>7, <1>9, <1>10 DEF Lease!Pay
  <1>12. QED
    BY <1>1, <1>11 DEF Lease!Next

-----------------------------------------------------------------------------
(* The shapes that Leases does not see. *)

leaseBar == <<phaseBar, partiesBar, ledgerBar>>

LEMMA QuietStutters == ASSUME Quiet PROVE UNCHANGED leaseBar
  BY DEF Quiet, leaseBar, phaseBar, partiesBar, ledgerBar

LEMMA LapsedStutters == ASSUME Base, Lapsed PROVE UNCHANGED leaseBar
  <1>1. phaseBar' = phaseBar /\ partiesBar' = partiesBar
    BY DEF Lapsed, phaseBar, partiesBar
  <1>2. ASSUME NEW b \in BillKeys PROVE ledgerBar'[b] = ledgerBar[b]
    BY EntryReads, BillUntouched DEF Lapsed, EntryOK, Collectible
  <1>3. ledgerBar' = ledgerBar
    BY <1>2, BarFunctions
  <1>4. QED
    BY <1>1, <1>3 DEF leaseBar

LEMMA OpenedStutters == ASSUME Base, NEW b \in BillKeys, Opened(b) PROVE UNCHANGED leaseBar
  <1>1. phaseBar' = phaseBar /\ partiesBar' = partiesBar
    BY DEF Opened, phaseBar, partiesBar
  <1>2. bills[b].status \in Collectible /\ bills[b] # Absent
    BY DEF Opened, NeedsCheckout, Collectible
  <1>3. ledgerBar'[b] = ledgerBar[b]
    BY <1>2, EntryReads DEF Opened, EntryOK, Collectible
  <1>4. \A c \in BillKeys : ledgerBar'[c] = ledgerBar[c]
    BY <1>3, BillUntouched DEF Opened
  <1>5. ledgerBar' = ledgerBar
    BY <1>4, BarFunctions
  <1>6. QED
    BY <1>1, <1>5 DEF leaseBar

-----------------------------------------------------------------------------

\* A monthly run charges one month.
LEMMA OneMonthCharged ==
    ASSUME NEW run \in billRuns, NEW m \in Months, InsertMonthlyBills(run, m)
    PROVE  \A b \in BillKeys : bills'[b] # bills[b] => b[2] = m
  BY DEF InsertMonthlyBills, MissingBills

LEMMA BillingRefines == ASSUME Base, Billing PROVE Lease!Next \/ UNCHANGED leaseBar
  <1>1. CASE Billed
    <2>1. ASSUME NEW run \in billRuns, NEW m \in Months, InsertMonthlyBills(run, m)
          PROVE  Lease!Next
      BY <1>1, <2>1, OneMonthCharged, BilledCharges
    <2>2. ASSUME NEW o \in Owners, MarkOverdue(o) PROVE UNCHANGED leaseBar
      <3>1. ASSUME NEW b \in BillKeys PROVE bills'[b] = bills[b]
        BY <1>1, <2>2 DEF Billed, MarkOverdue, BillOf
      <3>2. \A b \in BillKeys : ledgerBar'[b] = ledgerBar[b]
        BY <3>1, BillUntouched
      <3>3. phaseBar' = phaseBar /\ partiesBar' = partiesBar
        BY <1>1 DEF Billed, phaseBar, partiesBar
      <3>4. QED
        BY <3>2, <3>3, BarFunctions DEF leaseBar
    <2>3. ASSUME NEW o \in Owners, ReadActiveAssignments(o) PROVE UNCHANGED leaseBar
      BY <2>3 DEF ReadActiveAssignments, leases, money, leaseBar, phaseBar, partiesBar, ledgerBar
    <2>4. QED
      BY <2>1, <2>2, <2>3 DEF Billing
  <1>2. QED
    BY <1>1, BillingShape, QuietStutters, LapsedStutters

LEMMA StepKeepsLeases ==
    ASSUME Base, FirstPaymentGatesTenancy, CancelledOwesNothing, [Next]_vars
    PROVE  Lease!Next \/ UNCHANGED leaseBar
  <1>1. AllKept
    BY StepKeeps
  <1>2. CASE Manage \/ Tick \/ UNCHANGED vars
    BY <1>2, ManageKeeps, QuietStutters
       DEF Base, money, Tick, leases, vars, leaseBar, phaseBar, partiesBar, ledgerBar
  <1>3. CASE Onboard
    BY <1>1, <1>3, AssignShape, CancelShape, AssignedSigns, CancelledCancels DEF Onboard
  <1>4. CASE Billing
    BY <1>4, BillingRefines
  <1>5. CASE Pay
    <2>1. ASSUME NEW o \in Owners, NEW b \in BillKeys, NEW amount \in Rents,
                 RecordManual(o, b, amount)
          PROVE  Lease!Next
      BY <1>1, <2>1, RecordShape, SettledPays
    <2>2. ASSUME NEW o \in Owners, NEW t \in Tenants, NEW b \in BillKeys, PayBill(o, t, b)
          PROVE  UNCHANGED leaseBar
      BY <2>2, PayBillShape, OpenedStutters
    <2>3. QED
      BY <1>5, <2>1, <2>2 DEF Pay
  <1>6. QED
    BY <1>2, <1>3, <1>4, <1>5 DEF Next

LEMMA InitOfLeases == ASSUME Init PROVE Lease!Init
  BY DEF Init, Lease!Init, phaseBar, partiesBar, ledgerBar, BillKeys

\* The handlers implement Leases: exclusive signing, one charge a month, the first payment
\* that starts a lease and the cancellation that voids it, whatever the interleaving.
THEOREM LeasesImplemented == Spec => ImplementsLeases
  <1>1. Init => Lease!Init
    BY InitOfLeases
  <1>2. Base /\ FirstPaymentGatesTenancy /\ CancelledOwesNothing /\ [Next]_vars
        => [Lease!Next]_<<phaseBar, partiesBar, ledgerBar>>
    BY StepKeepsLeases DEF leaseBar
  <1>3. QED
    BY <1>1, <1>2, BaseInvariant, FirstPaymentGates, CancelledOwes, PTL
       DEF Spec, ImplementsLeases, Lease!Spec

-----------------------------------------------------------------------------
(* The same of interleaved transactions *)

\* What is promised outside holds of the tables that the transactions of many connections
\* change, statement by statement: their leases move as Leases says, and between any two
\* statements the tenant's pages agree and no onboarding is stuck by what a transaction did.
THEOREM TransactionsImplementLeases ==
    TxSpec => ImplementsLeases /\ []PortalPagesAgree /\ []PendingIsOpen
  <1>1. TxSpec => Spec
    BY TransactionsAreAtomic DEF ActsAtomically
  <1>2. Spec => ImplementsLeases
    BY LeasesImplemented
  <1>3. Spec => []PortalPagesAgree /\ []PendingIsOpen
    BY PortalAgrees, PendingNeverStuck
  <1>4. QED
    BY <1>1, <1>2, <1>3, PTL
=============================================================================
