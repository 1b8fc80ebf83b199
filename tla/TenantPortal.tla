----------------------------- MODULE TenantPortal -----------------------------
(***************************************************************************)
(* What the tenant portal shows: the queries of /tenant/my-room,           *)
(* /tenant/bills and /tenant/payments over the tables of Tenancy, each as  *)
(* the set of rows that its WHERE clause selects.  The tenant and the      *)
(* owner come from the token.  Pages and order are left out, but for       *)
(* LIMIT 1 of my-room: it picks one of the set.                            *)
(*                                                                         *)
(* PayBill locks a bill by the WHERE clause of ListTenantBills.  At this   *)
(* commit only its statement runs: the column list of the other names an   *)
(* alias that its FROM clause does not declare, as that of GetBill does.   *)
(***************************************************************************)
EXTENDS Tenancy

MyRoom(o, t)          == {a \in LiveForTenant(t) : AssignmentOf(o, a)}
ListTenantBills(o, t) == {b \in BillKeys : TenantBillOf(o, t, b)}
ListPayments(o, t)    ==
    {b \in BillKeys : \E i \in DOMAIN payments[b] :
                         payments[b][i].owner = o /\ payments[b][i].tenant = t}

-----------------------------------------------------------------------------
(* Properties *)

\* What a tenant sees agrees: my-room has one room to show, every bill that PayBill takes is
\* for that room, and the payments listed are those of the tenant's paid bills, whatever
\* leases came before.
PortalPagesAgree ==
    \A o \in Owners, t \in Tenants :
       /\ \A a, c \in MyRoom(o, t) : a = c
       /\ \A b \in ListTenantBills(o, t) : bills[b].status \in Collectible => b[1] \in MyRoom(o, t)
       /\ ListPayments(o, t) = {b \in ListTenantBills(o, t) : bills[b].status = "paid"}

\* An onboarding is stuck, neither payable nor cancellable, only when its room or its tenant
\* was deleted: TenantService.Delete and the second half of RoomService.Delete check nothing,
\* and nothing else that an owner or a tenant may do leads there.
StuckOnlyByDeletion ==
    \A a \in Assignments :
       assignments[a] # Absent /\ assignments[a].status = "pending_payment" =>
          LET o == assignments[a].owner IN
          RoomVisible(o, assignments[a].room) /\ TenantVisible(o, assignments[a].tenant) =>
             /\ ENABLED CancelOnboarding(o, a)
             /\ \E m \in Months, amount \in Rents : ENABLED RecordManual(o, <<a, m>>, amount)
=============================================================================
