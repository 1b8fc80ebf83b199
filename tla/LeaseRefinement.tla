--------------------------- MODULE LeaseRefinement ---------------------------
(***************************************************************************)
(* The tables of Tenancy read as the leases of Leases.                     *)
(***************************************************************************)
EXTENDS Tenancy

PhaseOf == [pending_payment |-> "pending", active |-> "active", cancelled |-> "cancelled"]
EntryOf == [unpaid |-> "due", overdue |-> "due", gateway_pending |-> "due",
            paid |-> "paid", cancelled |-> "void"]

phaseBar ==
    [a \in Assignments |->
        IF assignments[a] = Absent THEN "none" ELSE PhaseOf[assignments[a].status]]
partiesBar ==
    [a \in Assignments |->
        IF assignments[a] = Absent THEN <<>>
        ELSE [room |-> assignments[a].room, tenant |-> assignments[a].tenant]]
ledgerBar ==
    [b \in BillKeys |-> IF bills[b] = Absent THEN "none" ELSE EntryOf[bills[b].status]]

Lease == INSTANCE Leases WITH phase <- phaseBar, parties <- partiesBar, ledger <- ledgerBar

\* The handlers keep the promises of Leases, through every interleaving of onboarding,
\* cancellation, monthly runs, overdue marking, checkouts and payments.
ImplementsLeases == Lease!Spec
=============================================================================
