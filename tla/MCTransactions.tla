--------------------------- MODULE MCTransactions ---------------------------
(* Small instances of Transactions for TLC. *)
EXTENDS Transactions, TLC

MCFirstDay == [m \in Months |-> 2 * m - 4]
MCLastDay  == [m \in Months |-> 2 * m - 3]

\* The assignments share the digits that their bill numbers hold, or have their own.
MCSharedSuffix   == [a \in Assignments |-> Absent]
MCDistinctSuffix == [a \in Assignments |-> a]

\* The assignments were created at one moment, or one after the other.
MCNoOrder == [a \in Assignments |-> 0]
MCInOrder == [a \in Assignments |-> a]

MCSymmetry == Permutations(Assignments) \cup Permutations(Tenants) \cup Permutations(Txs)

(* Starting points that the handlers reach one request after the other, when *)
(* rooms, tenants and assignments are numbered: lease n is of room n, tenant *)
(* n and the first month.  It is active and its tenant deleted since, which  *)
(* ends nothing, or was cancelled and its room and tenant deleted, or is     *)
(* still to come.                                                            *)

MCOwner == CHOOSE o \in Owners : TRUE
MCLease(n, status) ==
    [owner |-> MCOwner, room |-> n, tenant |-> n, rent |-> 1, dueDay |-> 1, start |-> 1,
     status |-> status]

MCStart(lease) ==
    LET there(n, row) == IF lease[n] = "none" THEN Absent ELSE row
        active(n, this, other) == IF lease[n] = "active" THEN this ELSE other
        first(n) == NewBill(MCLease(n, "active"), 1)
    IN
    /\ rooms = [n \in Rooms |->
          there(n, [owner |-> MCOwner, status |-> active(n, "occupied", "available"),
                    deleted |-> lease[n] # "active"])]
    /\ tenants = [n \in Tenants |->
          there(n, [owner |-> MCOwner, status |-> active(n, "active", "pending_payment"),
                    deleted |-> TRUE])]
    /\ assignments = [n \in Assignments |-> there(n, MCLease(n, lease[n]))]
    /\ bills = [b \in BillKeys |->
          IF b[2] # 1 THEN Absent
          ELSE there(b[1], [first(b[1]) EXCEPT !.status = active(b[1], "paid", "cancelled")])]
    /\ payments = [b \in BillKeys |->
          IF b[2] = 1 /\ lease[b[1]] = "active" THEN <<PaymentFor(first(b[1]), 1)>> ELSE <<>>]
    /\ checkouts = [b \in BillKeys |-> <<>>]
    /\ deleting = {} /\ billRuns = {} /\ today = 0
    /\ txs = [x \in Txs |-> Absent] /\ locks = {} /\ writes = [x \in Txs |-> NoWrites]

\* Two active leases to bill, or one lease to come.
MCStarts == MCStart(<<"active", "active">>) \/ MCStart(<<"none", "cancelled">>)
\* The bound on the lease to come: it starts in the first month.
MCFirstMonth == \A x \in Txs : Open(x, "assign") => txs[x].terms.start = 1
MCFairSpec == MCStarts /\ [][TxNext /\ MCFirstMonth']_allVars /\ Fairness
=============================================================================
