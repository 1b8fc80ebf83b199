-------------------------------- MODULE Leases --------------------------------
(***************************************************************************)
(* What onboarding, billing and payment together promise about leases:     *)
(* a lease is signed for a room and a tenant that no other lease holds, it *)
(* starts with its first payment or is cancelled before, and each month is *)
(* charged once, and then paid or, with the lease, voided.                 *)
(*                                                                         *)
(* Nothing here speaks of statuses of rooms and tenants, of soft deletion, *)
(* of overdue or gateway_pending bills, of rows, requests or owners: those *)
(* are the means of Tenancy, which LeaseRefinement shows to implement      *)
(* this.                                                                   *)
(***************************************************************************)
CONSTANTS Assignments, Rooms, Tenants, Months

VARIABLES
    phase,    \* of each lease: none, pending, active or cancelled
    parties,  \* the room and the tenant of each signed lease
    ledger    \* of each lease and month: none, due, paid or void

Phase == {"none", "pending", "active", "cancelled"}
Entry == {"none", "due", "paid", "void"}

\* The leases that hold their room and their tenant.
Live == {a \in Assignments : phase[a] \in {"pending", "active"}}

Init ==
    /\ phase   = [a \in Assignments |-> "none"]
    /\ parties = [a \in Assignments |-> <<>>]
    /\ ledger  = [b \in Assignments \X Months |-> "none"]

\* A lease is signed and its first month charged.
Sign(a, r, t, m) ==
    /\ phase[a] = "none"
    /\ \A c \in Live : parties[c].room # r /\ parties[c].tenant # t
    /\ phase'   = [phase EXCEPT ![a] = "pending"]
    /\ parties' = [parties EXCEPT ![a] = [room |-> r, tenant |-> t]]
    /\ ledger'  = [ledger EXCEPT ![<<a, m>>] = "due"]

\* A month is charged to some of the leases that have started and were not charged yet.
Charge(S, m) ==
    /\ \A a \in S : phase[a] = "active" /\ ledger[<<a, m>>] = "none"
    /\ ledger' = [b \in Assignments \X Months |->
                    IF b[1] \in S /\ b[2] = m THEN "due" ELSE ledger[b]]
    /\ UNCHANGED <<phase, parties>>

\* A charged month of a live lease is paid, which starts the lease if it has not started.
Pay(a, m) ==
    /\ a \in Live
    /\ ledger[<<a, m>>] = "due"
    /\ ledger' = [ledger EXCEPT ![<<a, m>>] = "paid"]
    /\ phase'  = [phase EXCEPT ![a] = "active"]
    /\ UNCHANGED parties

\* A lease is given up before its first payment, and owes nothing.
Cancel(a) ==
    /\ phase[a] = "pending"
    /\ \A m \in Months : ledger[<<a, m>>] # "paid"
    /\ phase'  = [phase EXCEPT ![a] = "cancelled"]
    /\ ledger' = [b \in Assignments \X Months |->
                    IF b[1] = a /\ ledger[b] = "due" THEN "void" ELSE ledger[b]]
    /\ UNCHANGED parties

Next ==
    \/ \E a \in Assignments :
          \/ \E r \in Rooms, t \in Tenants, m \in Months : Sign(a, r, t, m)
          \/ \E m \in Months : Pay(a, m)
          \/ Cancel(a)
    \/ \E S \in SUBSET Assignments, m \in Months : Charge(S, m)

Spec == Init /\ [][Next]_<<phase, parties, ledger>>
=============================================================================
