------------------------------ MODULE Dashboard ------------------------------
(***************************************************************************)
(* The owner's overview of outstanding bills.  DashboardService.Overview   *)
(* counts them in one statement and then reads a list for each status,     *)
(* every list in a statement of its own and without a common snapshot,     *)
(* while the operations of Tenancy go on.  A bill may therefore be counted *)
(* under one status and listed under another, or under two; the question   *)
(* is whether it can fall between the lists.                               *)
(*                                                                         *)
(* Lists and counts are the sets of bills they range over: the preview's   *)
(* five rows are cut from the set, its total is the set's size.  Rooms,    *)
(* tenants and the payments of a month, which Overview counts as well, are *)
(* left out.                                                               *)
(***************************************************************************)
EXTENDS Tenancy

VARIABLE overviews  \* the dashboard request of each owner, or Absent

MutListOrder == <<"gateway_pending", "overdue", "unpaid">>  \* mutant: read backwards
\* The lists in the order they are read.
ListOrder == <<"unpaid", "overdue", "gateway_pending">>

Overview == [counted : SUBSET BillKeys, read : 0 .. Len(ListOrder), listed : SUBSET BillKeys]

ASSUME NoOverviewAssumption == Absent \notin Overview

\* A dashboard request has read as many lists as there are, at most, and only bills.
OverviewTypeOK == overviews \in [Owners -> Overview \cup {Absent}]

OverviewInit == Init /\ overviews = [o \in Owners |-> Absent]

-----------------------------------------------------------------------------

BillsWithStatus(o, status) == {b \in BillKeys : BillOf(o, b) /\ bills[b].status = status}

\* The three counts of outstanding bills, in one statement.
Summary(o) == UNION {BillsWithStatus(o, ListOrder[i]) : i \in DOMAIN ListOrder}

CountBills(o) ==
    /\ \/ overviews[o] = Absent
       \/ overviews[o] # Absent /\ overviews[o].read = Len(ListOrder)
    /\ overviews' = [overviews EXCEPT ![o] = [counted |-> Summary(o), read |-> 0, listed |-> {}]]
    /\ UNCHANGED vars

MutListBills(o) ==  \* mutant: one list too many
    LET v == overviews[o] IN
    /\ v # Absent /\ v.read <= Len(ListOrder)
    /\ overviews' = [overviews EXCEPT ![o].read = v.read + 1]
    /\ UNCHANGED vars
ListBills(o) ==
    LET v == overviews[o] IN
    /\ v # Absent /\ v.read < Len(ListOrder)
    /\ overviews' = [overviews EXCEPT ![o] =
            [v EXCEPT !.read = v.read + 1,
                      !.listed = v.listed \cup BillsWithStatus(o, ListOrder[v.read + 1])]]
    /\ UNCHANGED vars

\* A statement fails: the request answers 500 and shows nothing.
AbortOverview(o) ==
    /\ overviews[o] # Absent
    /\ overviews' = [overviews EXCEPT ![o] = Absent]
    /\ UNCHANGED vars

OverviewNext ==
    \/ Next /\ UNCHANGED overviews
    \/ \E o \in Owners : CountBills(o) \/ ListBills(o) \/ AbortOverview(o)

OverviewSpec == OverviewInit /\ [][OverviewNext]_<<vars, overviews>>

-----------------------------------------------------------------------------
(* Properties *)

\* The dashboard shows every outstanding bill: one that was counted and is still to be
\* collected when the last list has been read is in a list, although it may have moved
\* between statuses while they were read.  That rests on the order of the lists, which is
\* the order in which a bill moves (unpaid, overdue, gateway_pending), and on no bill
\* ever moving back.
OutstandingBillShown ==
    \A o \in Owners : overviews[o] # Absent /\ overviews[o].read = Len(ListOrder) =>
        \A b \in overviews[o].counted : bills[b].status \in Collectible => b \in overviews[o].listed

=============================================================================
