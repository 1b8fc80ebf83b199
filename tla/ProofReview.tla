----------------------------- MODULE ProofReview -----------------------------
(***************************************************************************)
(* Manual payment proofs: a tenant uploads a screenshot of a transfer for  *)
(* a bill, the owner approves or rejects it.                               *)
(*                                                                         *)
(* Submit is not a transaction.  It reads the bill, inserts a row, uploads *)
(* the proof to the object store and writes the object's key to the row,   *)
(* each on its own connection or service: four steps here, between which   *)
(* anything else may happen, a review of the new row included.  Cancel and *)
(* Reject are each decided by one conditional UPDATE (the read that        *)
(* Reject starts with can only refuse what the UPDATE would), Approve is a *)
(* transaction that locks the submission and the bill.                     *)
(***************************************************************************)
EXTENDS Tenancy

CONSTANTS
    Submissions,    \* identities of manual_payment_submissions rows
    ProofQueriesRun \* whether Postgres accepts the SQL of GetBill and Create

ASSUME QueryAssumption == ProofQueriesRun \in BOOLEAN

SubmissionStatus == {"pending_review", "approved", "rejected", "cancelled"}
Claimable        == {"unpaid", "overdue"}   \* bills that may receive a submission

Submission == [owner : Owners, tenant : Tenants, bill : BillKeys, amount : Rents,
               status : SubmissionStatus, proof : BOOLEAN]  \* proof: proof_url is set

\* A Submit request, by how far it has come.  The request is named after the row it
\* creates; "error" is an answer 500 before any row exists.
UploadPhase == {"checked", "inserted", "stored", "failed", "ended", "error"}
Upload == [owner : Owners, tenant : Tenants, bill : BillKeys, amount : Rents,
           phase : UploadPhase]

ASSUME NoRowAssumption == Absent \notin Submission \cup Upload

VARIABLES
    submissions,  \* table manual_payment_submissions
    uploads,      \* the Submit requests
    objects       \* proofs in the object store, by submission

review     == <<submissions, uploads, objects>>
reviewVars == <<vars, review>>

\* Submissions, requests under way and stored objects keep the types of their rows.
ReviewTypeOK ==
    /\ submissions \in [Submissions -> Submission \cup {Absent}]
    /\ uploads     \in [Submissions -> Upload \cup {Absent}]
    /\ objects     \in SUBSET Submissions

ReviewInit ==
    /\ Init
    /\ submissions = [s \in Submissions |-> Absent]
    /\ uploads     = [s \in Submissions |-> Absent]
    /\ objects     = {}

-----------------------------------------------------------------------------
(* Submit *)

MutPendingFor(b) == {}  \* mutant: no unique index
PendingFor(b) ==
    {s \in Submissions : /\ submissions[s] # Absent /\ submissions[s].bill = b
                         /\ submissions[s].status = "pending_review"}

InPhase(s, phase) == uploads[s] # Absent /\ uploads[s].phase = phase
MoveTo(s, phase)  == uploads' = [uploads EXCEPT ![s].phase = phase]

MutClaimOf(o, t, b, amount) ==  \* mutant: any bill of the owner
    BillOf(o, b) /\ bills[b].status \in Claimable /\ amount = bills[b].amount
\* The bill is the tenant's own, unpaid or overdue, and claimed in full.
ClaimOf(o, t, b, amount) ==
    /\ BillOf(o, b) /\ bills[b].tenant = t
    /\ bills[b].status \in Claimable
    /\ amount = bills[b].amount

CheckBill(s, o, t, b, amount) ==
    /\ uploads[s] = Absent
    /\ ClaimOf(o, t, b, amount)
    /\ uploads' = [uploads EXCEPT ![s] =
            [owner |-> o, tenant |-> t, bill |-> b, amount |-> amount,
             phase |-> IF ProofQueriesRun THEN "checked" ELSE "error"]]
    /\ UNCHANGED <<vars, submissions, objects>>

\* The partial unique index admits one pending row a bill; the bill is not read again.
InsertSubmission(s) ==
    LET u == uploads[s] IN
    /\ InPhase(s, "checked")
    /\ PendingFor(u.bill) = {}
    /\ submissions' = [submissions EXCEPT ![s] =
            [owner |-> u.owner, tenant |-> u.tenant, bill |-> u.bill, amount |-> u.amount,
             status |-> "pending_review", proof |-> FALSE]]
    /\ MoveTo(s, "inserted")
    /\ UNCHANGED <<vars, objects>>

PutProof(s) ==
    /\ InPhase(s, "inserted")
    /\ objects' = objects \cup {s}
    /\ MoveTo(s, "stored")
    /\ UNCHANGED <<vars, submissions>>

\* An upload that reports an error may have stored the object all the same.
PutFails(s) ==
    /\ InPhase(s, "inserted")
    /\ objects' \in {objects, objects \cup {s}}
    /\ MoveTo(s, "failed")
    /\ UNCHANGED <<vars, submissions>>

MutSetProofURL(s) ==  \* mutant: writes the key before the upload
    /\ InPhase(s, "inserted") /\ submissions[s] # Absent
    /\ submissions' = [submissions EXCEPT ![s].proof = TRUE]
    /\ UNCHANGED <<vars, uploads, objects>>
\* Neither of the last two statements looks at the status of the row.
SetProofURL(s) ==
    /\ InPhase(s, "stored") /\ submissions[s] # Absent
    /\ submissions' = [submissions EXCEPT ![s].proof = TRUE]
    /\ MoveTo(s, "ended")
    /\ UNCHANGED <<vars, objects>>

MutDeleteByID(s) ==  \* mutant: marks the row, with a status no index or query knows
    /\ InPhase(s, "failed") /\ submissions[s] # Absent
    /\ submissions' = [submissions EXCEPT ![s].status = "deleted"]
    /\ MoveTo(s, "ended")
    /\ UNCHANGED <<vars, objects>>
DeleteByID(s) ==
    /\ InPhase(s, "failed")
    /\ submissions' = [submissions EXCEPT ![s] = Absent]
    /\ MoveTo(s, "ended")
    /\ UNCHANGED <<vars, objects>>

\* The request ends where it is: refused by the unique index, a statement failed (the
\* clean-up included, which runs under the same request context), the server crashed.
EndUpload(s) ==
    /\ \E phase \in {"checked", "inserted", "stored", "failed"} : InPhase(s, phase)
    /\ MoveTo(s, "ended")
    /\ UNCHANGED <<vars, submissions, objects>>

-----------------------------------------------------------------------------
(* Review *)

SubmissionOf(o, s) == submissions[s] # Absent /\ submissions[s].owner = o
Decide(s, status)  == submissions' = [submissions EXCEPT ![s].status = status]

CancelSubmission(o, t, s) ==
    /\ SubmissionOf(o, s) /\ submissions[s].tenant = t
    /\ submissions[s].status = "pending_review"
    /\ Decide(s, "cancelled")
    /\ UNCHANGED <<vars, uploads, objects>>

MutReject(o, s) ==  \* mutant: trusts the status read before the UPDATE
    /\ SubmissionOf(o, s)
    /\ submissions[s].status \in {"pending_review", "approved"}
    /\ Decide(s, "rejected")
    /\ UNCHANGED <<vars, uploads, objects>>
Reject(o, s) ==
    /\ SubmissionOf(o, s)
    /\ submissions[s].status = "pending_review"
    /\ Decide(s, "rejected")
    /\ UNCHANGED <<vars, uploads, objects>>

MutApprovable(b, amount) ==  \* mutant: accepts a cancelled bill
    bills[b].status # "paid" /\ amount = bills[b].amount
Approvable(b, amount) ==
    bills[b].status \notin {"paid", "cancelled"} /\ amount = bills[b].amount

MutApprove(o, s) ==  \* mutant: marks the submission of a bill paid otherwise
    /\ SubmissionOf(o, s) /\ submissions[s].status = "pending_review"
    /\ Decide(s, "approved")
    /\ UNCHANGED <<vars, uploads, objects>>
Approve(o, s) ==
    LET b == submissions[s].bill
        amount == submissions[s].amount
    IN  /\ SubmissionOf(o, s) /\ submissions[s].status = "pending_review"
        /\ BillOf(o, b) /\ Approvable(b, amount)
        /\ payments[b] = <<>>                       \* UNIQUE (bill_id)
        /\ payments' = [payments EXCEPT ![b] = Append(@, PaymentFor(bills[b], amount))]
        /\ bills' = [bills EXCEPT ![b].status = "paid"]
        /\ Decide(s, "approved")
        /\ ActivateTenancy(o, b)
        /\ UNCHANGED <<checkouts, deleting, billRuns, today, uploads, objects>>

-----------------------------------------------------------------------------

Submit ==
    \E s \in Submissions :
       \/ \E o \in Owners, t \in Tenants, b \in BillKeys, amount \in Rents :
             CheckBill(s, o, t, b, amount)
       \/ InsertSubmission(s)
       \/ PutProof(s)
       \/ PutFails(s)
       \/ SetProofURL(s)
       \/ DeleteByID(s)
       \/ EndUpload(s)

Review ==
    \E o \in Owners, s \in Submissions :
       \/ \E t \in Tenants : CancelSubmission(o, t, s)
       \/ Reject(o, s)
       \/ Approve(o, s)

ReviewNext ==
    \/ Next /\ UNCHANGED review
    \/ Submit
    \/ Review

ReviewSpec == ReviewInit /\ [][ReviewNext]_reviewVars

-----------------------------------------------------------------------------
(* Properties.  That an approval is a manual payment, "identical to          *)
(* RecordManual" as the service says, is the refinement ReviewSpec => Spec.  *)

\* Whoever submits owes the bill: a claim names the owner, the tenant and the amount of
\* its bill for as long as the row exists (the re-check of the amount in Approve is never
\* what refuses it).
ClaimMatchesBill ==
    \A s \in Submissions : submissions[s] # Absent =>
        LET b == submissions[s].bill IN
        /\ bills[b] # Absent
        /\ submissions[s].owner = bills[b].owner
        /\ submissions[s].tenant = bills[b].tenant
        /\ submissions[s].amount = bills[b].amount

\* A bill has at most one submission waiting for review, although Submit never looks for
\* one: the index decides, whatever requests run side by side.
OnePendingSubmission ==
    \A s1, s2 \in Submissions :
        /\ submissions[s1] # Absent /\ submissions[s1].status = "pending_review"
        /\ submissions[s2] # Absent /\ submissions[s2].status = "pending_review"
        /\ submissions[s1].bill = submissions[s2].bill
        => s1 = s2

\* Approved means paid: the bill of an approved submission has been paid, by that claim
\* alone, in every race of approvals, direct payments, checkouts and cancellations.
ApprovedIsPaid ==
    \A s \in Submissions : submissions[s] # Absent /\ submissions[s].status = "approved" =>
        LET b == submissions[s].bill IN
        /\ bills[b].status = "paid" /\ Len(payments[b]) = 1
        /\ payments[b][1].amount = submissions[s].amount
        /\ \A other \in Submissions \ {s} :
              submissions[other] # Absent /\ submissions[other].bill = b =>
                  submissions[other].status # "approved"

\* A proof the owner is shown exists: the key is written after the object.
ProofResolves ==
    \A s \in Submissions : submissions[s] # Absent /\ submissions[s].proof => s \in objects

\* A decision is final: an approved, rejected or cancelled submission keeps its status
\* for as long as its row exists.
DecisionIsFinal ==
    [][\A s \in Submissions :
         submissions[s] # Absent /\ submissions[s].status # "pending_review" =>
             submissions'[s] = Absent \/ submissions'[s].status = submissions[s].status
      ]_reviewVars

\* docs/modules/10: "An approved submission cannot be edited, cancelled, approved again, or
\* rejected", and its reviewer must be stored.
ApprovedIsKept ==
    [][\A s \in Submissions :
         submissions[s] # Absent /\ submissions[s].status = "approved" =>
             submissions'[s] = submissions[s]
      ]_reviewVars

\* docs/modules/10: "Only unpaid or overdue bills may receive a submission."
OnlyOwedBillsClaimed ==
    [][\A s \in Submissions :
         submissions[s] = Absent /\ submissions'[s] # Absent =>
             bills[submissions'[s].bill].status \in Claimable
      ]_reviewVars

\* docs/modules/10: "Tenant can upload payment proof for their own unpaid or overdue bill."
ClaimIsServed ==
    \A s \in Submissions : uploads[s] # Absent => uploads[s].phase # "error"

=============================================================================
