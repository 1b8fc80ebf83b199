----------------------------- MODULE ReviewProofs -----------------------------
(***************************************************************************)
(* Proofs about ProofReview: it implements Tenancy, so that every theorem  *)
(* of TenancySafety holds of it as well, and its own invariants.           *)
(***************************************************************************)
EXTENDS ProofReview, TenancySafety

-----------------------------------------------------------------------------
(* Types *)

LEMMA ReviewRows ==
    ASSUME ReviewTypeOK, NEW s \in Submissions
    PROVE  /\ submissions[s] # Absent => submissions[s] \in Submission
           /\ uploads[s] # Absent => uploads[s] \in Upload
  BY DEF ReviewTypeOK

LEMMA MoveEffect ==
    ASSUME ReviewTypeOK, NEW s \in Submissions, NEW phase \in UploadPhase,
           uploads[s] # Absent, MoveTo(s, phase)
    PROVE  /\ uploads' \in [Submissions -> Upload \cup {Absent}]
           /\ uploads'[s] # Absent /\ uploads'[s].phase = phase
           /\ uploads'[s].bill = uploads[s].bill /\ uploads'[s].amount = uploads[s].amount
           /\ uploads'[s].owner = uploads[s].owner /\ uploads'[s].tenant = uploads[s].tenant
           /\ \A x \in Submissions \ {s} : uploads'[x] = uploads[x]
  <1>1. uploads[s] \in Upload
    BY ReviewRows
  <1>2. [uploads[s] EXCEPT !.phase = phase] \in Upload
    BY <1>1 DEF Upload
  <1>3. uploads' = [uploads EXCEPT ![s] = [uploads[s] EXCEPT !.phase = phase]]
    BY DEF MoveTo
  <1>4. QED
    BY <1>1, <1>2, <1>3, NoRowAssumption DEF ReviewTypeOK, Upload

LEMMA DecideEffect ==
    ASSUME ReviewTypeOK, NEW s \in Submissions, NEW status \in SubmissionStatus,
           submissions[s] # Absent, Decide(s, status)
    PROVE  /\ submissions' \in [Submissions -> Submission \cup {Absent}]
           /\ submissions'[s] # Absent /\ submissions'[s].status = status
           /\ submissions'[s].bill = submissions[s].bill
           /\ submissions'[s].amount = submissions[s].amount
           /\ submissions'[s].owner = submissions[s].owner
           /\ submissions'[s].tenant = submissions[s].tenant
           /\ submissions'[s].proof = submissions[s].proof
           /\ \A x \in Submissions \ {s} : submissions'[x] = submissions[x]
  <1>1. submissions[s] \in Submission
    BY ReviewRows
  <1>2. [submissions[s] EXCEPT !.status = status] \in Submission
    BY <1>1 DEF Submission
  <1>3. submissions' = [submissions EXCEPT ![s] = [submissions[s] EXCEPT !.status = status]]
    BY DEF Decide
  <1>4. QED
    BY <1>1, <1>2, <1>3, NoRowAssumption DEF ReviewTypeOK, Submission

\* The shapes of a step, by what it does to the submissions.
Kept(s) ==
    /\ submissions'[s] # Absent
    /\ submissions'[s].bill = submissions[s].bill
    /\ submissions'[s].amount = submissions[s].amount
    /\ submissions'[s].owner = submissions[s].owner
    /\ submissions'[s].tenant = submissions[s].tenant

Claimed(s) ==
    /\ uploads[s] = Absent /\ uploads'[s] # Absent
    /\ ClaimOf(uploads'[s].owner, uploads'[s].tenant, uploads'[s].bill, uploads'[s].amount)
    /\ uploads'[s].bill \in BillKeys /\ uploads'[s].phase \in {"checked", "error"}
    /\ UNCHANGED <<vars, submissions, objects>>

Inserted(s) ==
    /\ uploads[s] # Absent /\ uploads[s].phase = "checked" /\ uploads'[s].phase = "inserted"
    /\ PendingFor(uploads[s].bill) = {}
    /\ submissions'[s] # Absent
    /\ submissions'[s].bill = uploads[s].bill /\ submissions'[s].amount = uploads[s].amount
    /\ submissions'[s].owner = uploads[s].owner /\ submissions'[s].tenant = uploads[s].tenant
    /\ submissions'[s].status = "pending_review" /\ submissions'[s].proof = FALSE
    /\ UNCHANGED <<vars, objects>>

Uploaded(s) ==
    /\ uploads[s] # Absent /\ uploads'[s].phase \in {"stored", "failed", "ended"}
    /\ objects \subseteq objects'
    /\ uploads'[s].phase = "stored" => s \in objects'
    /\ UNCHANGED <<vars, submissions>>

Linked(s) ==
    /\ uploads[s] # Absent /\ uploads[s].phase = "stored" /\ uploads'[s].phase = "ended"
    /\ submissions[s] # Absent /\ Kept(s) /\ submissions'[s].status = submissions[s].status
    /\ UNCHANGED <<vars, objects>>

Removed(s) ==
    /\ uploads[s] # Absent /\ uploads'[s].phase = "ended" /\ submissions'[s] = Absent
    /\ UNCHANGED <<vars, objects>>

OneUpload(s) ==
    /\ uploads'[s] # Absent
    /\ uploads[s] # Absent =>
          /\ uploads'[s].bill = uploads[s].bill /\ uploads'[s].amount = uploads[s].amount
          /\ uploads'[s].owner = uploads[s].owner /\ uploads'[s].tenant = uploads[s].tenant
    /\ \A x \in Submissions \ {s} :
          uploads'[x] = uploads[x] /\ submissions'[x] = submissions[x]

Decided(s) ==
    /\ submissions[s] # Absent /\ submissions[s].status = "pending_review"
    /\ Kept(s) /\ submissions'[s].status \in {"approved", "rejected", "cancelled"}
    /\ submissions'[s].proof = submissions[s].proof
    /\ \A x \in Submissions \ {s} : submissions'[x] = submissions[x]
    /\ IF submissions'[s].status = "approved"
       THEN \E o \in Owners : RecordManual(o, submissions[s].bill, submissions[s].amount)
       ELSE UNCHANGED vars
    /\ UNCHANGED <<uploads, objects>>

LEMMA SubmitShape ==
    ASSUME ReviewTypeOK, Submit
    PROVE  /\ ReviewTypeOK'
           /\ \E s \in Submissions :
                 /\ OneUpload(s)
                 /\ Claimed(s) \/ Inserted(s) \/ Uploaded(s) \/ Linked(s) \/ Removed(s)
  <1>1. ASSUME NEW s \in Submissions, NEW o \in Owners, NEW t \in Tenants, NEW b \in BillKeys,
               NEW amount \in Rents, CheckBill(s, o, t, b, amount)
        PROVE  ReviewTypeOK' /\ OneUpload(s) /\ Claimed(s)
    <2> DEFINE u == [owner |-> o, tenant |-> t, bill |-> b, amount |-> amount,
                     phase |-> IF ProofQueriesRun THEN "checked" ELSE "error"]
    <2>1. u \in Upload /\ u.phase \in {"checked", "error"}
      BY DEF Upload, UploadPhase
    <2>2. /\ u.owner = o /\ u.tenant = t /\ u.bill = b /\ u.amount = amount
          /\ uploads' = [uploads EXCEPT ![s] = u] /\ uploads[s] = Absent
          /\ ClaimOf(o, t, b, amount) /\ UNCHANGED <<vars, submissions, objects>>
      BY <1>1 DEF CheckBill
    <2> HIDE DEF u
    <2>3. uploads'[s] = u /\ \A x \in Submissions \ {s} : uploads'[x] = uploads[x]
      BY <2>2 DEF ReviewTypeOK
    <2>4. ReviewTypeOK'
      BY <2>1, <2>2 DEF ReviewTypeOK
    <2>5. QED
      BY <2>1, <2>2, <2>3, <2>4, NoRowAssumption DEF OneUpload, Claimed
  <1>2. ASSUME NEW s \in Submissions, InsertSubmission(s)
        PROVE  ReviewTypeOK' /\ OneUpload(s) /\ Inserted(s)
    <2> DEFINE row == [owner |-> uploads[s].owner, tenant |-> uploads[s].tenant,
                       bill |-> uploads[s].bill, amount |-> uploads[s].amount,
                       status |-> "pending_review", proof |-> FALSE]
    <2>1. /\ uploads[s] # Absent /\ uploads[s].phase = "checked" /\ MoveTo(s, "inserted")
          /\ PendingFor(uploads[s].bill) = {} /\ UNCHANGED <<vars, objects>>
          /\ submissions' = [submissions EXCEPT ![s] = row]
      BY <1>2 DEF InsertSubmission, InPhase
    <2>2. row \in Submission
      BY <2>1, ReviewRows DEF Upload, Submission, SubmissionStatus
    <2>3. /\ row.owner = uploads[s].owner /\ row.tenant = uploads[s].tenant
          /\ row.bill = uploads[s].bill /\ row.amount = uploads[s].amount
          /\ row.status = "pending_review" /\ row.proof = FALSE
      OBVIOUS
    <2> HIDE DEF row
    <2>4. /\ submissions'[s] = row /\ \A x \in Submissions \ {s} : submissions'[x] = submissions[x]
          /\ submissions' \in [Submissions -> Submission \cup {Absent}]
      BY <2>1, <2>2 DEF ReviewTypeOK
    <2>5. /\ uploads' \in [Submissions -> Upload \cup {Absent}]
          /\ uploads'[s] # Absent /\ uploads'[s].phase = "inserted" /\ OneUpload(s)
      BY <2>1, <2>4, MoveEffect DEF UploadPhase, OneUpload
    <2>6. ReviewTypeOK'
      BY <2>1, <2>4, <2>5 DEF ReviewTypeOK
    <2>7. QED
      BY <2>1, <2>2, <2>3, <2>4, <2>5, <2>6, NoRowAssumption DEF Inserted
  <1>3. ASSUME NEW s \in Submissions, PutProof(s) \/ PutFails(s) \/ EndUpload(s)
        PROVE  ReviewTypeOK' /\ OneUpload(s) /\ Uploaded(s)
    <2>1. PICK phase \in {"stored", "failed", "ended"} :
             /\ uploads[s] # Absent /\ MoveTo(s, phase) /\ UNCHANGED <<vars, submissions>>
             /\ objects' \in {objects, objects \cup {s}}
             /\ phase = "stored" => objects' = objects \cup {s}
      BY <1>3 DEF PutProof, PutFails, EndUpload, InPhase
    <2>2. /\ uploads' \in [Submissions -> Upload \cup {Absent}]
          /\ uploads'[s] # Absent /\ uploads'[s].phase = phase /\ OneUpload(s)
      BY <2>1, MoveEffect DEF UploadPhase, OneUpload
    <2>3. QED
      BY <2>1, <2>2 DEF ReviewTypeOK, Uploaded
  <1>4. ASSUME NEW s \in Submissions, SetProofURL(s)
        PROVE  ReviewTypeOK' /\ OneUpload(s) /\ Linked(s)
    <2>1. /\ uploads[s] # Absent /\ uploads[s].phase = "stored" /\ MoveTo(s, "ended")
          /\ submissions[s] \in Submission /\ submissions[s] # Absent /\ UNCHANGED <<vars, objects>>
          /\ submissions' = [submissions EXCEPT ![s] = [submissions[s] EXCEPT !.proof = TRUE]]
      BY <1>4, ReviewRows DEF SetProofURL, InPhase
    <2>2. [submissions[s] EXCEPT !.proof = TRUE] \in Submission
      BY <2>1 DEF Submission
    <2>3. /\ submissions'[s] # Absent /\ Kept(s) /\ submissions'[s].status = submissions[s].status
          /\ \A x \in Submissions \ {s} : submissions'[x] = submissions[x]
          /\ submissions' \in [Submissions -> Submission \cup {Absent}]
      BY <2>1, <2>2, NoRowAssumption DEF ReviewTypeOK, Submission, Kept
    <2>4. /\ uploads' \in [Submissions -> Upload \cup {Absent}]
          /\ uploads'[s] # Absent /\ uploads'[s].phase = "ended" /\ OneUpload(s)
      BY <2>1, <2>3, MoveEffect DEF UploadPhase, OneUpload
    <2>5. QED
      BY <2>1, <2>3, <2>4 DEF ReviewTypeOK, Linked
  <1>5. ASSUME NEW s \in Submissions, DeleteByID(s)
        PROVE  ReviewTypeOK' /\ OneUpload(s) /\ Removed(s)
    <2>1. /\ uploads[s] # Absent /\ MoveTo(s, "ended") /\ UNCHANGED <<vars, objects>>
          /\ submissions' = [submissions EXCEPT ![s] = Absent]
      BY <1>5 DEF DeleteByID, InPhase
    <2>2. /\ submissions'[s] = Absent
          /\ \A x \in Submissions \ {s} : submissions'[x] = submissions[x]
          /\ submissions' \in [Submissions -> Submission \cup {Absent}]
      BY <2>1 DEF ReviewTypeOK
    <2>3. /\ uploads' \in [Submissions -> Upload \cup {Absent}]
          /\ uploads'[s] # Absent /\ uploads'[s].phase = "ended" /\ OneUpload(s)
      BY <2>1, <2>2, MoveEffect DEF UploadPhase, OneUpload
    <2>4. QED
      BY <2>1, <2>2, <2>3 DEF ReviewTypeOK, Removed
  <1>6. QED
    BY <1>1, <1>2, <1>3, <1>4, <1>5 DEF Submit

\* Approve is PaymentService.RecordManual of the claimed amount.
LEMMA ApproveRecords ==
    ASSUME NEW o \in Owners, NEW s \in Submissions, Approve(o, s)
    PROVE  RecordManual(o, submissions[s].bill, submissions[s].amount)
  BY DEF Approve, RecordManual, SettleInFull, Payable, Approvable

LEMMA ReviewShape ==
    ASSUME ReviewTypeOK, Review
    PROVE  ReviewTypeOK' /\ \E s \in Submissions : Decided(s)
  <1>1. ASSUME NEW s \in Submissions, NEW status \in {"approved", "rejected", "cancelled"},
               submissions[s] # Absent, submissions[s].status = "pending_review",
               Decide(s, status), UNCHANGED <<uploads, objects>>,
               IF status = "approved"
               THEN \E o \in Owners : RecordManual(o, submissions[s].bill, submissions[s].amount)
               ELSE UNCHANGED vars
        PROVE  ReviewTypeOK' /\ Decided(s)
    BY <1>1, DecideEffect DEF SubmissionStatus, ReviewTypeOK, Decided, Kept
  <1>2. ASSUME NEW o \in Owners, NEW s \in Submissions, NEW t \in Tenants,
               CancelSubmission(o, t, s)
        PROVE  ReviewTypeOK' /\ Decided(s)
    BY <1>1, <1>2 DEF CancelSubmission, SubmissionOf
  <1>3. ASSUME NEW o \in Owners, NEW s \in Submissions, Reject(o, s)
        PROVE  ReviewTypeOK' /\ Decided(s)
    BY <1>1, <1>3 DEF Reject, SubmissionOf
  <1>4. ASSUME NEW o \in Owners, NEW s \in Submissions, Approve(o, s)
        PROVE  ReviewTypeOK' /\ Decided(s)
    <2>1. /\ submissions[s] # Absent /\ submissions[s].status = "pending_review"
          /\ Decide(s, "approved") /\ UNCHANGED <<uploads, objects>>
      BY <1>4 DEF Approve, SubmissionOf
    <2>2. QED
      BY <1>1, <1>4, <2>1, ApproveRecords
  <1>5. QED
    BY <1>2, <1>3, <1>4 DEF Review

\* The rows of the submissions table and the requests in flight stay typed.
THEOREM ReviewTypes == ReviewSpec => []ReviewTypeOK
  <1>1. ReviewInit => ReviewTypeOK
    BY DEF ReviewInit, ReviewTypeOK
  <1>2. ReviewTypeOK /\ [ReviewNext]_reviewVars => ReviewTypeOK'
    BY SubmitShape, ReviewShape DEF ReviewNext, reviewVars, review, ReviewTypeOK
  <1>3. QED
    BY <1>1, <1>2, PTL DEF ReviewSpec

-----------------------------------------------------------------------------
(* Refinement *)

LEMMA ReviewStep ==
    ASSUME ReviewTypeOK, [ReviewNext]_reviewVars
    PROVE  [Next]_vars
  <1>1. CASE Submit
    BY <1>1, SubmitShape DEF Claimed, Inserted, Uploaded, Linked, Removed
  <1>2. CASE Review
    <2>1. PICK s \in Submissions : Decided(s)
      BY <1>2, ReviewShape
    <2>2. submissions[s].bill \in BillKeys /\ submissions[s].amount \in Rents
      BY <2>1, ReviewRows DEF Decided, Submission
    <2>3. QED
      BY <2>1, <2>2 DEF Decided, Next, Pay
  <1>3. QED
    BY <1>1, <1>2 DEF ReviewNext, reviewVars

\* Uploads and reviews do to leases, bills and payments only what direct payments do: an
\* approval is one RecordManual, everything else leaves them alone.
THEOREM ReviewImplementsTenancy == ReviewSpec => Spec
  <1>1. ReviewInit => Init
    BY DEF ReviewInit
  <1>2. ReviewTypeOK /\ [ReviewNext]_reviewVars => [Next]_vars
    BY ReviewStep
  <1>3. QED
    BY <1>1, <1>2, ReviewTypes, PTL DEF ReviewSpec, Spec

-----------------------------------------------------------------------------
(* Claims and bills *)

\* A claim, in flight or stored, agrees with its bill.
Agrees(claim) ==
    /\ claim.bill \in BillKeys /\ bills[claim.bill] # Absent
    /\ claim.owner = bills[claim.bill].owner
    /\ claim.tenant = bills[claim.bill].tenant
    /\ claim.amount = bills[claim.bill].amount
ClaimsAgree ==
    /\ \A s \in Submissions : submissions[s] # Absent => Agrees(submissions[s])
    /\ \A s \in Submissions : uploads[s] # Absent => Agrees(uploads[s])

LEMMA AgreesKept ==
    ASSUME AllKept, NEW claim, Agrees(claim), NEW later, later.bill = claim.bill,
           later.owner = claim.owner, later.tenant = claim.tenant, later.amount = claim.amount
    PROVE  /\ later.bill \in BillKeys /\ bills'[later.bill] # Absent
           /\ later.owner = bills'[later.bill].owner
           /\ later.tenant = bills'[later.bill].tenant
           /\ later.amount = bills'[later.bill].amount
  BY DEF Agrees, AllKept, BillsKept, BillKept

LEMMA ClaimsAgreeStep ==
    ASSUME ReviewTypeOK, Base, ClaimsAgree, [ReviewNext]_reviewVars
    PROVE  ClaimsAgree'
  <1>1. AllKept
    BY ReviewStep, StepKeeps
  <1>2. ASSUME NEW s \in Submissions, submissions[s] # Absent, Kept(s)
        PROVE  Agrees(submissions[s])'
    BY <1>1, <1>2, AgreesKept DEF ClaimsAgree, Kept, Agrees
  <1>3. ASSUME NEW s \in Submissions, submissions'[s] = submissions[s], submissions[s] # Absent
        PROVE  Agrees(submissions[s])'
    BY <1>2, <1>3 DEF Kept
  <1>4. ASSUME NEW s \in Submissions, uploads[s] # Absent,
               uploads'[s].bill = uploads[s].bill, uploads'[s].owner = uploads[s].owner,
               uploads'[s].tenant = uploads[s].tenant, uploads'[s].amount = uploads[s].amount
        PROVE  Agrees(uploads[s])'
    BY <1>1, <1>4, AgreesKept DEF ClaimsAgree, Agrees
  <1>5. CASE Submit
    <2>1. PICK s \in Submissions :
             /\ OneUpload(s)
             /\ Claimed(s) \/ Inserted(s) \/ Uploaded(s) \/ Linked(s) \/ Removed(s)
      BY <1>5, SubmitShape
    <2>2. uploads[s] = Absent => Claimed(s)
      BY <2>1 DEF Inserted, Uploaded, Linked, Removed
    <2>3. ASSUME Claimed(s) PROVE Agrees(uploads[s])'
      BY <2>3 DEF Claimed, ClaimOf, BillOf, Agrees, vars, money
    <2>4. Agrees(uploads[s])'
      BY <1>4, <2>1, <2>2, <2>3 DEF OneUpload
    <2>5. ASSUME submissions'[s] # Absent PROVE Agrees(submissions[s])'
      <3>1. CASE Inserted(s)
        BY <1>1, <3>1, AgreesKept DEF ClaimsAgree, Inserted, Agrees
      <3>2. CASE ~Inserted(s)
        BY <1>2, <1>3, <2>1, <2>5, <3>2 DEF Claimed, Uploaded, Linked, Removed
      <3>3. QED
        BY <3>1, <3>2
    <2>6. ASSUME NEW x \in Submissions, x # s
          PROVE  /\ submissions'[x] # Absent => Agrees(submissions[x])'
                 /\ uploads'[x] # Absent => Agrees(uploads[x])'
      BY <1>3, <1>4, <2>1, <2>6 DEF OneUpload
    <2>7. QED
      BY <2>4, <2>5, <2>6 DEF ClaimsAgree
  <1>6. CASE Review
    <2>1. PICK s \in Submissions : Decided(s)
      BY <1>6, ReviewShape
    <2>2. UNCHANGED uploads /\ \A x \in Submissions \ {s} : submissions'[x] = submissions[x]
      BY <2>1 DEF Decided
    <2>3. Agrees(submissions[s])'
      BY <1>2, <2>1 DEF Decided
    <2>4. QED
      BY <1>3, <1>4, <2>2, <2>3 DEF ClaimsAgree
  <1>7. CASE UNCHANGED review
    BY <1>3, <1>4, <1>7 DEF ClaimsAgree, review
  <1>8. QED
    BY <1>5, <1>6, <1>7 DEF ReviewNext, reviewVars

\* What holds of Tenancy holds here, by the refinement.
LEMMA BaseHolds == ReviewSpec => []Base
  BY ReviewImplementsTenancy, BaseInvariant, PTL

LEMMA ClaimsAlwaysAgree == ReviewSpec => []ClaimsAgree
  <1>1. ReviewInit => ClaimsAgree
    BY DEF ReviewInit, ClaimsAgree
  <1>2. ReviewTypeOK /\ Base /\ ClaimsAgree /\ [ReviewNext]_reviewVars => ClaimsAgree'
    BY ClaimsAgreeStep
  <1>3. QED
    BY <1>1, <1>2, ReviewTypes, BaseHolds, PTL DEF ReviewSpec

\* A submission names the owner, the tenant and the amount of its bill as long as it exists,
\* although its insert does not look at the bill again.
THEOREM ClaimsMatch == ReviewSpec => []ClaimMatchesBill
  <1>1. ClaimsAgree => ClaimMatchesBill
    BY DEF ClaimsAgree, Agrees, ClaimMatchesBill
  <1>2. QED
    BY <1>1, ClaimsAlwaysAgree, PTL

-----------------------------------------------------------------------------
(* One pending submission, stored proofs, final decisions *)

PendingOnce == \A b \in BillKeys : \A s1, s2 \in PendingFor(b) : s1 = s2

LEMMA OnePendingStep ==
    ASSUME ReviewTypeOK, PendingOnce, [ReviewNext]_reviewVars
    PROVE  PendingOnce'
  <1> SUFFICES ASSUME NEW b \in BillKeys, NEW s1 \in PendingFor(b)', NEW s2 \in PendingFor(b)'
               PROVE  s1 = s2
    BY DEF PendingOnce
  <1>1. s1 \in Submissions /\ s2 \in Submissions
    BY DEF PendingFor
  <1>2. ASSUME NEW s \in Submissions, s \in PendingFor(b)', Kept(s), submissions[s] # Absent,
               submissions'[s].status = submissions[s].status
        PROVE  s \in PendingFor(b)
    BY <1>2 DEF PendingFor, Kept
  <1>3. ASSUME NEW s \in Submissions, s \in PendingFor(b)', submissions'[s] = submissions[s]
        PROVE  s \in PendingFor(b)
    BY <1>3 DEF PendingFor
  <1>4. CASE Submit
    <2>1. PICK s \in Submissions :
             /\ OneUpload(s)
             /\ Claimed(s) \/ Inserted(s) \/ Uploaded(s) \/ Linked(s) \/ Removed(s)
      BY <1>4, SubmitShape
    <2>2. ASSUME NEW x \in Submissions, x # s, x \in PendingFor(b)' PROVE x \in PendingFor(b)
      BY <1>3, <2>1, <2>2 DEF OneUpload
    <2>3. CASE Inserted(s)
      <3>1. s \in PendingFor(b)' => PendingFor(b) = {}
        BY <2>3 DEF Inserted, PendingFor
      <3>2. QED
        BY <1>1, <2>2, <3>1 DEF PendingOnce
    <2>4. CASE ~Inserted(s)
      <3>1. s \in PendingFor(b)' => s \in PendingFor(b)
        BY <1>2, <1>3, <2>1, <2>4 DEF Claimed, Uploaded, Linked, Removed, PendingFor
      <3>2. QED
        BY <1>1, <2>2, <3>1 DEF PendingOnce
    <2>5. QED
      BY <2>3, <2>4
  <1>5. CASE Review
    <2>1. PICK s \in Submissions : Decided(s)
      BY <1>5, ReviewShape
    <2>2. s \notin PendingFor(b)'
      BY <2>1 DEF Decided, PendingFor
    <2>3. ASSUME NEW x \in Submissions, x # s, x \in PendingFor(b)' PROVE x \in PendingFor(b)
      BY <1>3, <2>1, <2>3 DEF Decided
    <2>4. QED
      BY <1>1, <2>2, <2>3 DEF PendingOnce
  <1>6. CASE UNCHANGED review
    BY <1>1, <1>3, <1>6 DEF review, PendingOnce
  <1>7. QED
    BY <1>4, <1>5, <1>6 DEF ReviewNext, reviewVars

\* The partial unique index alone keeps a second claim of a bill out of the review queue.
THEOREM OnePending == ReviewSpec => []OnePendingSubmission
  <1>1. ReviewInit => PendingOnce
    BY DEF ReviewInit, PendingOnce, PendingFor
  <1>2. ReviewTypeOK /\ PendingOnce /\ [ReviewNext]_reviewVars => PendingOnce'
    BY OnePendingStep
  <1>3. ReviewTypeOK /\ PendingOnce => OnePendingSubmission
    BY ReviewRows DEF PendingOnce, PendingFor, OnePendingSubmission, Submission
  <1>4. QED
    BY <1>1, <1>2, <1>3, ReviewTypes, PTL DEF ReviewSpec

\* A request that has uploaded its proof finds it in the store.
StoredProofs ==
    /\ ProofResolves
    /\ \A s \in Submissions : uploads[s] # Absent /\ uploads[s].phase = "stored" => s \in objects

LEMMA StoredProofsStep ==
    ASSUME ReviewTypeOK, StoredProofs, [ReviewNext]_reviewVars
    PROVE  StoredProofs'
  <1>1. CASE Submit
    <2>1. PICK s \in Submissions :
             /\ OneUpload(s)
             /\ Claimed(s) \/ Inserted(s) \/ Uploaded(s) \/ Linked(s) \/ Removed(s)
      BY <1>1, SubmitShape
    <2>2. objects \subseteq objects'
      BY <2>1 DEF Claimed, Inserted, Uploaded, Linked, Removed
    <2>3. ASSUME submissions'[s] # Absent, submissions'[s].proof PROVE s \in objects'
      BY <2>1, <2>2, <2>3
         DEF StoredProofs, ProofResolves, Claimed, Inserted, Uploaded, Linked, Removed
    <2>4. ASSUME uploads'[s] # Absent, uploads'[s].phase = "stored" PROVE s \in objects'
      BY <2>1, <2>4 DEF Claimed, Inserted, Uploaded, Linked, Removed
    <2>5. ASSUME NEW x \in Submissions, x # s
          PROVE  /\ submissions'[x] # Absent /\ submissions'[x].proof => x \in objects'
                 /\ uploads'[x] # Absent /\ uploads'[x].phase = "stored" => x \in objects'
      BY <2>1, <2>2, <2>5 DEF OneUpload, StoredProofs, ProofResolves
    <2>6. QED
      BY <2>3, <2>4, <2>5 DEF StoredProofs, ProofResolves
  <1>2. CASE Review
    <2>1. PICK s \in Submissions : Decided(s)
      BY <1>2, ReviewShape
    <2>2. QED
      BY <2>1 DEF Decided, Kept, StoredProofs, ProofResolves
  <1>3. CASE UNCHANGED review
    BY <1>3 DEF review, StoredProofs, ProofResolves
  <1>4. QED
    BY <1>1, <1>2, <1>3 DEF ReviewNext, reviewVars

\* A row with a key has its object: the upload comes before the key, crashes included.
THEOREM ProofsStored == ReviewSpec => []ProofResolves
  <1>1. ReviewInit => StoredProofs
    BY DEF ReviewInit, StoredProofs, ProofResolves
  <1>2. ReviewTypeOK /\ StoredProofs /\ [ReviewNext]_reviewVars => StoredProofs'
    BY StoredProofsStep
  <1>3. StoredProofs => ProofResolves
    BY DEF StoredProofs
  <1>4. QED
    BY <1>1, <1>2, <1>3, ReviewTypes, PTL DEF ReviewSpec

DecisionKept ==
    \A s \in Submissions :
        submissions[s] # Absent /\ submissions[s].status # "pending_review" =>
            submissions'[s] = Absent \/ submissions'[s].status = submissions[s].status

LEMMA DecisionKeptStep ==
    ASSUME ReviewTypeOK, [ReviewNext]_reviewVars,
           \A s \in Submissions : submissions[s] # Absent => uploads[s] # Absent
                /\ uploads[s].phase # "checked"
    PROVE  DecisionKept
  <1>1. CASE Submit
    BY <1>1, SubmitShape
       DEF DecisionKept, OneUpload, Claimed, Inserted, Uploaded, Linked, Removed
  <1>2. CASE Review
    BY <1>2, ReviewShape DEF DecisionKept, Decided
  <1>3. CASE UNCHANGED review
    BY <1>3 DEF review, DecisionKept
  <1>4. QED
    BY <1>1, <1>2, <1>3 DEF ReviewNext, reviewVars

\* A row exists only past its request's insert, so no second insert overwrites it.
RowsInserted ==
    \A s \in Submissions : submissions[s] # Absent =>
        uploads[s] # Absent /\ uploads[s].phase # "checked"

LEMMA RowsInsertedStep ==
    ASSUME ReviewTypeOK, RowsInserted, [ReviewNext]_reviewVars
    PROVE  RowsInserted'
  <1>1. CASE Submit
    <2>1. PICK s \in Submissions :
             /\ OneUpload(s)
             /\ Claimed(s) \/ Inserted(s) \/ Uploaded(s) \/ Linked(s) \/ Removed(s)
      BY <1>1, SubmitShape
    <2>2. ASSUME submissions'[s] # Absent
          PROVE  uploads'[s] # Absent /\ uploads'[s].phase # "checked"
      BY <2>1, <2>2 DEF OneUpload, RowsInserted, Claimed, Inserted, Uploaded, Linked, Removed
    <2>3. ASSUME NEW x \in Submissions, x # s, submissions'[x] # Absent
          PROVE  uploads'[x] # Absent /\ uploads'[x].phase # "checked"
      BY <2>1, <2>3 DEF OneUpload, RowsInserted
    <2>4. QED
      BY <2>2, <2>3 DEF RowsInserted
  <1>2. CASE Review
    BY <1>2, ReviewShape DEF RowsInserted, Decided
  <1>3. CASE UNCHANGED review
    BY <1>3 DEF review, RowsInserted
  <1>4. QED
    BY <1>1, <1>2, <1>3 DEF ReviewNext, reviewVars

LEMMA RowsAlwaysInserted == ReviewSpec => []RowsInserted
  <1>1. ReviewInit => RowsInserted
    BY DEF ReviewInit, RowsInserted
  <1>2. ReviewTypeOK /\ RowsInserted /\ [ReviewNext]_reviewVars => RowsInserted'
    BY RowsInsertedStep
  <1>3. QED
    BY <1>1, <1>2, ReviewTypes, PTL DEF ReviewSpec

\* A decision stands as long as its row does: only a failed upload's clean-up, which removes
\* the row, undoes one.
THEOREM DecisionsFinal == ReviewSpec => DecisionIsFinal
  <1>1. ReviewTypeOK /\ RowsInserted /\ [ReviewNext]_reviewVars => [DecisionKept]_reviewVars
    BY DecisionKeptStep DEF RowsInserted
  <1>2. [][DecisionKept]_reviewVars => DecisionIsFinal
    BY DEF DecisionKept, DecisionIsFinal
  <1>3. QED
    BY <1>1, <1>2, ReviewTypes, RowsAlwaysInserted, PTL DEF ReviewSpec

-----------------------------------------------------------------------------
(* Approved means paid *)

\* The bill of an approved submission is paid, and no other submission of it is approved.
Approved(s) == submissions[s] # Absent /\ submissions[s].status = "approved"
ApprovedOnce ==
    \A s \in Submissions : Approved(s) =>
        /\ bills[submissions[s].bill] # Absent /\ bills[submissions[s].bill].status = "paid"
        /\ \A other \in Submissions \ {s} :
              Approved(other) => submissions[other].bill # submissions[s].bill

LEMMA ApprovedOnceStep ==
    ASSUME ReviewTypeOK, Base, RowsInserted, ApprovedOnce, [ReviewNext]_reviewVars
    PROVE  ApprovedOnce'
  <1>1. AllKept
    BY ReviewStep, StepKeeps
  <1>2. ASSUME NEW s \in Submissions, Approved(s), submissions'[s].bill = submissions[s].bill
        PROVE  /\ bills'[submissions'[s].bill] # Absent
               /\ bills'[submissions'[s].bill].status = "paid"
    <2>1. /\ submissions[s].bill \in BillKeys /\ bills[submissions[s].bill] # Absent
          /\ bills[submissions[s].bill].status = "paid"
      BY <1>2, ReviewRows DEF Approved, ApprovedOnce, Submission
    <2>2. QED
      BY <1>1, <1>2, <2>1 DEF AllKept, BillsKept, BillKept
  <1>3. ASSUME ASSUME NEW s \in Submissions, Approved(s)'
               PROVE  Approved(s) /\ submissions'[s].bill = submissions[s].bill
        PROVE  ApprovedOnce'
    <2>1. ASSUME NEW s \in Submissions, Approved(s)'
          PROVE  /\ bills'[submissions'[s].bill] # Absent
                 /\ bills'[submissions'[s].bill].status = "paid"
                 /\ \A other \in Submissions \ {s} :
                       Approved(other)' => submissions'[other].bill # submissions'[s].bill
      BY <1>2, <1>3, <2>1 DEF ApprovedOnce
    <2>2. QED
      BY <2>1 DEF ApprovedOnce
  <1>4. CASE Submit
    <2>1. PICK s \in Submissions :
             /\ OneUpload(s)
             /\ Claimed(s) \/ Inserted(s) \/ Uploaded(s) \/ Linked(s) \/ Removed(s)
      BY <1>4, SubmitShape
    <2>2. ASSUME NEW x \in Submissions, Approved(x)'
          PROVE  Approved(x) /\ submissions'[x].bill = submissions[x].bill
      <3>1. CASE x = s
        BY <2>1, <2>2, <3>1
           DEF Claimed, Inserted, Uploaded, Linked, Removed, Kept, Approved
      <3>2. CASE x # s
        BY <2>1, <2>2, <3>2 DEF OneUpload, Approved
      <3>3. QED
        BY <3>1, <3>2
    <2>3. QED
      BY <1>3, <2>2
  <1>5. CASE Review
    <2>1. PICK s \in Submissions : Decided(s)
      BY <1>5, ReviewShape
    <2>2. ASSUME NEW x \in Submissions, x # s, Approved(x)'
          PROVE  Approved(x) /\ submissions'[x].bill = submissions[x].bill
      BY <2>1, <2>2 DEF Decided, Approved
    <2>3. CASE submissions'[s].status # "approved"
      BY <1>3, <2>2, <2>3 DEF Approved
    <2>4. CASE submissions'[s].status = "approved"
      <3>1. PICK o \in Owners : RecordManual(o, submissions[s].bill, submissions[s].amount)
        BY <2>1, <2>4 DEF Decided
      <3>2. /\ submissions[s].bill \in BillKeys /\ submissions[s].amount \in Rents
            /\ submissions'[s].bill = submissions[s].bill
        BY <2>1, ReviewRows DEF Decided, Submission, Kept
      <3>3. Settled(submissions[s].bill)
        BY <3>1, <3>2, RecordShape
      <3>4. ASSUME NEW x \in Submissions, x # s, Approved(x)'
            PROVE  submissions'[x].bill # submissions'[s].bill
        <4>1. bills[submissions'[x].bill].status = "paid"
          BY <2>2, <3>4 DEF ApprovedOnce
        <4>2. QED
          BY <3>2, <3>3, <4>1 DEF Settled, Collectible
      <3>5. /\ bills'[submissions'[s].bill] # Absent
            /\ bills'[submissions'[s].bill].status = "paid"
        BY <3>2, <3>3 DEF Settled
      <3>6. ASSUME NEW x \in Submissions, Approved(x)'
            PROVE  /\ bills'[submissions'[x].bill] # Absent
                   /\ bills'[submissions'[x].bill].status = "paid"
                   /\ \A other \in Submissions \ {x} :
                         Approved(other)' => submissions'[other].bill # submissions'[x].bill
        <4>1. CASE x = s
          BY <3>4, <3>5, <4>1
        <4>2. CASE x # s
          BY <1>2, <2>2, <3>4, <3>6, <4>2 DEF ApprovedOnce
        <4>3. QED
          BY <4>1, <4>2
      <3>7. QED
        BY <3>6 DEF ApprovedOnce
    <2>5. QED
      BY <2>3, <2>4
  <1>6. CASE UNCHANGED review
    BY <1>3, <1>6 DEF review, Approved
  <1>7. QED
    BY <1>4, <1>5, <1>6 DEF ReviewNext, reviewVars

LEMMA ApprovedAlwaysOnce == ReviewSpec => []ApprovedOnce
  <1>1. ReviewInit => ApprovedOnce
    BY DEF ReviewInit, ApprovedOnce, Approved
  <1>2. ReviewTypeOK /\ Base /\ RowsInserted /\ ApprovedOnce /\ [ReviewNext]_reviewVars
           => ApprovedOnce'
    BY ApprovedOnceStep
  <1>3. QED
    BY <1>1, <1>2, ReviewTypes, BaseHolds, RowsAlwaysInserted, PTL DEF ReviewSpec

LEMMA ApprovedPaid ==
    ASSUME ReviewTypeOK, Base, RentAgreed, PaidOnceInFull, ClaimMatchesBill, ApprovedOnce
    PROVE  ApprovedIsPaid
  <1> SUFFICES ASSUME NEW s \in Submissions, Approved(s)
               PROVE  LET b == submissions[s].bill IN
                      /\ bills[b].status = "paid" /\ Len(payments[b]) = 1
                      /\ payments[b][1].amount = submissions[s].amount
                      /\ \A other \in Submissions \ {s} :
                            submissions[other] # Absent /\ submissions[other].bill = b =>
                                submissions[other].status # "approved"
    BY DEF ApprovedIsPaid, Approved
  <1> DEFINE b == submissions[s].bill
  <1>1. /\ b \in BillKeys /\ bills[b] # Absent /\ bills[b].status = "paid"
        /\ submissions[s].amount = bills[b].amount
    BY ReviewRows DEF ApprovedOnce, Approved, Submission, ClaimMatchesBill
  <1>2. PaidAsAgreed(b)
    BY <1>1, PaidMeaning
  <1>3. payments[b] = <<AgreedPayment(assignments[b[1]])>>
    BY <1>1, <1>2 DEF PaidAsAgreed
  <1>4. AgreedPayment(assignments[b[1]]).amount = submissions[s].amount
    BY <1>1 DEF AgreedPayment, RentAgreed
  <1>5. Len(payments[b]) = 1 /\ payments[b][1].amount = submissions[s].amount
    BY <1>3, <1>4
  <1>6. QED
    BY <1>1, <1>5 DEF ApprovedOnce, Approved

\* An approved claim is the one that paid its bill, whatever it raced with.
THEOREM ApprovalsPaid == ReviewSpec => []ApprovedIsPaid
  <1>1. ReviewTypeOK /\ Base /\ RentAgreed /\ PaidOnceInFull /\ ClaimMatchesBill /\ ApprovedOnce
           => ApprovedIsPaid
    BY ApprovedPaid
  <1>2. QED
    BY <1>1, ReviewTypes, BaseHolds, ReviewImplementsTenancy, RentAlwaysAgreed, PaidOnce,
       ClaimsMatch, ApprovedAlwaysOnce, PTL

=============================================================================
