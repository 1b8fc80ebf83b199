---------------------------- MODULE MCProofReview ----------------------------
(* Small instances of ProofReview for TLC. *)
EXTENDS MCTenancy, ProofReview

\* The first month is over on day 0: its bill can be marked overdue at any moment.
PastFirstDay == [m \in Months |-> 2 * m - 4]
PastLastDay  == [m \in Months |-> 2 * m - 3]

MCReviewSymmetry ==
    Permutations(Submissions) \cup Permutations(Tenants) \cup Permutations(Rents)
=============================================================================
