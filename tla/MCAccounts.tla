------------------------------ MODULE MCAccounts ------------------------------
(* Small instances of Accounts for TLC. *)
EXTENDS Accounts, TLC

\* The spellings of one address.
MCLower == [e \in Emails |-> "ann@x"]

MCSymmetry ==
    Permutations(Owners) \cup Permutations(OwnerUsers) \cup Permutations(Tenants)
    \cup Permutations(Conns)
=============================================================================
