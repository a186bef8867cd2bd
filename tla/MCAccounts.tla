------------------------------ MODULE MCAccounts ------------------------------
(***************************************************************************)
(* A number with up to two accounts, and two who may have referred it.     *)
(***************************************************************************)
EXTENDS Accounts, TLC

CONSTANTS r1, r2, p1, p2

\* Requests are interchangeable, and so are referrers.
Symmetry == Permutations(Requests) \cup Permutations(Referrers)

=============================================================================
