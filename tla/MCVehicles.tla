------------------------------ MODULE MCVehicles ------------------------------
(***************************************************************************)
(* Two cars of a number with up to two accounts.                           *)
(***************************************************************************)
EXTENDS Vehicles, TLC

CONSTANTS r1, r2, car1, car2

\* Requests are interchangeable, and so are the cars.
Symmetry == Permutations(Requests) \cup Permutations(Plates)

=============================================================================
