------------------------------ MODULE MCInvoices ------------------------------
(***************************************************************************)
(* Two invoices with one number, one without a phone, and one paid by      *)
(* Qitaf.                                                                  *)
(***************************************************************************)
EXTENDS Invoices, TLC

CONSTANTS i1, i2, i3, n1, n2, w1, w2

MCNumberOf == [i \in Invoices |-> IF i = i3 THEN n2 ELSE n1]
MCDateOf == [i \in Invoices |-> CASE i = i1 -> 1 [] i = i2 -> 2 [] i = i3 -> 3]
MCAmountOf == [i \in Invoices |-> IF i = i3 THEN 3 ELSE 1]

\* Requests are interchangeable.
Symmetry == Permutations(Workers)

=============================================================================
