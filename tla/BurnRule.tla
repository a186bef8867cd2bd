------------------------------- MODULE BurnRule -------------------------------
(***************************************************************************)
(* The arithmetic of a burn rule (CheckoutService.calculateMaxBurn and the *)
(* two inline copies of it in BurningService): how many points a customer  *)
(* may burn on an invoice.  Pure operators, no state.                      *)
(*                                                                         *)
(* Units.  A balance is decimal(10,2): points are counted in hundredths of *)
(* a point.  Money is in SAR when it is an invoice amount.  A discount is  *)
(* in hundredths of a halala, so that a hundredth of a point is worth      *)
(* Factor of them, and the code's (amount * percent) / 100 SAR is          *)
(* 100 * amount * Percent.                                                 *)
(***************************************************************************)
EXTENDS Integers

CONSTANTS
    Limit,      \* rule.max_redeemption_points_limit, in whole points
    Factor,     \* rule.points_conversion_factor, in halalas per point
    Percent,    \* rule.max_burn_percent_on_invoice
    MinAmount   \* rule.min_amount_spent, in SAR

ASSUME RuleAssumption ==
    /\ Limit \in Nat
    /\ Factor \in Nat
    /\ Percent \in Nat
    /\ MinAmount \in Nat

Least(a, b) == IF a <= b THEN a ELSE b

Discount(points) == points * Factor

MaxDiscount(amount) == 100 * amount * Percent

(* The lowest of three caps: the balance, the rule's point limit, and the  *)
(* share of the invoice, converted back to points.  Only the last is       *)
(* floored to whole points.                                                *)
MaxBurn(available, amount) ==
    LET points == Least(available, 100 * Limit)
    IN  IF Discount(points) > MaxDiscount(amount)
        THEN 100 * ((amount * Percent) \div Factor)
        ELSE points

(* The declarative reading of the three caps: p is admissible on an        *)
(* invoice of this amount for a customer with this balance.                *)
Admissible(p, available, amount) ==
    /\ p <= available
    /\ p <= 100 * Limit
    /\ Discount(p) <= MaxDiscount(amount)

=============================================================================
