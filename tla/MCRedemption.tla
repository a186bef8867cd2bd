----------------------------- MODULE MCRedemption -----------------------------
(* Redemption for TLC: which tenants there are; interchangeable slots.     *)
EXTENDS Redemption, TLC

Slots == Permutations(Requests)

BothApis == [apis |-> {"checkout", "burning"}, otp |-> FALSE]
BothApisOtp == [BothApis EXCEPT !.otp = TRUE]
CheckoutOtp == [apis |-> {"checkout"}, otp |-> TRUE]
BurningOtp == [apis |-> {"burning"}, otp |-> TRUE]
Checkout == [apis |-> {"checkout"}, otp |-> FALSE]
Burning == [apis |-> {"burning"}, otp |-> FALSE]

Mixed == {BothApis}
AnyWithOtp == {BothApisOtp, CheckoutOtp, BurningOtp, Checkout}
CheckoutOnly == {Checkout}
BurningOnly == {Burning}
CheckoutOtpOnly == {CheckoutOtp}

=============================================================================
