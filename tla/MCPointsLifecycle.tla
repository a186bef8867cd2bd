--------------------------- MODULE MCPointsLifecycle ---------------------------
(***************************************************************************)
(* Settings of the business unit for the model checker.                    *)
(***************************************************************************)
EXTENDS PointsLifecycle

From(sources, method, pending, expiry) ==
    [method |-> method, pending |-> pending, expiry |-> expiry,
     sources |-> sources]

(* Points spendable at once, points locked for a day, and points of        *)
(* campaigns, which have neither a created_at nor a point_balance.         *)
AllSettings == {From({"event"}, "none", 0, 1),
                From({"event"}, "fixed_days", 1, 1),
                From({"campaign"}, "fixed_days", 1, 1)}

=============================================================================
