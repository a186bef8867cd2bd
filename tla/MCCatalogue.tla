------------------------------ MODULE MCCatalogue ------------------------------
(***************************************************************************)
(* What administrators edit while customers use it.  A behaviour is one of *)
(* a campaign, a rule, an offer and their segments (Catalogue), or one of  *)
(* a coupon (Coupons): the two models share no variable but the requests   *)
(* in flight, and neither has a property of the other's.                   *)
(*                                                                         *)
(* Two customers in a segment each, a third segment to be created, and     *)
(* forms that add, drop and re-rate what a campaign, a rule or an offer    *)
(* has; coupons with a limit per customer and in all, or with an interval. *)
(***************************************************************************)
EXTENDS Catalogue, Coupons, TLC

CONSTANTS s1, s2, s3, c1, c2, r1, r2

MCMembers == s1 :> {1} @@ s2 :> {2}

MCCampaignForms ==
    {[type |-> "POINTS",  tiers |-> "gold" :> 2, segments |-> {s1}, rules |-> {"visit"}, coupons |-> {"wash"}],
     [type |-> "COUPONS", tiers |-> "gold" :> 3 @@ "base" :> 1, segments |-> {}, rules |-> {"visit"}, coupons |-> {"wash"}]}

MCRuleForms ==
    {[tiers |-> "gold" :> 2 @@ "base" :> Omitted, active |-> FALSE],
     [tiers |-> "gold" :> Omitted @@ "base" :> 3, active |-> TRUE]}

MCOfferForms ==
    {[segments |-> {s1},     all |-> FALSE, codes |-> 2, source |-> "uploaded",       active |-> FALSE],
     [segments |-> {s1, s2}, all |-> FALSE, codes |-> 0, source |-> "auto-generated", active |-> TRUE],
     [segments |-> {},       all |-> FALSE, codes |-> 0, source |-> "uploaded",       active |-> FALSE],
     [segments |-> {s2},     all |-> TRUE,  codes |-> 0, source |-> "none",           active |-> FALSE]}

MCTerms == {[usageLimit |-> 2, maxUsagePerUser |-> 1, reuseInterval |-> 0],
            [usageLimit |-> 2, maxUsagePerUser |-> 0, reuseInterval |-> 1]}

VARIABLE part   \* the part a behaviour is of

catalogueOnly == <<campaignVars, ruleVars, offerVars, segmentVars, next, calls, overlap>>
couponsOnly == <<tables, today, credits, edits, failures, raced>>

EditsInit ==
    /\ Init /\ CouponsInit
    /\ \/ part = "coupons"
       \/ part = "catalogue" /\ coupon.terms = CHOOSE terms \in Terms : TRUE

EditsNext ==
    \/ part = "catalogue" /\ Next /\ UNCHANGED <<part, couponsOnly>>
    \/ part = "coupons" /\ CouponsNext /\ UNCHANGED <<part, catalogueOnly>>

EditsSpec == EditsInit /\ [][EditsNext]_<<vars, couponsVars, part>>

\* Requests are interchangeable.
Symmetry == Permutations(Requests)

=============================================================================
