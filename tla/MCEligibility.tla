----------------------------- MODULE MCEligibility -----------------------------
(* Two customers around the minima of two tiers, and coupons with a row or *)
(* two of every type.                                                      *)
EXTENDS Eligibility, TLC

CONSTANTS ann, bob

MCPeople ==
    ann :> [email |-> "a@x", domain |-> "x", phone |-> "1", places |-> {"riyadh", "olaya"}, birthday |-> TRUE]
 @@ bob :> [email |-> "b@y", domain |-> "y", phone |-> "2", places |-> {"jeddah"}, birthday |-> FALSE]

MCTierForms == {[min |-> 0, texts |-> {}], [min |-> 5, texts |-> {"ar"}]}
MCDiscounts == {[type |-> "percentage", price |-> 10], [type |-> "fixed", price |-> 50],
                [type |-> "fixed_discount", price |-> 50]}
MCLower == "mileage" :> "mileage" @@ "fuel" :> "fuel" @@ "Seats" :> "seats" @@ "seats" :> "seats"
MCRates == "gold" :> 20
MCSent == {MCRates, "base" :> 30}

Absent == [kind |-> "absent", of |-> {}]
Car(type, operator, value, make, year, model, variants, variant) ==
    [type |-> type, operator |-> operator, value |-> value, make |-> make, year |-> year,
     model |-> model, variants |-> variants, variant |-> variant]
Field(type, operator, value) == Car(type, operator, value, None, None, None, {}, Absent)
Row(type, operator, value) == [type |-> type, operator |-> operator, value |-> value]
E(type, rows) == [type |-> type, rows |-> rows]
One(text) == [bars |-> {text}, commas |-> {text}]

Mileage == E("VEHICLE_SPECIFIC", <<Field("mileage", ">=", Text(5))>>)
Seats == E("VEHICLE_SPECIFIC", <<Field("Seats", "==", Number(5))>>)
SeatsOrFuel == E("VEHICLE_SPECIFIC", <<Field("Seats", "==", Number(5)), Field("fuel", "==", Text(1))>>)
Focus == E("VEHICLE_SPECIFIC",
           <<Car(None, None, None, "ford", "2020", "focus", {"s", "t"}, [kind |-> "array", of |-> {"s", "t"}])>>)
Fords == E("VEHICLE_SPECIFIC",
           <<Car(None, None, None, "ford", "2020", "focus", {"s", "t"}, Absent),
             Car("fuel", "==", Text(1), "ford", None, None, {"all"}, [kind |-> "number", of |-> {}])>>)
Oil == E("PRODUCT_SPECIFIC", <<Row("oil", None, None)>>)
OilOrTyre == E("PRODUCT_SPECIFIC", <<Row("oil", None, None), Row("tyre", None, None)>>)
Washes == E("SERVICE_BASED", <<Row("wash", "==", Text(1)), Row("wax", "<=", Text(2))>>)
Counted == E("SERVICE_BASED", <<Row("wash", "==", Number(1))>>)
ManyWashes == E("SERVICE_BASED", <<Row("wash", ">", Text(1))>>)
Gold == E("TIER_BASED", <<[tier |-> "gold"]>>)
Riyadh == E("GEO_TARGETED", <<Row([includes |-> {"riyadh"}, excludes |-> {"olaya"}], None, None)>>)
Users == E("USER_SPECIFIC", <<Row("EMAIL", "==", One("a@x")), Row("EMAIL_DOMAIN", "!=", One("y"))>>)
OnlyAnn == E("USER_SPECIFIC", <<Row("EMAIL", "==", One("a@x")), Row("PHONE_NUMBER", "!=", One("2"))>>)
NotThese == E("USER_SPECIFIC", <<Row("EMAIL", "!=", [bars |-> {"a@x", "b@y"}, commas |-> {"a@x|b@y"}])>>)
Today == E("BIRTHDAY", <<>>)
Spend(type) == E(type, <<Row("spend", ">=", Text(3))>>)

MCSimple ==
    <<Mileage, Seats, SeatsOrFuel, Focus, Fords, Oil, OilOrTyre, Washes, Counted, ManyWashes, Gold,
      Riyadh, Users, OnlyAnn, NotThese, Today, Spend("DISCOUNT"), Spend("REFERRAL")>>

MCComplex ==
    <<<<Mileage, Washes>>, <<Focus, Washes, Oil>>, <<Fords, ManyWashes>>, <<OilOrTyre, Gold>>, <<Gold>>,
      <<Seats, Oil>>, <<SeatsOrFuel, Washes>>, <<Counted, Oil>>,
      <<Today, Users, Spend("DISCOUNT")>>, <<Oil, OilOrTyre>>>>

=============================================================================
