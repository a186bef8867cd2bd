------------------------------ MODULE Eligibility ------------------------------
(***************************************************************************)
(* Who a coupon is for: the tiers (TiersService) and the conditions of a   *)
(* coupon as CouponsService checks them (redeem, validateCoupon), as it    *)
(* explains a refusal (makeCriteriaFromCouponPayload), and as a campaign   *)
(* compares them with what its caller sends (CustomerService).             *)
(*                                                                         *)
(* Administrators edit the tiers, points come and go, and meanwhile a      *)
(* customer asks for his tier or redeems a coupon whose discount depends   *)
(* on it; each read is a step.  A check that throws answers "error".       *)
(*                                                                         *)
(* Not modelled: limits, dates and segments of a coupon (module Coupons),  *)
(* blanks, letter case but in the names of a vehicle's fields, benefits,   *)
(* and discounts saved without any conditions.  Texts spell single digits  *)
(* here, so that they compare as their numbers do.                         *)
(***************************************************************************)
EXTENDS Handlers, Integers, Sequences, FiniteSets, FiniteSetsExt, Functions

CONSTANTS
    Customers,
    People,     \* what a customer's row says: [email, domain, phone, places, birthday]
    TierIds,
    Languages,
    TierForms,  \* [min, texts]: the languages of its texts, if it has any
    Totals,     \* values of total_balance
    Discounts,  \* discount_type and discount_price
    Bills,      \* amounts of purchases
    Rates,      \* the rows of a TIER_BASED coupon: a rate for some tiers
    Sent,       \* such rows as the caller of a campaign may send
    Lower,      \* the name of a vehicle's field in lower case
    Simple,     \* a sequence of simple coupons: [type, rows]
    Complex,    \* of complex coupons: sequences of [type, rows]
    MaxCalls    \* bound: calls

None == "none"

IsSeq(s) == s \in Seq(Range(s))

HasValue(row) == row.value.text \in BOOLEAN /\ row.value.n \in Nat \ {0}

(* What administrators can save: a tier's row names a tier, and what is    *)
(* compared has a value (and not 0, which is told as none).                *)
IsEntry(e) ==
    /\ IsSeq(e.rows)
    /\ e.type = "TIER_BASED" => \A i \in DOMAIN e.rows : e.rows[i].tier \in TierIds
    /\ e.type = "SERVICE_BASED" => \A i \in DOMAIN e.rows : HasValue(e.rows[i])
    /\ e.type = "VEHICLE_SPECIFIC" =>
          \A i \in DOMAIN e.rows : e.rows[i].type # None =>
              e.rows[i].type \in DOMAIN Lower /\ HasValue(e.rows[i])

ASSUME EligibilityAssumption ==
    /\ DOMAIN People = Customers /\ \A c \in Customers : People[c].birthday \in BOOLEAN
    /\ \A x \in DOMAIN Simple : IsEntry(Simple[x])
    /\ \A x \in DOMAIN Complex :
          IsSeq(Complex[x]) /\ \A i \in DOMAIN Complex[x] : IsEntry(Complex[x][i])
    /\ \A rows \in Sent \cup {Rates} : DOMAIN rows \subseteq TierIds
    /\ None \notin TierIds /\ Totals \subseteq Nat
    /\ \A f \in TierForms : f.min \in Nat /\ f.texts \subseteq Languages
    /\ Lower \in [DOMAIN Lower -> DOMAIN Lower] /\ None \notin DOMAIN Lower
    /\ \A f \in DOMAIN Lower : Lower[Lower[f]] = Lower[f]

VARIABLES
    tiers,      \* tiers
    total,      \* total_balance of the customers' wallets
    kind,       \* of the coupon: "simple" or "complex"
    discount,   \* its discount_type and discount_price
    shown,      \* the last answer of tierBenefits, if any
    paid,       \* the last redemption, if any
    calls,
    setTo,      \* history: the discount administrators last chose
    byRate,     \* history: it has been redeemed at the rate of a tier
    raced       \* history: the coupon was edited or redeemed during a redemption

eligibilityVars ==
    <<tiers, total, kind, discount, req, shown, paid, calls, setTo, byRate, raced>>

-----------------------------------------------------------------------------
Count == calls < MaxCalls /\ calls' = calls + 1
Redeeming == \E r \in Requests : req[r].pc \in {"check", "save"}

-----------------------------------------------------------------------------
(* Tiers.                                                                  *)

NoTier == [status |-> 0, min |-> 0, texts |-> {}]
Saved(form) == [status |-> 1, min |-> form.min, texts |-> form.texts]

(* create and update; an edit of a removed tier that does not set the      *)
(* status is seen by nobody and left out.                                  *)
SaveTier ==
    /\ Count
    /\ \E t \in TierIds, form \in TierForms : tiers' = [tiers EXCEPT ![t] = Saved(form)]
    /\ UNCHANGED <<total, kind, discount, req, shown, paid, setTo, byRate, raced>>

RemoveTier ==
    /\ Count
    /\ \E t \in TierIds :
         tiers[t].status = 1 /\ tiers' = [tiers EXCEPT ![t].status = 0]
    /\ UNCHANGED <<total, kind, discount, req, shown, paid, setTo, byRate, raced>>

(* Points are earned and expire (module PointsLifecycle).                  *)
ChangeTotal ==
    /\ Count
    /\ \E c \in Customers : \E n \in Totals \ {total[c]} : total' = [total EXCEPT ![c] = n]
    /\ UNCHANGED <<tiers, kind, discount, req, shown, paid, setTo, byRate, raced>>

(* The queries filter by a language if they are given one: then a tier has *)
(* texts in it, or none at all.                                            *)
Readable(texts, lang) == lang = None \/ texts = {} \/ lang \in texts

Shown(lang) == {t \in TierIds : tiers[t].status = 1 /\ Readable(tiers[t].texts, lang)}

(* getCurrentCustomerTier, whose language is English unless one is given.  *)
English(lang) == IF lang = None THEN "en" ELSE lang

Reached(points, lang) == {t \in Shown(lang) : tiers[t].min <= points}

(* Of two tiers of one minimum, either.                                    *)
CurrentTiers(points, lang) ==
    LET reached == Reached(points, English(lang))
    IN  IF reached = {} THEN {None}
        ELSE {t \in reached : \A u \in reached : tiers[u].min <= tiers[t].min}

Rung(t) == [id |-> t, min |-> tiers[t].min, texts |-> tiers[t].texts]

(* The tiers from the lowest up; without a language, those of all.         *)
Ladders(lang) ==
    {l \in [1 .. Cardinality(Shown(lang)) -> {Rung(t) : t \in Shown(lang)}] :
        /\ {l[i].id : i \in DOMAIN l} = Shown(lang)
        /\ \A i, j \in DOMAIN l : i < j => l[i].min <= l[j].min}

TierBenefits(r) ==
    /\ At(r, "idle") /\ Count
    /\ \E c \in Customers, lang \in Languages \cup {None} :
          Go(r, [pc |-> "current", customer |-> c, lang |-> lang, points |-> total[c],
                 since |-> calls + 1])
    /\ UNCHANGED <<tiers, total, kind, discount, shown, paid, setTo, byRate, raced>>

(* The wallet is read again.                                               *)
ReadCurrent(r) ==
    /\ At(r, "current")
    /\ Go(r, [pc |-> "tier", asked |-> req[r], again |-> total[req[r].customer]])
    /\ UNCHANGED <<tiers, total, kind, discount, shown, paid, calls, setTo, byRate, raced>>

ReadTier(r) ==
    /\ At(r, "tier")
    /\ \E t \in CurrentTiers(req[r].again, req[r].asked.lang) :
          Go(r, [pc |-> "ladder", asked |-> req[r].asked,
                 current |-> [id |-> t, min |-> IF t = None THEN 0 ELSE tiers[t].min]])
    /\ UNCHANGED <<tiers, total, kind, discount, shown, paid, calls, setTo, byRate, raced>>

NoNext == [id |-> None, min |-> 0]

(* Mutant: a tier just reached is still ahead.                             *)
NextAfter(ladder, points) ==
    LET done == {i \in DOMAIN ladder : points > ladder[i].min}
    IN  IF done = {} THEN ladder[1]
        ELSE IF Max(done) = Len(ladder) THEN NoNext ELSE ladder[Max(done) + 1]

NextTier(ladder, points) ==
    LET done == {i \in DOMAIN ladder : points >= ladder[i].min}
    IN  IF done = {} THEN ladder[1]
        ELSE IF Max(done) = Len(ladder) THEN NoNext ELSE ladder[Max(done) + 1]

(* Without any tier the answer is an error, and in a tier too for one who  *)
(* has no transaction yet.                                                 *)
Show(r) ==
    /\ At(r, "ladder")
    /\ \/ (Shown(req[r].asked.lang) = {} \/ req[r].current.id # None) /\ UNCHANGED shown
       \/ Shown(req[r].asked.lang) # {} /\ \E ladder \in Ladders(req[r].asked.lang) :
            shown' = <<[lang    |-> req[r].asked.lang,
                        points  |-> req[r].asked.points,
                        current |-> req[r].current,
                        next    |-> NextTier(ladder, req[r].asked.points),
                        ladder  |-> ladder,
                        quiet   |-> calls = req[r].asked.since]>>
    /\ Return(r)
    /\ UNCHANGED <<tiers, total, kind, discount, paid, calls, setTo, byRate, raced>>

-----------------------------------------------------------------------------
(* Conditions.  A row has a type, an operator and a value; for a vehicle   *)
(* the type is the name of a field, and more may be asked; for a place it  *)
(* holds those to be in and those not to be in.                            *)

Answer(b) == IF b THEN "yes" ELSE "no"

(* some stops at the first that decides, or throws.                        *)
AnyOf(outs) ==
    LET ends == {i \in DOMAIN outs : outs[i] # "no"}
    IN  IF ends = {} THEN "no" ELSE outs[Min(ends)]

Text(n) == [text |-> TRUE, n |-> n]
Number(n) == [text |-> FALSE, n |-> n]

(* IN asks for an array, and a row's value is none.                        *)
Applies(actual, operator, expected) ==
    CASE operator = "==" -> actual = expected
      [] operator = "!=" -> actual # expected
      [] operator = ">=" -> actual.n >= expected.n
      [] operator = "<=" -> actual.n <= expected.n
      [] operator = ">"  -> actual.n > expected.n
      [] operator = "<"  -> actual.n < expected.n
      [] OTHER           -> FALSE

(* Both values are trimmed, and a number has no trim.                      *)
Trimmed(actual, row) ==
    IF actual.text /\ row.value.text THEN Answer(Applies(actual, row.operator, row.value))
    ELSE "error"

(* The complex check asks for the type of a value before.                  *)
Feature(check, actual, row) ==
    IF check = "simple" THEN Trimmed(actual, row)
    ELSE Answer(Applies(actual, row.operator, row.value))

Asks(row) == {f \in {"type", "make", "year", "model"} : row[f] # None}

(* The simple check takes the name of the field as it is spelled.          *)
FieldOf(check, row) == IF check = "simple" THEN row.type ELSE Lower[row.type]

VehicleMatches(check, v, row) ==
    LET field == FieldOf(check, row)
    IN  IF row.type # None /\ field \notin DOMAIN v.features THEN "no"
        ELSE IF row.type # None /\ Feature(check, v.features[field], row) = "error" THEN "error"
        ELSE Answer(
                /\ Asks(row) # {} \/ row.variants # {}
                /\ row.type # None => Feature(check, v.features[field], row) = "yes"
                /\ \A f \in Asks(row) \ {"type"} : v[f] = row[f]
                /\ row.variants # {"all"} => row.variants \subseteq v.variants)

Vehicle(check, rows, order) ==
    AnyOf([i \in DOMAIN order.vehicles |->
        AnyOf([j \in DOMAIN rows |-> VehicleMatches(check, order.vehicles[i], rows[j])])])

(* What is known of a customer.                                            *)
Own(c) == [EMAIL |-> People[c].email, EMAIL_DOMAIN |-> People[c].domain,
           PHONE_NUMBER |-> People[c].phone]

(* matchConditions of CouponsService.  A value lists its parts at bars,    *)
(* or, for a campaign, at commas.                                          *)
UserSpecific(rows, c) ==
    Answer(\E i \in DOMAIN rows :
        /\ rows[i].type \in DOMAIN Own(c)
        /\ (rows[i].operator = "==") <=> Own(c)[rows[i].type] \in rows[i].value.bars)

Product(rows, order) == Answer(\E i \in DOMAIN rows : rows[i].type \in order.products)

(* Places to keep out of alone admit nobody.                               *)
GeoTargeted(rows, c) ==
    Answer(\A i \in DOMAIN rows :
        /\ rows[i].type.includes \cap People[c].places # {}
        /\ rows[i].type.excludes \cap People[c].places = {})

Service(rows, order) ==
    AnyOf([i \in DOMAIN rows |->
        IF rows[i].type \notin DOMAIN order.services THEN "no"
        ELSE Trimmed(order.services[rows[i].type], rows[i])])

Spent(order, row) == Applies(Number(order.amount), row.operator, Number(row.value.n))

Discount(rows, order) ==
    Answer(order.products # {} /\ \A i \in DOMAIN rows : Spent(order, rows[i]))

(* A referral without a list of products throws.                           *)
Referral(rows, order) ==
    IF ~order.referral THEN "no"
    ELSE IF ~order.listed THEN "error"
    ELSE Answer(\E i \in DOMAIN rows : Spent(order, rows[i]))

(* A customer below every tier makes the check throw.                      *)
TierBased(rows, tier) ==
    IF tier = None THEN "error" ELSE Answer(\E i \in DOMAIN rows : rows[i].tier = tier)

Birthday(c) == Answer(People[c].birthday)

Blank(rows) == Len(rows) = 1 /\ rows[1].type = None /\ rows[1].operator = None

(* checkSimpleCouponConditions                                             *)
CheckSimple(k, order, c, tier) ==
    CASE k.type = "VEHICLE_SPECIFIC" -> Vehicle("simple", k.rows, order)
      [] k.type = "USER_SPECIFIC"    -> UserSpecific(k.rows, c)
      [] k.type = "PRODUCT_SPECIFIC" -> Product(k.rows, order)
      [] k.type = "GEO_TARGETED"     -> GeoTargeted(k.rows, c)
      [] k.type = "SERVICE_BASED"    -> Service(k.rows, order)
      [] k.type = "DISCOUNT"         -> IF Blank(k.rows) THEN "yes" ELSE Discount(k.rows, order)
      [] k.type = "TIER_BASED"       -> TierBased(k.rows, tier)
      [] k.type = "BIRTHDAY"         -> Birthday(c)
      [] k.type = "REFERRAL"         -> Referral(k.rows, order)
      [] OTHER                       -> "no"

(* One entry of checkComplexCouponConditions, which asks for products with *)
(* a tier, and has no blank discount.                                      *)
CheckEntry(e, order, c, tier) ==
    CASE e.type = "VEHICLE_SPECIFIC" -> Vehicle("complex", e.rows, order)
      [] e.type = "USER_SPECIFIC"    -> UserSpecific(e.rows, c)
      [] e.type = "PRODUCT_SPECIFIC" -> Product(e.rows, order)
      [] e.type = "GEO_TARGETED"     -> GeoTargeted(e.rows, c)
      [] e.type = "SERVICE_BASED"    -> Service(e.rows, order)
      [] e.type = "DISCOUNT"         -> Discount(e.rows, order)
      [] e.type = "TIER_BASED"       -> IF order.products = {} THEN "no" ELSE TierBased(e.rows, tier)
      [] e.type = "BIRTHDAY"         -> Birthday(c)
      [] e.type = "REFERRAL"         -> Referral(e.rows, order)
      [] OTHER                       -> "no"

(* Every entry is looked at, so that any may throw.                        *)
CheckComplex(k, order, c, tier) ==
    LET outs == {CheckEntry(k[i], order, c, tier) : i \in DOMAIN k}
    IN  IF "error" \in outs THEN "error" ELSE Answer(outs \subseteq {"yes"})

-----------------------------------------------------------------------------
(* What a refused customer is told to bring: rows per section.             *)

Section(type) ==
    CASE type = "VEHICLE_SPECIFIC" -> "vehicle"
      [] type = "PRODUCT_SPECIFIC" -> "products"
      [] type = "SERVICE_BASED"    -> "services"
      [] OTHER                     -> "other"

(* makeCriteriaFromCouponPayloadForSimpleCoupon spells a section its way.  *)
SimpleSection(type) == IF type = "SERVICE_BASED" THEN "serivices" ELSE Section(type)

(* Mutant: the variants are not told.                                      *)
ToldModelOnly(row) ==
    [make |-> row.make, year |-> row.year, model |-> row.model, variants |-> {},
     features |-> [f \in {row.type} \ {None} |-> row.value]]

(* Nothing is told of a field the row does not ask.                        *)
ToldVehicle(row) ==
    [make |-> row.make, year |-> row.year, model |-> row.model, variants |-> row.variants,
     features |-> [f \in {row.type} \ {None} |-> row.value]]

ToldRow(type, row) == IF type = "VEHICLE_SPECIFIC" THEN ToldVehicle(row) ELSE row

Told(e) == [i \in DOMAIN e.rows |-> ToldRow(e.type, e.rows[i])]

(* Of two entries of a section the last is told.                           *)
ComplexCriteria(k) ==
    [s \in {Section(k[i].type) : i \in DOMAIN k} |->
        Told(k[Max({i \in DOMAIN k : Section(k[i].type) = s})])]
SimpleCriteria(k) == [s \in {SimpleSection(k.type)} |-> Told(k)]

(* The order of a customer who brings what he was told, and no more.       *)
Bring(criteria) ==
    LET rows(s) == IF s \in DOMAIN criteria THEN criteria[s] ELSE <<>>
        named(s) == {rows(s)[i].type : i \in DOMAIN rows(s)}
        first(s, name) == Min({i \in DOMAIN rows(s) : rows(s)[i].type = name})
    IN  [vehicles |-> rows("vehicle"),
         products |-> named("products"),
         listed   |-> "products" \in DOMAIN criteria,
         amount   |-> 0,
         services |-> [n \in named("services") |-> rows("services")[first("services", n)].value],
         referral |-> FALSE]

Nothing == [vehicles |-> <<>>, products |-> {}, listed |-> TRUE, amount |-> 0,
            services |-> <<>>, referral |-> FALSE]

(* validateCoupon, once the customer and the coupon are found eligible:    *)
(* whoever is refused for the conditions is told what to bring.            *)
Validated(answer, criteria) ==
    [answer |-> answer, bring |-> IF answer = "no" THEN Bring(criteria) ELSE Nothing]

ValidateComplex(k, order, c, tier) == Validated(CheckComplex(k, order, c, tier), ComplexCriteria(k))
ValidateSimple(k, order, c, tier) == Validated(CheckSimple(k, order, c, tier), SimpleCriteria(k))

-----------------------------------------------------------------------------
(* A campaign compares what its caller sends with the coupon's own rows.   *)

Same(a, b) == a.type = b.type /\ a.operator = b.operator /\ a.value = b.value

(* Mutant: every row is compared with the first.                           *)
SameAsFirst(given, own) == \A i \in DOMAIN given : Same(given[i], own[1])

(* Row by row.                                                             *)
SameRows(given, own) == \A i \in DOMAIN given : Same(given[i], own[i])

(* The coupon's first entry of the type counts.                            *)
MatchesEntry(e, k, c, tier) ==
    LET same == {i \in DOMAIN k : k[i].type = e.type}
        own  == k[Min(same)].rows
    IN  /\ same # {}
        /\ CASE e.type = "BIRTHDAY"   -> People[c].birthday
             [] e.type = "TIER_BASED" -> \E i \in DOMAIN own : own[i].tier = tier
             [] OTHER -> Len(e.rows) = Len(own) /\ SameRows(e.rows, own)

(* validateComplexCouponConditions                                         *)
ValidComplex(given, k, c, tier) == \A i \in DOMAIN given : MatchesEntry(given[i], k, c, tier)

(* validateSimpleCouponConditions; a variant that is sent has to be an     *)
(* array, and so has the row's.                                            *)
ValidSimple(given, own, type) ==
    \A i \in DOMAIN given : \E j \in DOMAIN own :
        /\ given[i].type = own[j].type
        /\ own[j].operator # None =>
              given[i].operator = own[j].operator /\ given[i].value.n = own[j].value.n
        /\ type = "VEHICLE_SPECIFIC" =>
              /\ \A f \in Asks(given[i]) \ {"type"} : given[i][f] = own[j][f]
              /\ given[i].variant.kind # "absent" =>
                    given[i].variant.kind = "array" /\ given[i].variant = own[j].variant

(* matchConditions of CustomerService knows no domains, and asks for every *)
(* row that the caller sends.                                              *)
CampaignUser(given, c) ==
    Answer(\A i \in DOMAIN given :
        /\ given[i].type \in {"EMAIL", "PHONE_NUMBER"}
        /\ (given[i].operator = "==") <=> Own(c)[given[i].type] \in given[i].value.commas)

(* handleCampaignCoupons, of a simple coupon: whoever is in none of the    *)
(* tiers that are sent makes it throw.                                     *)
AdmitSimple(k, given, c, tier) ==
    CASE k.type = "BIRTHDAY"      -> Birthday(c)
      [] k.type = "TIER_BASED"    -> IF \E i \in DOMAIN given : given[i].tier = tier THEN "yes"
                                                                                   ELSE "error"
      [] k.type = "USER_SPECIFIC" -> CampaignUser(given, c)
      [] OTHER                    -> Answer(ValidSimple(given, k.rows, k.type))

-----------------------------------------------------------------------------
(* Redemptions of a coupon whose rows are rates of tiers.                  *)

SetDiscount ==
    /\ Count
    /\ \E d \in Discounts \ {discount} : discount' = d /\ setTo' = d
    /\ raced' = (raced \/ Redeeming)
    /\ UNCHANGED <<tiers, total, kind, req, shown, paid, byRate>>

(* By its code; by a campaign, for which a simple coupon goes by the rates *)
(* the caller sends, and a complex one by its own, if its tiers are named. *)
Ways == {[path |-> "direct", by |-> <<>>]}
          \cup {[path |-> "event", by |-> rows] :
                   rows \in IF kind = "simple" THEN {<<sent>> : sent \in Sent} ELSE {<<>>, <<Rates>>}}

Redeem(r) ==
    /\ At(r, "idle") /\ Count
    /\ \E c \in Customers, way \in Ways, amount \in Bills :
          Go(r, [pc |-> "check", customer |-> c, way |-> way, amount |-> amount,
                 copy |-> discount])
    /\ raced' = (raced \/ Redeeming)
    /\ UNCHANGED <<tiers, total, kind, discount, shown, paid, setTo, byRate>>

(* A customer of no tier of the rows is refused, or the call throws; if a  *)
(* campaign's caller names no tiers nobody asks for them.                  *)
Admitted(way, tier) ==
    IF way.by # <<>> THEN tier \in DOMAIN way.by[1]
    ELSE way.path = "event" \/ tier \in DOMAIN Rates

(* Mutant: the coupon keeps the discount it has.                           *)
AsStored(copy, by, tier) == copy

(* A campaign gives the coupon the rate of the customer's tier.            *)
Discounted(copy, by, tier) ==
    IF by = <<>> THEN copy ELSE [type |-> "percentage_discount", price |-> by[1][tier]]

(* The two have a word of their own for a discount that is no percentage.  *)
FixedWord(path) == IF path = "direct" THEN "fixed" ELSE "fixed_discount"

(* In hundredths of a point.                                               *)
AmountOff(path, d, amount) ==
    IF d.type = FixedWord(path) THEN 100 * d.price ELSE amount * d.price

Pay(r) ==
    /\ At(r, "check")
    /\ \E tier \in CurrentTiers(total[req[r].customer], None) :
         IF ~Admitted(req[r].way, tier) THEN Return(r) /\ UNCHANGED <<paid, byRate>>
         ELSE LET way == req[r].way
                  by  == way.by
                  d   == Discounted(req[r].copy, by, tier)
              IN  /\ paid' = <<[path |-> way.path, by |-> by, tier |-> tier,
                                amount |-> req[r].amount,
                                points |-> AmountOff(way.path, d, req[r].amount),
                                set |-> setTo, clean |-> ~byRate /\ ~raced]>>
                  /\ byRate' = (byRate \/ by # <<>>)
                  /\ Go(r, [pc |-> "save", copy |-> d])
    /\ UNCHANGED <<tiers, total, kind, discount, shown, calls, setTo, raced>>

(* The count is saved with the rest of the copy.                           *)
SaveCoupon(r) ==
    /\ At(r, "save")
    /\ discount' = req[r].copy
    /\ Return(r)
    /\ UNCHANGED <<tiers, total, kind, shown, paid, calls, setTo, byRate, raced>>

-----------------------------------------------------------------------------
EligibilityInit ==
    /\ tiers = [t \in TierIds |-> NoTier]
    /\ total \in [Customers -> Totals]
    /\ kind \in {"simple", "complex"}
    /\ discount \in Discounts /\ setTo = discount
    /\ req = [r \in Requests |-> Idle]
    /\ shown = <<>> /\ paid = <<>>
    /\ calls = 0 /\ byRate = FALSE /\ raced = FALSE

EligibilityNext ==
    \/ SaveTier \/ RemoveTier \/ ChangeTotal \/ SetDiscount
    \/ \E r \in Requests :
         \/ TierBenefits(r) \/ ReadCurrent(r) \/ ReadTier(r) \/ Show(r)
         \/ Redeem(r) \/ Pay(r) \/ SaveCoupon(r)

EligibilitySpec == EligibilityInit /\ [][EligibilityNext]_eligibilityVars

-----------------------------------------------------------------------------
(* The tier a customer is told to be in is the highest he has the points   *)
(* for among those of his language, or of English if he names none, if     *)
(* nothing happened meanwhile; the next is, whatever happened, the lowest  *)
(* he has not, and if he names no language in any language at all.         *)
NextTierFollows ==
    \A i \in DOMAIN shown :
        LET a     == shown[i]
            rungs == Range(a.ladder)
            below == {l \in rungs : l.min <= a.points}
            ranks == {l \in below : Readable(l.texts, English(a.lang))}
            now   == {l \in ranks : l.id = a.current.id}
        IN  /\ a.next = NoNext <=> below = rungs
            /\ a.next # NoNext => a.next.min = Min({l.min : l \in rungs \ below})
            /\ a.quiet /\ ranks = {} => a.current.id = None
            /\ a.quiet /\ ranks # {} =>
                  now # {} /\ \A l \in now : l.min = Max({m.min : m \in ranks})

(* What administrators mean by a discount.                                 *)
FixedWords == {FixedWord(path) : path \in {"direct", "event"}}
Worth(d, amount) == IF d.type \in FixedWords THEN 100 * d.price ELSE amount * d.price

(* A redemption at a tier's rate pays that part of the purchase which the  *)
(* customer's own tier gets, whoever redeems the coupon meanwhile; any     *)
(* other is worth what administrators set, as long as no rate has been     *)
(* saved with the coupon and redemptions and edits did not overlap.  A     *)
(* fixed discount has to be set in the word of the path: in the other's it *)
(* is taken for a percentage.                                              *)
PaidAsEntitled ==
    \A i \in DOMAIN paid :
        LET p == paid[i]
        IN  IF p.by # <<>> THEN p.points = p.amount * p.by[1][p.tier]
            ELSE p.clean /\ p.set.type \notin FixedWords \ {FixedWord(p.path)}
                   => p.points = Worth(p.set, p.amount)

(* The checks of conditions read no state of the model and are compared    *)
(* once, before the first call.                                            *)
Before == calls = 0

AnyTier == TierIds \cup {None}
Distinct(k) == \A i, j \in DOMAIN k : k[i].type = k[j].type => i = j

(* A condition is asked that whoever meets it exactly meets: a product, a  *)
(* count of services, some of a vehicle's fields.                          *)
Within == {"==", ">=", "<="}
Bringable(e) ==
    /\ e.rows # <<>>
    /\ \/ e.type = "PRODUCT_SPECIFIC"
       \/ e.type = "SERVICE_BASED" /\ \A i \in DOMAIN e.rows : e.rows[i].operator \in Within
       \/ /\ e.type = "VEHICLE_SPECIFIC"
          /\ \A i \in DOMAIN e.rows :
               /\ Asks(e.rows[i]) # {} \/ e.rows[i].variants # {}
               /\ e.rows[i].type # None => e.rows[i].operator \in Within

(* What of it can be brought as it is told: texts where values are         *)
(* trimmed, and a field in the letters that the complex check looks for.   *)
(* A simple coupon's services are told in a section that no check reads.   *)
Plain(row) == row.type = None \/ row.value.text
Obtainable(check, e) ==
    CASE e.type = "SERVICE_BASED"    -> check = "complex" /\ e.rows[1].value.text
      [] e.type = "VEHICLE_SPECIFIC" -> IF check = "simple" THEN Plain(e.rows[1])
                                        ELSE \E i \in DOMAIN e.rows :
                                               LET f == e.rows[i].type
                                               IN  f = None \/ Lower[f] = f
      [] OTHER                       -> TRUE

(* A customer who comes with nothing is refused, and who comes back with   *)
(* exactly what the refusal told him is accepted just if it can be brought *)
(* so: by a complex coupon of vehicles, products and services (and his     *)
(* tier, if a product is asked), and by a simple one.                      *)
CriteriaSuffice ==
  Before =>
    /\ \A c \in Customers, tier \in AnyTier, x \in DOMAIN Complex :
         LET k == Complex[x]
             InTier(e) == /\ e.type = "TIER_BASED"
                          /\ \E j \in DOMAIN e.rows : e.rows[j].tier = tier
                          /\ \E j \in DOMAIN k : k[j].type = "PRODUCT_SPECIFIC"
         IN  k # <<>> /\ Distinct(k) /\ (\A i \in DOMAIN k : Bringable(k[i]) \/ InTier(k[i]))
               => LET first  == ValidateComplex(k, Nothing, c, tier)
                      second == ValidateComplex(k, first.bring, c, tier)
                  IN  /\ first.answer = "no"
                      /\ second.answer = "yes" <=> \A i \in DOMAIN k : Obtainable("complex", k[i])
    /\ \A c \in Customers, tier \in AnyTier, x \in DOMAIN Simple :
         LET k == Simple[x]
         IN  Bringable(k)
               => LET first  == ValidateSimple(k, Nothing, c, tier)
                      second == ValidateSimple(k, first.bring, c, tier)
                  IN  /\ first.answer = "no"
                      /\ second.answer = "yes" <=> Obtainable("simple", k)

(* Each value is one, however it is split.                                 *)
OneValueEach(rows) == \A i \in DOMAIN rows : rows[i].value.bars = rows[i].value.commas

(* Sending a coupon's own conditions with a campaign.  Of a simple coupon  *)
(* that asks for a birthday or a tier this is as good as redeeming it, and *)
(* where it asks for users nobody passes whom redeeming would refuse,      *)
(* unless a value lists several; any other coupon admits whoever sends     *)
(* them, but for a vehicle's variant that is not an array.  A complex      *)
(* coupon (with one entry of a type) looks at the customer only for his    *)
(* birthday and his tier.                                                  *)
EchoIsAccepted ==
  Before =>
    /\ \A c \in Customers, tier \in AnyTier, x \in DOMAIN Simple :
         LET k      == Simple[x]
             echoed == AdmitSimple(k, k.rows, c, tier) = "yes"
             direct == CheckSimple(k, Nothing, c, tier) = "yes"
         IN  CASE k.type \in {"BIRTHDAY", "TIER_BASED"} -> echoed <=> direct
               [] k.type = "USER_SPECIFIC" ->
                    echoed /\ k.rows # <<>> /\ OneValueEach(k.rows) => direct
               [] k.type = "VEHICLE_SPECIFIC" ->
                    echoed <=> \A i \in DOMAIN k.rows : k.rows[i].variant.kind \in {"absent", "array"}
               [] OTHER -> echoed
    /\ \A c \in Customers, tier \in AnyTier, x \in DOMAIN Complex :
         LET k == Complex[x]
             Personal(e) ==
                /\ e.type = "BIRTHDAY" => People[c].birthday
                /\ e.type = "TIER_BASED" => \E j \in DOMAIN e.rows : e.rows[j].tier = tier
         IN  Distinct(k) =>
               (ValidComplex(k, k, c, tier) <=> \A i \in DOMAIN k : Personal(k[i]))

=============================================================================
