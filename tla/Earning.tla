-------------------------------- MODULE Earning --------------------------------
(***************************************************************************)
(* How rules give points to one customer and take them: CustomerService    *)
(* earnWithEvent, gvrEarnWithEvent, earnPoints with a campaign,            *)
(* burnWithEvent, burnTransaction, gvrBurnWithEvent, and CampaignsService  *)
(* burnPoints and burnPointsWithCampaign.                                  *)
(*                                                                         *)
(* A rule says how often it gives: once, daily, yearly.  Each handler      *)
(* looks at earlier transactions first and writes its own several awaits   *)
(* later.  A transaction written by addTransaction is dated and saved      *)
(* before the wallet; one written by creditWallet has no created_at and is *)
(* saved after it.                                                         *)
(*                                                                         *)
(* Balances are decimal(10,2), here hundredths of points; what a           *)
(* transaction says of points is rounded to whole ones.  Not modelled:     *)
(* points that are locked at first or expire (module PointsLifecycle),     *)
(* what the conditions of a rule compare, orders and notifications, and    *)
(* handleRuleEarning, which nothing calls.                                 *)
(***************************************************************************)
EXTENDS Handlers, Integers, FiniteSets, Sequences, SequencesExt

CONSTANTS
    Rules,          \* earning rules: [trigger, frequency, reward, perAmount, min, paths]
    CampaignRate,   \* point_conversion_rate of the customer's tier, in hundredths
    BurnRules,      \* [type, frequency, min, limit, factor, percent]
    BurnLists,      \* what a fuel station's metadata may match: sequences of
                    \* <<burn rule, amount>> of one business unit
    Amounts,        \* of an order, in SAR
    Year,           \* days of a year
    Days,           \* bound: days
    InitialPoints,  \* in hundredths
    MaxTxs,         \* bound: transactions, and requests
    MaxDisturbances \* bound: handlers that die, and changes of the customer's status

Frequencies == {"once", "daily", "yearly", "anytime"}

ASSUME EarningAssumption ==
    /\ \A rule \in Rules : /\ rule.frequency \in Frequencies
                           /\ rule.reward \in Nat \ {0} /\ rule.min \in Nat \ {0}
                           /\ rule.perAmount \in BOOLEAN
                           /\ rule.paths \subseteq {"event", "gvr", "campaign"}
    /\ \A rule \in BurnRules : /\ rule.frequency \in Frequencies
                               /\ rule.type \in {"FIXED", "PERCENTAGE"}
                               /\ {rule.min, rule.limit, rule.percent} \subseteq Nat
                               /\ rule.factor \in Nat \ {0}
                               /\ \A a \in Amounts : (100 * a) % rule.factor = 0
    /\ Amounts \subseteq Nat /\ CampaignRate \in Nat \ {0}
    /\ {Days, InitialPoints, MaxTxs, MaxDisturbances} \subseteq Nat
    /\ Year \in Nat \ {0}
    /\ IsFiniteSet(Requests)
    /\ \A list \in BurnLists : list # <<>> /\ list \in Seq(BurnRules \X (Amounts \cup {0}))

VARIABLES
    wallet,     \* available_balance, in hundredths
    txs,        \* wallet_transactions, in the order of their ids
    activities, \* how many customer_activities of type rule
    active,     \* customers.status = 1
    today,
    started, edits, failures,
    overlap     \* history: two requests were in flight at once

tables == <<wallet, txs, activities, active>>
vars == <<tables, today, req, started, edits, failures, overlap>>

-----------------------------------------------------------------------------
Undated == -1
NoRule == [frequency |-> "anytime"]

(* created_at is null or a day; the rule is history.                       *)
Row(type, trigger, created, cents, rule) ==
    [type |-> type, trigger |-> trigger, created |-> created,
     points |-> cents, rule |-> rule]

Undisturbed == edits + failures < MaxDisturbances

(* MySQL rounds a decimal that is stored in an integer column.             *)
Whole(cents) == 100 * ((cents + 50) \div 100)

-----------------------------------------------------------------------------
(* What has been given already.                                            *)

Given(trigger) == {i \in DOMAIN txs : txs[i].type = "earn" /\ txs[i].trigger = trigger}
Burned == {i \in DOMAIN txs : txs[i].type = "burn"}

(* Mutant: order: created_at ASC.                                          *)
Earliest(ids) == IF ids = {} THEN 0
                 ELSE CHOOSE i \in ids : \A j \in ids :
                        \/ txs[i].created < txs[j].created
                        \/ txs[i].created = txs[j].created /\ i <= j

(* order: created_at DESC, which puts rows without a date last.            *)
Latest(ids) == IF ids = {} THEN 0
               ELSE CHOOSE i \in ids : \A j \in ids :
                        \/ txs[i].created > txs[j].created
                        \/ txs[i].created = txs[j].created /\ i >= j

SameDay(d, e) == d # Undated /\ d = e
SameYear(d, e) == d # Undated /\ d \div Year = e \div Year

(* The frequency of a rule against the last transaction: previousTx.       *)
TooSoon(frequency, i) ==
    /\ i # 0
    /\ \/ frequency = "once"
       \/ frequency = "daily" /\ SameDay(txs[i].created, today)
       \/ frequency = "yearly" /\ SameYear(txs[i].created, today)

(* Mutant: every rule is daily.                                            *)
RewardedToday(rule) ==
    \E i \in Given(rule.trigger) : SameDay(txs[i].created, today)

(* checkAlreadyRewaredPoints: against all transactions of the trigger.  A  *)
(* rule for any time is refused in a second of a day in which one was      *)
(* given, on whatever day.                                                 *)
AlreadyRewarded(rule) ==
    \E i \in Given(rule.trigger) :
        \/ rule.frequency = "once"
        \/ rule.frequency = "daily" /\ SameDay(txs[i].created, today)
        \/ rule.frequency = "yearly" /\ SameYear(txs[i].created, today)

-----------------------------------------------------------------------------
(* How many points, in hundredths.                                         *)

Reward(rule, amount) ==
    100 * rule.reward * (IF rule.perAmount THEN amount \div rule.min ELSE 1)

Capped(rule, amount) ==
    IF rule.limit * rule.factor > amount THEN (100 * amount) \div rule.factor
    ELSE 100 * rule.limit

(* burnWithEvent, burnTransaction: a fixed burn is cut to the amount.      *)
EventBurn(rule, amount) ==
    IF rule.type = "FIXED" THEN Capped(rule, amount) ELSE 100 * rule.limit

(* burnPoints: it is refused instead; rate in hundredths.                  *)
Affordable(rule, rate, amount) ==
    IF rule.type = "FIXED" THEN rule.limit * rate <= 100 * amount
    ELSE rule.percent <= 100

(* gvrBurnWithEvent looks at which columns are set, not at burn_type.      *)
GvrBurn(rule, amount) ==
    IF rule.percent # 0 THEN 100 * rule.limit
    ELSE IF rule.limit # 0 THEN Capped(rule, amount) ELSE 0

-----------------------------------------------------------------------------
(* Every handler reads the customer and the wallet first; the burns of     *)
(* CampaignsService take a customer of any status.                         *)
Begin(r, kind, rule, amount) ==
    /\ At(r, "idle") /\ started < MaxTxs
    /\ active \/ kind \in {"ruleBurn", "campaignBurn"}
    /\ started' = started + 1
    /\ overlap' = (overlap \/ Busy)
    /\ Go(r, [pc |-> "check", kind |-> kind, rule |-> rule, amount |-> amount,
              copy |-> wallet])
    /\ UNCHANGED <<tables, today, edits, failures>>

Start(r) ==
    \/ \E rule \in Rules, kind \in {"event", "gvr", "campaign"}, amount \in Amounts :
          kind \in rule.paths /\ Begin(r, kind, rule, amount)
    \/ \E rule \in BurnRules, amount \in Amounts,
          kind \in {"eventBurn", "appBurn", "ruleBurn", "campaignBurn"} :
          Begin(r, kind, rule, amount)
    \/ \E list \in BurnLists : Begin(r, "gvrBurn", NoRule, list)

(* To addTransaction with a row and its points; then on to next.           *)
Book(r, row, cents, next) ==
    Go(r, [pc |-> "load", row |-> row, cents |-> cents, next |-> next])

Earn(r, trigger, cents) ==
    Book(r, Row("earn", trigger, today, cents, req[r].rule), cents, Idle)

(* earnWithEvent.                                                          *)
EarnWithEvent(r) ==
    /\ At(r, "check") /\ req[r].kind = "event"
    /\ LET rule == req[r].rule IN
       /\ ~TooSoon(rule.frequency, Latest(Given(rule.trigger)))
       /\ rule.perAmount => req[r].amount >= rule.min
       /\ Earn(r, rule.trigger, Reward(rule, req[r].amount))
    /\ UNCHANGED <<tables, today, started, edits, failures, overlap>>

(* gvrEarnWithEvent: all rules share a trigger, and the tier multiplies.   *)
GvrEarnWithEvent(r) ==
    /\ At(r, "check") /\ req[r].kind = "gvr"
    /\ LET rule == req[r].rule IN
       /\ ~TooSoon(rule.frequency, Latest(Given("GVR Earn")))
       /\ req[r].amount >= rule.min
       /\ Earn(r, "GVR Earn", (Reward(rule, req[r].amount) * CampaignRate) \div 100)
    /\ UNCHANGED <<tables, today, started, edits, failures, overlap>>

(* handleCampaignEarning; that a rule for any time meets the second of an  *)
(* earlier reward is left to Refused.                                      *)
EarnPoints(r) ==
    /\ At(r, "check") /\ req[r].kind = "campaign"
    /\ LET rule == req[r].rule IN
       /\ ~AlreadyRewarded(rule) /\ req[r].amount >= rule.min
       /\ Go(r, [pc |-> "credit", rule |-> rule, copy |-> req[r].copy,
                 cents |-> (Reward(rule, req[r].amount) * CampaignRate) \div 100])
    /\ UNCHANGED <<tables, today, started, edits, failures, overlap>>

(* The balance compared is the rule's limit, also where the burn will be   *)
(* cut to the amount.                                                      *)
BurnByRule(r, kind, created, cents) ==
    /\ At(r, "check") /\ req[r].kind = kind
    /\ req[r].amount >= req[r].rule.min /\ req[r].copy >= 100 * req[r].rule.limit
    /\ Book(r, Row("burn", "burn", created, cents, req[r].rule), cents, Idle)
    /\ UNCHANGED <<tables, today, started, edits, failures, overlap>>

BurnWithEvent(r) ==
    BurnByRule(r, "eventBurn", today, EventBurn(req[r].rule, req[r].amount))

(* For an app: the first rule whose minimum is met.                        *)
BurnTransaction(r) ==
    BurnByRule(r, "appBurn", today, EventBurn(req[r].rule, req[r].amount))

(* The rows of CampaignsService's burns have no date.                      *)
BurnPoints(r) ==
    /\ BurnByRule(r, "ruleBurn", Undated, 100 * req[r].rule.limit)
    /\ Affordable(req[r].rule, 100 * req[r].rule.factor, req[r].amount)

(* The rate of the customer's tier, if the campaign has tiers, is meant    *)
(* for earning and replaces the rule's factor here as well.                *)
BurnPointsWithCampaign(r) ==
    /\ BurnByRule(r, "campaignBurn", Undated, 100 * req[r].rule.limit)
    /\ \E rate \in {100 * req[r].rule.factor, CampaignRate} :
          Affordable(req[r].rule, rate, req[r].amount)

(* A condition, a minimum, a balance or an earlier reward stands against   *)
(* it; nothing was written.                                                *)
Refused(r) ==
    /\ At(r, "check")
    /\ Go(r, Idle)
    /\ UNCHANGED <<tables, today, started, edits, failures, overlap>>

-----------------------------------------------------------------------------
(* gvrBurnWithEvent: one burn per rule; the wallet and the last burn are   *)
(* those of the beginning.                                                 *)
GvrBurnBegin(r) ==
    /\ At(r, "check") /\ req[r].kind = "gvrBurn"
    /\ Go(r, [pc |-> "rules", copy |-> req[r].copy, last |-> Latest(Burned),
              list |-> req[r].amount, many |-> Len(req[r].amount) > 1])
    /\ UNCHANGED <<tables, today, started, edits, failures, overlap>>

(* One of several rules that does not apply is skipped; a single one, or   *)
(* one without an amount, ends the call, whatever was burned before.       *)
GvrBurnNext(r) ==
    /\ At(r, "rules")
    /\ LET rule == Head(req[r].list)[1] IN
       LET amount == Head(req[r].list)[2] IN
       LET cents == GvrBurn(rule, amount) IN
       LET rest == [req[r] EXCEPT !.list = Tail(@)] IN
       LET next == IF rest.list = <<>> THEN Idle ELSE rest IN
       LET late == TooSoon(rule.frequency, req[r].last) IN
       IF late \/ amount = 0 \/ amount < rule.min \/ req[r].copy < 100 * rule.limit
       THEN Go(r, IF req[r].many /\ (late \/ amount # 0) THEN next ELSE Idle)
       ELSE Book(r, Row("burn", "burn", today, cents, rule), cents, next)
    /\ UNCHANGED <<tables, today, started, edits, failures, overlap>>

-----------------------------------------------------------------------------
(* addTransaction.                                                         *)

(* Mutant: the balance is checked by the callers only.                     *)
AnyBalance(row, cents) == TRUE
Sufficient(row, cents) == row.type = "burn" => wallet >= cents

AddLoad(r) ==
    /\ At(r, "load")
    /\ IF Sufficient(req[r].row, req[r].cents)
       THEN Go(r, [pc |-> "insert", copy |-> wallet, row |-> req[r].row,
                   cents |-> req[r].cents, next |-> req[r].next])
       ELSE Go(r, Idle)
    /\ UNCHANGED <<tables, today, started, edits, failures, overlap>>

(* Mutant: the column keeps the fraction.                                  *)
Unrounded(row) == row

(* point_balance is an integer, and amount a decimal without digits.       *)
Stored(row) == [row EXCEPT !.points = Whole(@)]

Insert(r) ==
    /\ At(r, "insert")
    /\ txs' = Append(txs, Stored(req[r].row))
    /\ Go(r, [req[r] EXCEPT !.pc = "save"])
    /\ UNCHANGED <<wallet, activities, active, today, started, edits, failures, overlap>>

SaveWallet(r) ==
    /\ At(r, "save")
    /\ wallet' = IF req[r].row.type = "earn" THEN req[r].copy + req[r].cents
                 ELSE req[r].copy - req[r].cents
    /\ Go(r, req[r].next)
    /\ UNCHANGED <<txs, activities, active, today, started, edits, failures, overlap>>

-----------------------------------------------------------------------------
(* creditWallet, from the wallet the request read first.                   *)

After(pc) == CASE pc = "check" -> "credit"   [] pc = "credit"   -> "row"
               [] pc = "row"   -> "activity" [] pc = "activity" -> "idle"

Advance(r) ==
    Go(r, IF After(req[r].pc) = "idle" THEN Idle ELSE [req[r] EXCEPT !.pc = After(@)])

Credit(r) ==
    /\ At(r, "credit")
    /\ wallet' = req[r].copy + req[r].cents
    /\ Advance(r)
    /\ UNCHANGED <<txs, activities, active, today, started, edits, failures, overlap>>

CreditInsert(r) ==
    /\ At(r, "row")
    /\ txs' = Append(txs, Stored(Row("earn", req[r].rule.trigger, Undated,
                                     req[r].cents, req[r].rule)))
    /\ Advance(r)
    /\ UNCHANGED <<wallet, activities, active, today, started, edits, failures, overlap>>

(* createCustomerActivity answers 404 if the customer was deactivated      *)
(* meanwhile, and the points stay.                                         *)
CreateCustomerActivity(r) ==
    /\ At(r, "activity")
    /\ activities' = IF active THEN activities + 1 ELSE activities
    /\ Advance(r)
    /\ UNCHANGED <<wallet, txs, active, today, started, edits, failures, overlap>>

-----------------------------------------------------------------------------
UpdateStatus ==
    /\ Undisturbed /\ edits' = edits + 1
    /\ active' = ~active
    /\ UNCHANGED <<wallet, txs, activities, today, req, started, failures, overlap>>

Die(r) ==
    /\ ~At(r, "idle")
    /\ Undisturbed /\ failures' = failures + 1
    /\ Go(r, Idle)
    /\ UNCHANGED <<tables, today, started, edits, overlap>>

Tomorrow ==
    /\ today < Days /\ today' = today + 1
    /\ UNCHANGED <<tables, req, started, edits, failures, overlap>>

-----------------------------------------------------------------------------
Init ==
    /\ wallet = InitialPoints /\ txs = <<>> /\ activities = 0 /\ active = TRUE
    /\ today = 0
    /\ req = [r \in Requests |-> Idle]
    /\ started = 0 /\ edits = 0 /\ failures = 0 /\ overlap = FALSE

Next ==
    \/ \E r \in Requests :
         \/ Start(r) \/ Refused(r)
         \/ EarnWithEvent(r) \/ GvrEarnWithEvent(r) \/ EarnPoints(r)
         \/ BurnWithEvent(r) \/ BurnTransaction(r)
         \/ BurnPoints(r) \/ BurnPointsWithCampaign(r)
         \/ GvrBurnBegin(r) \/ GvrBurnNext(r)
         \/ AddLoad(r) \/ Insert(r) \/ SaveWallet(r)
         \/ Credit(r) \/ CreditInsert(r) \/ CreateCustomerActivity(r)
         \/ Die(r)
    \/ UpdateStatus \/ Tomorrow

Spec == Init /\ [][Next]_vars

-----------------------------------------------------------------------------
(* Properties.                                                             *)

(* Every variable stays in its range.                                      *)
TypeOK ==
    /\ wallet \in Int /\ activities \in Nat /\ active \in BOOLEAN
    /\ \A i \in DOMAIN txs : /\ txs[i].type \in {"earn", "burn"}
                             /\ txs[i].created \in {Undated} \cup 0 .. today
                             /\ txs[i].points \in Nat /\ txs[i].points % 100 = 0
    /\ today \in 0 .. Days

(* A fuel station's reward has a trigger of its own, whatever the rule's.  *)
Triggers(rule) == {rule.trigger, "GVR Earn"}
By(rule, trigger) == {i \in Given(trigger) : txs[i].rule = rule}
Dated(ids) == {i \in ids : txs[i].created # Undated}

(* Two days on which a rule of this frequency may both give.               *)
Apart(frequency, d, e) ==
    /\ frequency = "daily" => d # e
    /\ frequency = "yearly" => d \div Year # e \div Year

(* "once per customer": a rule gives once, by events and campaigns         *)
(* together, and once at fuel stations; requests in flight at once may be  *)
(* given it once each, however many follow and whatever dies.              *)
GivenOnce ==
    \A rule \in Rules : \A trigger \in Triggers(rule) : rule.frequency = "once" =>
        Cardinality(By(rule, trigger)) <= IF overlap THEN Cardinality(Requests) ELSE 1

(* "already granted today", "already granted this year": one request at a  *)
(* time, an event gives once per day or year, though rows without a date   *)
(* lie in between.                                                         *)
OncePerPeriod ==
    ~overlap =>
      \A rule \in Rules : \A trigger \in Triggers(rule) :
        \A i, j \in Dated(By(rule, trigger)) :
          i < j => Apart(rule.frequency, txs[i].created, txs[j].created)

(* No interleaving of burns and earnings takes more than there is, also    *)
(* if a fuel station's call burns several times on one reading.            *)
NeverOverdrawn == wallet >= 0

=============================================================================
